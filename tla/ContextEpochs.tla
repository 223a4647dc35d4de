--------------------------- MODULE ContextEpochs ---------------------------
(***************************************************************************)
(* What the model is told ahead of the conversation, kept for each session *)
(* as an epoch: main/context/contextEngine.ts, contextEpochStore.ts, the   *)
(* sources under main/context/sources, and settleContextEpoch in           *)
(* main/agentRuntime.ts.                                                   *)
(*                                                                         *)
(* One session, one run after the other.  An epoch is a baseline, a seed   *)
(* (the summary of what was compacted) and the updates appended for the    *)
(* durable sources; a run works on a copy, which only its success writes.  *)
(* A text is a number, 0 is none.                                          *)
(***************************************************************************)
EXTENDS Naturals, Sequences, FiniteSets

CONSTANTS
  Source,     \* durable sources
  Silent,     \* values that render to nothing
  MaxValue, MaxChanges, MaxSummaries, MaxEpochRuns  \* bounds

VARIABLES
  epochFile, \* the epoch, "none" or "corrupt"
  world,     \* what the sources and the baseline say now
  summary,   \* compactSummary of the session
  summaries, \* summaries made so far
  working,   \* the copy of the run: contextAssembly.epoch
  volatile,  \* the summary among the volatile blocks of the run
  captured,  \* capturedSummary
  epochRun,  \* "idle", "loaded", "prepared", "settling"
  changes, epochRuns

epochVars ==
  <<epochFile, world, summary, summaries, working, volatile, captured, epochRun, changes, epochRuns>>

None == [is |-> "none"]
Corrupt == [is |-> "corrupt"]
IsEpoch(f) == f.is = "epoch"

\* initialize: the seed of the previous epoch unless there is a newer one.
NewEpoch(base, previous, seed) ==
  [is |-> "epoch", generation |-> IF IsEpoch(previous) THEN previous.generation + 1 ELSE 1,
   base |-> base, snapshot |-> [s \in Source |-> 0], updates |-> <<>>,
   seed |-> IF seed # 0 \/ ~IsEpoch(previous) THEN seed ELSE previous.seed]

EpochInit ==
  /\ epochFile = None /\ working = None
  /\ world = [values |-> [s \in Source |-> 0], base |-> 1]
  /\ summary = 0 /\ summaries = 0 /\ volatile = 0 /\ captured = 0
  /\ epochRun = "idle" /\ changes = 0 /\ epochRuns = 0

----------------------------------------------------------------------------
(* Around the runs *)

\* Another document, another release of the prompt, other skills.
WorldChanges ==
  /\ changes < MaxChanges /\ changes' = changes + 1
  /\ \/ \E s \in Source, v \in 0..MaxValue : world' = [world EXCEPT !.values[s] = v]
     \/ world' = [world EXCEPT !.base = 3 - @]
  /\ UNCHANGED <<epochFile, summary, summaries, working, volatile, captured, epochRun, epochRuns>>

\* The command /compact of the window: the session gets a summary.
Compact ==
  /\ epochRun = "idle" /\ summaries < MaxSummaries
  /\ summaries' = summaries + 1 /\ summary' = summaries'
  /\ UNCHANGED <<epochFile, world, working, volatile, captured, epochRun, changes, epochRuns>>

\* The file does not parse any more.
FileDamaged ==
  /\ epochRun = "idle" /\ IsEpoch(epochFile) /\ epochFile' = Corrupt
  /\ changes < MaxChanges /\ changes' = changes + 1
  /\ UNCHANGED <<world, summary, summaries, working, volatile, captured, epochRun, epochRuns>>

----------------------------------------------------------------------------
(* A run *)

\* Slip: another baseline is written over the old one.
LoadedInPlace(f) ==
  IF ~IsEpoch(f) THEN NewEpoch(world.base, None, summary)
  ELSE [f EXCEPT !.base = world.base, !.seed = IF @ = 0 THEN summary ELSE @]

\* prepare, the baseline: no epoch or a damaged one starts afresh; another
\* baseline makes a new generation; else the epoch goes on, and takes the
\* summary of the session when it has no seed.
Loaded(f) ==
  IF ~IsEpoch(f) THEN NewEpoch(world.base, None, summary)
  ELSE IF f.base # world.base THEN NewEpoch(world.base, f, summary)
  ELSE [f EXCEPT !.seed = IF @ = 0 THEN summary ELSE @]

Load ==
  /\ epochRun = "idle" /\ epochRuns < MaxEpochRuns /\ epochRuns' = epochRuns + 1
  /\ working' = Loaded(epochFile) /\ epochRun' = "loaded"
  /\ UNCHANGED <<epochFile, world, summary, summaries, volatile, captured, changes>>

\* What one source adds: nothing when it says nothing, when it says what it
\* said, when it renders to nothing or when reading it fails.
Says(s) == world.values[s] # 0 /\ world.values[s] # working.snapshot[s]

\* Slip: a value that renders to nothing counts as told.
WithSilent(told) ==
  [working EXCEPT
     !.snapshot = [s \in Source |-> IF Says(s) THEN world.values[s] ELSE @[s]],
     !.updates = @ \o told]

WithUpdates(told) ==
  [working EXCEPT
     !.snapshot = [s \in Source |-> IF \E i \in DOMAIN told : told[i][1] = s
                                    THEN world.values[s] ELSE @[s]],
     !.updates = @ \o told]

\* The updates of the sources of a set, in an order the registry fixes.
UpdatesOf(S) ==
  {u \in [1..Cardinality(S) -> {<<s, world.values[s]>> : s \in S}] :
     \A i, j \in DOMAIN u : u[i] = u[j] => i = j}

\* The summary is a volatile block unless the seed is that very text.
Volatile(seed) == IF seed = summary THEN 0 ELSE summary

\* prepare, the sources; a source whose reading fails is left out.
Reconcile ==
  /\ epochRun = "loaded" /\ epochRun' = "prepared" /\ captured' = 0
  /\ \E S \in SUBSET {s \in Source : Says(s)} : \E told \in UpdatesOf({s \in S : world.values[s] \notin Silent}) :
       working' = WithUpdates(told)
  /\ volatile' = Volatile(working.seed)
  /\ UNCHANGED <<epochFile, world, summary, summaries, changes, epochRuns>>

\* The run itself compacts the conversation.
CompactsItself ==
  /\ epochRun = "prepared" /\ summaries < MaxSummaries
  /\ summaries' = summaries + 1 /\ captured' = summaries'
  /\ UNCHANGED <<epochFile, world, summary, working, volatile, epochRun, changes, epochRuns>>

\* rollOverForCompaction: the baseline of the epoch, not the one of today.
RolledOver == NewEpoch(working.base, working, captured)

\* save: the temporary file is renamed, or the file stays as it is.
Saves(epoch) == epochFile' \in {epoch, epochFile}

\* settleContextEpoch, with the success of the run; a write that fails is let go.
Settle ==
  /\ epochRun = "prepared" /\ epochRun' = "settling"
  /\ Saves(IF captured # 0 THEN RolledOver ELSE working)
  /\ UNCHANGED <<world, summary, summaries, working, volatile, captured, changes, epochRuns>>

RunOver == epochRun' = "idle" /\ working' = None /\ volatile' = 0 /\ captured' = 0

\* The result reaches the session, with the summary the run made.
Succeeds ==
  /\ epochRun = "settling" /\ RunOver
  /\ summary' = IF captured # 0 THEN captured ELSE summary
  /\ UNCHANGED <<epochFile, world, summaries, changes, epochRuns>>

\* An error, an abort, or the end of the process: before the settlement the
\* file is what it was, after it the session misses the summary.
Fails ==
  /\ epochRun # "idle" /\ RunOver
  /\ UNCHANGED <<epochFile, world, summary, summaries, changes, epochRuns>>

EpochNext ==
  \/ WorldChanges \/ Compact \/ FileDamaged
  \/ Load \/ Reconcile \/ CompactsItself \/ Settle \/ Succeeds \/ Fails

EpochSpec == EpochInit /\ [][EpochNext]_epochVars

----------------------------------------------------------------------------
(* Properties *)

\* The snapshot has of each source what its last update said.
TellsItsSnapshot(epoch) ==
  \A s \in Source :
    \/ epoch.snapshot[s] = 0 /\ \A i \in DOMAIN epoch.updates : epoch.updates[i][1] # s
    \/ \E i \in DOMAIN epoch.updates :
         /\ epoch.updates[i] = <<s, epoch.snapshot[s]>>
         /\ \A j \in DOMAIN epoch.updates : j > i => epoch.updates[j][1] # s

\* The snapshot a source is compared with is what the model was told last:
\* otherwise a change is not told, or told although the model knows it.
SnapshotIsTold == IsEpoch(working) => TellsItsSnapshot(working)

\* The last summary of the session stands before the conversation once: in the
\* seed or among the volatile blocks, never in both and never in neither.
SummaryToldOnce ==
  epochRun = "prepared" /\ summary # 0 => (working.seed = summary) # (volatile = summary)

ContextIsTold == SnapshotIsTold /\ SummaryToldOnce

\* The one epoch goes on as the other: it only gains updates, or its first
\* seed, or it is a later generation.
GoesOnAs(one, other) ==
  \/ other.generation > one.generation
  \/ /\ other.generation = one.generation /\ other.base = one.base
     /\ one.seed \in {0, other.seed}
     /\ Len(one.updates) <= Len(other.updates)
     /\ one.updates = SubSeq(other.updates, 1, Len(one.updates))

\* The prefix a provider may have cached is never rewritten.
EpochMovesOn ==
  IsEpoch(epochFile) /\ IsEpoch(epochFile') => GoesOnAs(epochFile, epochFile')

\* The inductive invariant behind both: the copy a run works on tells its
\* snapshot as the file does, and goes on as the file until it is settled.
Epoch ==
  [is : {"epoch"}, generation : Nat, base : {1, 2}, snapshot : [Source -> Nat],
   updates : Seq(Source \X Nat), seed : Nat]

EpochInv ==
  /\ epochFile \in Epoch \cup {None, Corrupt} /\ working \in Epoch \cup {None}
  /\ world \in [values : [Source -> Nat], base : {1, 2}]
  /\ {summary, summaries, captured} \subseteq Nat
  /\ epochRun \in {"idle", "loaded", "prepared", "settling"}
  /\ epochRun # "idle" => working \in Epoch
  /\ epochFile \in Epoch => TellsItsSnapshot(epochFile)
  /\ working \in Epoch => TellsItsSnapshot(working)
  /\ epochRun \in {"loaded", "prepared"} /\ epochFile \in Epoch => GoesOnAs(epochFile, working)
  /\ epochRun = "prepared" => volatile = Volatile(working.seed)
=============================================================================
