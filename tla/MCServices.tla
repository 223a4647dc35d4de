----------------------------- MODULE MCServices -----------------------------
(***************************************************************************)
(* The services of the program for TLC, each of them alone: what a part    *)
(* does is its own module, and a behaviour of this one is a behaviour of   *)
(* one part.  The parts share no state here, only the names x1, x2, ...    *)
(* for it: a variable of a part stands for one of them, and those it has   *)
(* no use for stay Unused.                                                   *)
(***************************************************************************)
EXTENDS Integers, Sequences, FiniteSets, TLC

CONSTANTS
  Parts,                                              \* the parts to check
  Finder, Items, Named, Valued, Limit, Fuse, Cached, MaxOpens, MaxFinds, MaxLost,
  Fingerprint, MaxRepeats,
  Durable, Silent, MaxValue, MaxWorldChanges, MaxSummaries, MaxEpochRuns,
  Instance, Session, MaxDocuments, MaxMoves, MaxRefreshes, MaxRuns,
  Budget, Trigger, KeepFrames, MinFrames, Inline, MaxHistory, Lengths, SummarySizes, Blocks, MaxRounds,
  Caller, Profile, Legacy, Key, Nothing, MaxRequests, MaxFaults,
  Size, Lowest, LocalWindow, FallbackWindow, FreeReserve, LocalPredict, MaxChanges,
  AbsentValue, Ref, Blank, MaxList,
  Providers, Id, ToolName, Source, InternalTool, MaxPermits, p1, p2,
  Unused

\* What the modules take for granted of their constants.
ASSUME ServicesConstants ==
  /\ {Items, Fuse, MaxOpens, MaxFinds, MaxLost, MaxRepeats, MaxValue, MaxRequests} \subseteq Nat
  /\ {Inline, MaxHistory, KeepFrames, Budget} \cup Lengths \cup SummarySizes \cup Blocks \subseteq Nat
  /\ {Limit, Cached, MinFrames} \subseteq Nat \ {0}
  /\ Named \cup Valued \subseteq 1..Items
  /\ IsFiniteSet(Durable) /\ Silent \subseteq 1..MaxValue
  /\ {"none", "never"} \cap Instance = {}
  /\ Legacy \in Profile /\ Key # {} /\ "deleted" \notin Key
  /\ LET P == {Providers[i] : i \in DOMAIN Providers} IN Providers \in Seq(P) /\ Unused \notin P

VARIABLES
  part,
  x1, x2, x3, x4, x5, x6, x7, x8, x9, x10, x11, x12, x13, x14, x15, x16, x17

all == <<part, x1, x2, x3, x4, x5, x6, x7, x8, x9, x10, x11, x12, x13, x14, x15, x16, x17>>

MCProviders == <<p1, p2>>

\* The model asks for two calls in its first round, for none after its third and
\* for one in the others; no two calls have one id.
CallsIn(n) == IF n = 1 THEN 2 ELSE IF n = 4 THEN 0 ELSE 1
FreshIds(n, c) == {<<n, c>>}

Search == INSTANCE ItemSearch WITH
  object <- x1, content <- x2, opens <- x3, known <- x4, identity <- x5,
  minted <- x6, generation <- x7, cache <- x8, sequence <- x9, sessions <- x10,
  active <- x11, finder <- x12, finds <- x13, seen <- x14, delivered <- x15,
  spoilt <- x16, lostAnswers <- x17

Guard == INSTANCE DoomLoopGuard WITH
  results <- x1, recoveries <- x2, decision <- x3, calls <- x4, asked <- x5,
  observed <- x6

Epochs == INSTANCE ContextEpochs WITH
  Source <- Durable, MaxChanges <- MaxWorldChanges, epochFile <- x1,
  world <- x2, summary <- x3, summaries <- x4, working <- x5, volatile <- x6,
  captured <- x7, epochRun <- x8, changes <- x9, epochRuns <- x10

Documents == INSTANCE DocumentContext WITH
  host <- x1, opened <- x2, moves <- x3, found <- x4, scan <- x5,
  awaiting <- x6, selected <- x7, current <- x8, transitions <- x9,
  lastActive <- x10, lastSeen <- x11, kept <- x12, run <- x13, told <- x14,
  refreshes <- x15, runs <- x16

Requests == INSTANCE ModelRequest WITH
  Keep <- KeepFrames, MaxCalls <- CallsIn, CallIds <- FreshIds, frames <- x1, protectedStart <- x2,
  blocks <- x3, spent <- x4, round <- x5, running <- x6, request <- x7,
  calls <- x8, results <- x9, outputs <- x10, proactiveRefs <- x11, read <- x12,
  toldAll <- x13, last <- x14

Settings == INSTANCE SettingsStore WITH
  file <- x1, request <- x2, at <- x3, ahead <- x4, loaded <- x5, acked <- x6,
  asked <- x7, faults <- x8, misread <- x9, overtaken <- x10, unsealed <- x11

Window == INSTANCE ModelWindow WITH
  None <- Unused, settings <- x1, asks <- x2, answers <- x3, info <- x4, crossed <- x5,
  usage <- x6, run <- x7, changes <- x8

Values == INSTANCE SettingValues WITH
  Absent <- AbsentValue, None <- Unused,
  field <- x1, disk <- x2, held <- x3, shown <- x4, used <- x5, chosen <- x6

Capabilities == INSTANCE CapabilityRuns WITH
  Tool <- ToolName, None <- Unused,
  manifest <- x1, app <- x2, registered <- x3,
  owner <- x4, next <- x5, working <- x6, stuck <- x7, permission <- x8,
  permits <- x9, run <- x10, executed <- x11

\* Windows and limits are numbers; no description of a model is Unused.
ASSUME WindowConstants ==
  /\ Lowest \in Nat \ {0} /\ Size \cup {LocalWindow, FallbackWindow, LocalPredict} \subseteq Nat
  /\ Unused \notin Window!Infos

\* A value that is not there is none of the values, and a blank reference no model.
ASSUME ValueConstants ==
  /\ {Unused, AbsentValue} \cap Values!Numbers = {} /\ Unused \notin Int /\ AbsentValue \notin Int
  /\ Blank \notin Ref

-----------------------------------------------------------------------------

\* The names a part of k variables has no use for, and that they stay so.
NoneAfter16 == x17 = Unused
NoneAfter14 == x15 = Unused /\ x16 = Unused /\ NoneAfter16
NoneAfter11 == x12 = Unused /\ x13 = Unused /\ x14 = Unused /\ NoneAfter14
NoneAfter10 == x11 = Unused /\ NoneAfter11
NoneAfter8 == x9 = Unused /\ x10 = Unused /\ NoneAfter10
NoneAfter6 == x7 = Unused /\ x8 = Unused /\ NoneAfter8
KeepAfter6 == UNCHANGED <<part, x7, x8, x9, x10, x11, x12, x13, x14, x15, x16, x17>>
KeepAfter8 == UNCHANGED <<part, x9, x10, x11, x12, x13, x14, x15, x16, x17>>
KeepAfter10 == UNCHANGED <<part, x11, x12, x13, x14, x15, x16, x17>>
KeepAfter11 == UNCHANGED <<part, x12, x13, x14, x15, x16, x17>>
KeepAfter14 == UNCHANGED <<part, x15, x16, x17>>
KeepAfter16 == UNCHANGED <<part, x17>>

Init ==
  /\ part \in Parts
  /\ \/ part = "search" /\ Search!SearchInit
     \/ part = "guard" /\ Guard!GuardInit /\ NoneAfter6
     \/ part = "epochs" /\ Epochs!EpochInit /\ NoneAfter10
     \/ part = "documents" /\ Documents!DocumentInit /\ NoneAfter16
     \/ part = "request" /\ Requests!RequestInit /\ NoneAfter14
     \/ part = "settings" /\ Settings!SettingsInit /\ NoneAfter11
     \/ part = "window" /\ Window!WindowInit /\ NoneAfter8
     \/ part = "values" /\ Values!ValueInit /\ NoneAfter6
     \/ part = "capabilities" /\ Capabilities!CapabilityInit /\ NoneAfter11

Next ==
  \/ part = "search" /\ Search!SearchNext /\ UNCHANGED part
  \/ part = "guard" /\ Guard!GuardNext /\ KeepAfter6
  \/ part = "epochs" /\ Epochs!EpochNext /\ KeepAfter10
  \/ part = "documents" /\ Documents!DocumentNext /\ KeepAfter16
  \/ part = "request" /\ Requests!RequestNext /\ KeepAfter14
  \/ part = "settings" /\ Settings!SettingsNext /\ KeepAfter11
  \/ part = "window" /\ Window!WindowNext /\ KeepAfter8
  \/ part = "values" /\ Values!ValueNext /\ KeepAfter6
  \/ part = "capabilities" /\ Capabilities!CapabilityNext /\ KeepAfter11

Spec == Init /\ [][Next]_all

\* Which of them is which makes no difference to a search, to the queue of the
\* settings, nor to the registry.
ServiceSymmetry ==
  Permutations(Finder) \cup Permutations(Caller) \cup Permutations(Id)

-----------------------------------------------------------------------------

\* Every match of a search is delivered, once, of the present document and under
\* an identifier of its own (NavisworksToolService, its pages and its cache).
SearchIsExact == part = "search" => Search!SearchIsExact

\* An identity stands for one content (documentInstanceId).
IdentityIsContent == [][part = "search" => Search!IdentityOfContent]_all

\* A call whose first two results are the same is not executed a third time, and
\* the user is asked about it once (DoomLoopGuard).
RepetitionIsNoticed == part = "guard" => Guard!RepetitionIsNoticed

\* What the model was told last is what the next change is compared with, and
\* the last summary is told once (ContextEngine).
ContextIsTold == part = "epochs" => Epochs!ContextIsTold

\* The stored prefix of a generation only grows (ContextEpochStore).
PrefixIsKept == [][part = "epochs" => Epochs!EpochMovesOn]_all

\* Nothing of an earlier document is kept, and no session misses a change of it
\* (ContextState, the preflight of a run, the instances).
DocumentIsCurrent == part = "documents" => Documents!DocumentIsCurrent

\* A request holds the whole turn, in order, and fits (ContextManager).
RequestIsWhole == part = "request" => Requests!RequestIsWhole

\* A paged result is found again under its pointer, and read whole
\* (ToolOutputStore).
ResultsAreReadable == part = "request" => Requests!ResultsAreReadable

\* What a write was answered with is stored, and the active profile exists
\* (PersistenceFacade, JsonSettingsRepository).
SettingsAreKept == part = "settings" => Settings!SettingsAreKept

\* No write switches an API on that it was not asked to switch on.
NothingSwitchedOn == [][part = "settings" => Settings!SwitchedOnByRequest]_all

\* Model, window and settings on the screen are those a run works with, and
\* within their limits (model catalog, App, the three clamps of a setting).
ShownIsWhatRuns ==
  /\ part = "window" => Window!WindowIsShown
  /\ part = "values" => Values!ValuesAgree

\* Every provider gets its own calls and every outcome, and is stopped at the
\* end, whichever of the others fails (CapabilityRegistry, ToolRegistry).
CapabilitiesServe == part = "capabilities" => Capabilities!CapabilitiesServe

\* contextState.ts: what is filed under a document was read from it.
KeptIsOfItsDocument == part = "documents" => Documents!KeptIsOfItsDocument

\* contextManager.ts: since the turn nothing is compacted.
RoundsStayVerbatim == part = "request" => Requests!RoundsStayVerbatim

\* ipc.ts: switched off, the local model serves no chat.
OffMeansOff == part = "window" => Window!OffMeansOff
=============================================================================
