----------------------------- MODULE ModelWindow -----------------------------
(***************************************************************************)
(* Which model serves the next chat and how large its window is: the       *)
(* answer main gives to a run (resolveChatEndpoint, modelResolver,         *)
(* AgentRuntime.run) and the one it gives to the screen (model.info.get,   *)
(* the composer's effort and context ring).  The two are computed apart,   *)
(* from the settings of different moments.                                 *)
(*                                                                         *)
(* A window is one of a few sizes; None is a value that nobody stated.     *)
(***************************************************************************)
EXTENDS Integers, Sequences

CONSTANTS Size,          \* the windows and output limits a user may enter
          Lowest,        \* the smallest window the program works with
          LocalWindow,   \* what Ollama reports of its models
          FallbackWindow,\* the runtime's window when nobody knows a better one
          FreeReserve,   \* the output reserve of an endpoint without a limit
          LocalPredict,  \* the output limit of a local run
          None,
          MaxChanges     \* bound of the model

VARIABLES settings,  \* the stored settings
          asks,      \* how many model.info.get wait to be answered
          answers,   \* the answers on their way to the screen, in order
          info,      \* the model on the screen, or None
          crossed,   \* an older answer overwrote a newer one
          usage,     \* the window, its source and model that the last run reported
          run,       \* the last run: provider, window, source, reserve, effort
          changes

windowVars == <<settings, asks, answers, info, crossed, usage, run, changes>>

Effort == {"low", "high", "max"}
Rank(e) == CASE e = "low" -> 0 [] e = "high" -> 3 [] e = "max" -> 4

Limits == Size \cup {None}

\* What the parts of the settings may be.  A new API profile has neither an
\* address nor the name of a model, and may be stored so.
Profiles == {None} \cup [url : BOOLEAN, model : BOOLEAN, window : Limits, output : Limits,
                         enabled : BOOLEAN, sends : {"auto", "off"}]
Configurations == {None} \cup [context : Limits, output : Limits]

-----------------------------------------------------------------------------
\* Main: where a chat goes, and what is known of its model.

\* resolveChatEndpoint: the active profile, else Ollama.
UsesApi(s) ==
  /\ s.apiOn /\ (s.prefer \/ ~s.ollamaOn)
  /\ s.profile # None /\ s.profile.enabled

\* Else an error, and one for a choice that names no model (resolveActiveModel).
Available(s) ==
  IF UsesApi(s) THEN s.profile.model ELSE s.ollamaOn /\ s.localModel

\* buildOllamaModelInfo: what Ollama says of each of its models.
LocalInfo == [ref |-> "ollama", context |-> LocalWindow, output |-> None,
              modes |-> {"low", "max"}, source |-> "local"]

\* buildApiModelInfo: an endpoint proves nothing; the profile may say more.
ApiInfo(p) == [ref |-> "api", context |-> p.window, output |-> None,
               modes |-> IF p.sends = "off" THEN {} ELSE Effort,
               source |-> IF p.window = None THEN "unknown" ELSE "profile"]

Base(s) == IF UsesApi(s) THEN ApiInfo(s.profile) ELSE LocalInfo

\* applyModelConfiguration: the user's own numbers for this model go first.
Over(stated, base) == IF stated = None THEN base ELSE stated

Info(s) ==
  LET base == Base(s)
      c == s.configured[base.ref]
  IN IF c = None THEN base
     ELSE [base EXCEPT !.context = Over(c.context, @),
                       !.output = Over(c.output, @),
                       !.source = IF c.context = None /\ c.output = None THEN @ ELSE "model"]

\* nearestReasoningEffort: the closest step that the model takes, None for none.
Nearest(e, modes) ==
  IF modes = {} THEN None
  ELSE LET Distance(m) == IF Rank(m) > Rank(e) THEN Rank(m) - Rank(e) ELSE Rank(e) - Rank(m)
       IN CHOOSE m \in modes : \A n \in modes :
            Distance(m) < Distance(n) \/ (Distance(m) = Distance(n) /\ Rank(m) <= Rank(n))

\* AgentRuntime.run: an endpoint without an address is no endpoint.
RunsOnApi(s) == UsesApi(s) /\ s.profile.url /\ s.profile.model

AtLeast(w) == IF w < Lowest THEN Lowest ELSE w

\* resolveApiContextWindow
ApiWindow(p) ==
  IF p.window # None THEN [size |-> AtLeast(p.window), source |-> "profile"]
  ELSE [size |-> FallbackWindow, source |-> "fallback"]

\* Slip: the model is not asked for its window.
WindowOfProvider(s) ==
  IF RunsOnApi(s) THEN ApiWindow(s.profile) ELSE [size |-> LocalWindow, source |-> "local"]

Window(s) ==
  LET i == Info(s) IN
  IF i.source # "unknown" /\ i.context # None
  THEN [size |-> AtLeast(i.context), source |-> i.source]
  ELSE IF RunsOnApi(s) THEN ApiWindow(s.profile)
  ELSE [size |-> FallbackWindow, source |-> "local"]

\* The limit of the answer: the model's, the profile's or the local one.
OutputCap(s) ==
  IF Info(s).output # None THEN Info(s).output
  ELSE IF RunsOnApi(s) THEN s.profile.output ELSE LocalPredict

Reserve(cap, window) ==
  IF cap = None THEN FreeReserve
  ELSE IF cap <= window - Lowest THEN cap
  ELSE IF window - Lowest > 1 THEN window - Lowest ELSE 1

Run(s) ==
  [provider |-> IF RunsOnApi(s) THEN "api" ELSE "ollama", ref |-> Info(s).ref,
   window |-> Window(s).size, source |-> Window(s).source,
   cap |-> OutputCap(s), reserve |-> Reserve(OutputCap(s), Window(s).size),
   effort |-> Nearest(s.effort, Info(s).modes), ollamaOn |-> s.ollamaOn]

-----------------------------------------------------------------------------
\* The screen.

\* resolveContextRingState: the window of the model on the screen; else what
\* the last run of this model reported; else what the settings say.
OfThisModel(u, i) == i = None \/ u.ref = i.ref

Ring ==
  IF info # None /\ info.context # None /\ info.source # "unknown"
  THEN [total |-> info.context, source |-> info.source, of |-> "model"]
  ELSE IF usage # None /\ OfThisModel(usage, info)
  THEN [total |-> usage.window, source |-> usage.source, of |-> "report"]
  ELSE IF info # None /\ info.ref = "api" /\ settings.profile # None
          /\ settings.profile.window # None
  THEN [total |-> settings.profile.window, source |-> "profile", of |-> "settings"]
  ELSE IF info = None \/ info.ref = "api"
  THEN [total |-> None, source |-> None, of |-> "settings"]
  ELSE [total |-> FallbackWindow, source |-> "local", of |-> "settings"]

\* The step the composer shows: None when the model takes none.
ShownEffort == IF info = None THEN settings.effort ELSE Nearest(settings.effort, info.modes)

-----------------------------------------------------------------------------

WindowInit ==
  /\ settings = [prefer |-> FALSE, ollamaOn |-> TRUE, apiOn |-> TRUE, localModel |-> TRUE,
                 effort |-> "high", profile |-> None, configured |-> [p \in {"api", "ollama"} |-> None]]
  /\ asks = 1 /\ answers = << >> /\ info = None /\ crossed = FALSE
  /\ usage = None /\ run = None /\ changes = 0

\* A part of the settings is stored; the screen asks for the model anew.
Changes(s) ==
  /\ changes < MaxChanges
  /\ settings' = s
  /\ asks' = asks + 1 /\ changes' = changes + 1
  /\ UNCHANGED <<answers, info, crossed, usage, run>>

ChangesSwitches == \E p, o, a \in BOOLEAN :
  Changes([settings EXCEPT !.prefer = p, !.ollamaOn = o, !.apiOn = a])
ChangesLocalModel == \E m \in BOOLEAN : Changes([settings EXCEPT !.localModel = m])
ChangesProfile == \E p \in Profiles : Changes([settings EXCEPT !.profile = p])
Configures == \E r \in {"api", "ollama"}, c \in Configurations :
  Changes([settings EXCEPT !.configured[r] = c])
PicksEffort == \E e \in Effort : Changes([settings EXCEPT !.effort = e])

\* model.info.get reads the settings; what it found travels to the screen.
Resolves ==
  /\ asks > 0
  /\ asks' = asks - 1
  /\ answers' = Append(answers, IF Available(settings) THEN Info(settings) ELSE None)
  /\ UNCHANGED <<settings, info, crossed, usage, run, changes>>

\* Two requests read the file at their own speed: the last to finish is shown.
Shows(i) ==
  /\ info' = answers[i]
  /\ answers' = [j \in 1..(Len(answers) - 1) |-> IF j < i THEN answers[j] ELSE answers[j + 1]]
  /\ crossed' = (crossed \/ i # 1)
  /\ UNCHANGED <<settings, asks, usage, run, changes>>

\* A chat is sent, runs and reports what it budgeted against; one that nothing can
\* serve ends before its run (SERVICE_UNAVAILABLE, MODEL_NOT_CONFIGURED).
Chats ==
  /\ Available(settings)
  /\ run' = Run(settings)
  /\ usage' = [ref |-> run'.ref, window |-> run'.window, source |-> run'.source]
  /\ UNCHANGED <<settings, asks, answers, info, crossed, changes>>

WindowNext ==
  \/ ChangesSwitches \/ ChangesLocalModel \/ ChangesProfile \/ Configures \/ PicksEffort
  \/ Resolves \/ Chats
  \/ \E i \in 1..Len(answers) : Shows(i)

WindowSpec == WindowInit /\ [][WindowNext]_windowVars

-----------------------------------------------------------------------------

\* The screen is up to date: every answer has come, and in order.
Current == asks = 0 /\ answers = << >> /\ ~crossed /\ Available(settings)

\* What the ring and the effort slider show of a known model is what the next
\* run works with: the same window, named after the same source, and the same
\* step.  (computed by contextRing and Composer, and by AgentRuntime.run)
ShownIsWhatRuns ==
  Current =>
     /\ Ring.of = "model" => /\ AtLeast(Ring.total) = Window(settings).size
                             /\ Ring.source = Window(settings).source
     /\ ShownEffort = Nearest(settings.effort, Info(settings).modes)

\* The ring never shows the window that a run of another model reported, once
\* the screen knows its model.
NoForeignWindow ==
  info # None /\ Ring.of = "report" => usage.ref = info.ref

\* A limit on the answer leaves room for a question, however large it is set
\* ("a too-large config can't reserve the whole budget").
ReserveLeavesRoom ==
  run # None /\ run.cap # None /\ run.window > Lowest => run.reserve < run.window

WindowIsShown == ShownIsWhatRuns /\ NoForeignWindow /\ ReserveLeavesRoom

\* What main can say of a model, and what the settings may be.
Infos == [ref : {"ollama", "api"}, context : Limits \cup {LocalWindow}, output : Limits,
          modes : {{}, Effort, {"low", "max"}}, source : {"local", "unknown", "profile", "model"}]

StoredSettings ==
  [prefer : BOOLEAN, ollamaOn : BOOLEAN, apiOn : BOOLEAN, localModel : BOOLEAN,
   effort : Effort, profile : Profiles, configured : [{"api", "ollama"} -> Configurations]]

\* The inductive invariant behind WindowIsShown: while no answer has overtaken
\* another, the last one on its way (or the one on the screen) is that of the
\* settings, unless they were changed and the screen has still to be answered.
Latest == IF answers = << >> THEN info ELSE answers[Len(answers)]

WindowInv ==
  /\ settings \in StoredSettings
  /\ asks \in Nat /\ answers \in Seq(Infos \cup {None})
  /\ asks = 0 /\ ~crossed /\ Available(settings) => Latest = Info(settings)
  /\ ReserveLeavesRoom

\* Switched off, the local model serves no chat ("an explicit error instead
\* of a silent fallback").
OffMeansOff == run # None /\ run.provider = "ollama" => run.ollamaOn
=============================================================================
