---------------------------- MODULE CapabilityRuns ----------------------------
(***************************************************************************)
(* The capability registry between the agent and its providers: the        *)
(* composition of the program (every provider registered in turn, started, *)
(* then the one tool registry built), the part each provider has in a run  *)
(* (prepared, called by the name of its tools, told the outcome), and the  *)
(* disposal when the program ends.  A provider may fail at any of these,   *)
(* and no failure of one may take from the others what is theirs.          *)
(***************************************************************************)
EXTENDS Naturals, FiniteSets, SequencesExt

CONSTANTS Providers,   \* the providers, in the order they are registered
          Id, Tool, Source,
          InternalTool,  \* the tools of the core
          MaxPermits,    \* bound on the changes of permissions
          None

Provider == ToSet(Providers)
VARIABLES manifest,    \* [Provider -> [id, tools, sources]]
          app,         \* "composing", "starting", "running", "refused", "quitting", "gone"
          registered,  \* the providers in the registry
          owner,       \* [Tool -> Provider or None]: #toolOwners
          next,        \* how many providers the loop under way is done with
          working,     \* the providers whose background work runs
          stuck,       \* the providers whose disposal failed
          permission,  \* [Tool -> "allow", "deny" or None]: the settings
          permits,
          run,         \* the run, see NoRun
          executed     \* {[tool, by]}: the calls that reached a provider

capabilityVars == <<manifest, app, registered, owner, next, working, stuck, permission,
                    permits, run, executed>>
appVars == <<manifest, app, registered, owner, next, working, stuck>>

NoRun == [stage |-> "none", at |-> 0, prepared |-> {}, offered |-> {}, gate |-> [t \in Tool |-> None],
          aborted |-> FALSE, answered |-> FALSE, outcome |-> None, told |-> [p \in Provider |-> << >>]]

CapabilityInit ==
  /\ manifest \in [Provider -> [id : Id, tools : SUBSET Tool, sources : SUBSET Source]]
  /\ app = "composing" /\ registered = {} /\ next = 0
  /\ owner = [t \in Tool |-> None]
  /\ working = {} /\ stuck = {}
  /\ permission = [t \in Tool |-> None] /\ permits = 0
  /\ run = NoRun /\ executed = {}

-----------------------------------------------------------------------------
\* The composition of the program.

Turn == Providers[next + 1]
All == next = Len(Providers)

\* register: the id, the names of the tools and the keys of the sources are new.
Clash(p) ==
  \/ \E q \in registered : manifest[q].id = manifest[p].id
  \/ \E t \in manifest[p].tools : owner[t] # None
  \/ \E q \in registered : manifest[q].sources \cap manifest[p].sources # {}

Register ==
  /\ app = "composing" /\ ~All
  /\ IF Clash(Turn)
     THEN app' = "refused" /\ UNCHANGED <<registered, owner, next>>
     ELSE /\ registered' = registered \cup {Turn}
          /\ owner' = [t \in Tool |-> IF t \in manifest[Turn].tools THEN Turn ELSE owner[t]]
          /\ next' = next + 1
          /\ UNCHANGED app
  /\ UNCHANGED <<manifest, working, stuck, permission, permits, run, executed>>

Composed ==
  /\ app = "composing" /\ All
  /\ app' = "starting" /\ next' = 0
  /\ UNCHANGED <<manifest, registered, owner, working, stuck, permission, permits, run, executed>>

\* startAll: a start that fails is logged.
Start ==
  /\ app = "starting" /\ ~All
  /\ \E fails \in BOOLEAN : working' = IF fails THEN working ELSE working \cup {Turn}
  /\ next' = next + 1
  /\ UNCHANGED <<manifest, app, registered, owner, stuck, permission, permits, run, executed>>

\* ToolRegistry.compose: no tool of a capability has the name of an internal one.
Compose ==
  /\ app = "starting" /\ All
  /\ app' = IF \E t \in InternalTool : owner[t] # None THEN "refused" ELSE "running"
  /\ UNCHANGED <<manifest, registered, owner, next, working, stuck, permission, permits, run, executed>>

\* The program ends: the runs are aborted, then every provider is disposed of.
Quit ==
  /\ app = "running"
  /\ app' = "quitting" /\ next' = 0
  /\ run' = [run EXCEPT !.aborted = @ \/ run.stage # "none"]
  /\ UNCHANGED <<manifest, registered, owner, working, stuck, permission, permits, executed>>

\* disposeAll goes on after a failure.
Dispose ==
  /\ app = "quitting" /\ ~All
  /\ \E fails \in BOOLEAN :
       /\ working' = IF fails THEN working ELSE working \ {Turn}
       /\ stuck' = IF fails THEN stuck \cup {Turn} ELSE stuck
       /\ next' = next + 1
  /\ UNCHANGED <<manifest, app, registered, owner, permission, permits, run, executed>>

Gone ==
  /\ app = "quitting" /\ All
  /\ app' = "gone"
  /\ UNCHANGED <<manifest, registered, owner, next, working, stuck, permission, permits, run, executed>>

-----------------------------------------------------------------------------
\* Permissions.

Known(t) == t \in InternalTool \/ owner[t] # None

\* resolvePermission: what the user set, else the tool's own ("ask" runs
\* through an approval, here the same as "allow"); an unknown tool is denied.
Resolved(permissions, t) ==
  IF permissions[t] # None THEN permissions[t] ELSE IF Known(t) THEN "allow" ELSE "deny"

\* materialize: the tools the model is told of.
Offered(permissions) == {t \in Tool : Known(t) /\ Resolved(permissions, t) # "deny"}

Permit ==
  /\ app = "running" /\ permits < MaxPermits
  /\ \E t \in Tool, v \in {"allow", "deny"} : permission' = [permission EXCEPT ![t] = v]
  /\ permits' = permits + 1
  /\ UNCHANGED <<appVars, run, executed>>

-----------------------------------------------------------------------------
\* A run.

Alive == app \in {"running", "quitting"}
RunStep(stage) == Alive /\ run.stage = stage
Unmoved == UNCHANGED <<appVars, permission, permits>>

RunStarts ==
  /\ app = "running" /\ run.stage = "none"
  /\ run' = [run EXCEPT !.stage = "preparing", !.offered = Offered(permission), !.gate = permission]
  /\ Unmoved /\ UNCHANGED executed

\* prepareRuns: a provider that fails, or answers for another, has no state.
Prepares ==
  /\ RunStep("preparing")
  /\ IF run.at = Len(Providers)
     THEN run' = [run EXCEPT !.stage = "running", !.at = 0]
     ELSE \E fails \in BOOLEAN :
            run' = [run EXCEPT !.at = @ + 1,
                               !.prepared = IF fails THEN @ ELSE @ \cup {Providers[run.at + 1]}]
  /\ Unmoved /\ UNCHANGED executed

\* Slip: the settings are asked again at every call.
GateNow(t) == Resolved(permission, t)

\* The permission at a call is that of the settings the run started with.
Gate(t) == Resolved(run.gate, t)

\* The model may name any tool; only an owned one that is not denied reaches
\* its provider, which normalises the arguments and executes the call.
Calls(t) ==
  /\ RunStep("running") /\ ~run.answered
  /\ Known(t) /\ Gate(t) # "deny" /\ t \notin InternalTool
  /\ executed' = executed \cup {[tool |-> t, by |-> owner[t]]}
  /\ \/ UNCHANGED run                                       \* a result, or an error of the call
     \/ run' = [run EXCEPT !.stage = "ending"]              \* the provider ends the run
  /\ Unmoved

\* A success return, unless the run had been aborted before.
AnswersRun ==
  /\ RunStep("running") /\ ~run.aborted /\ ~run.answered
  /\ run' = [run EXCEPT !.answered = TRUE]
  /\ Unmoved /\ UNCHANGED executed

\* Back from the answer, an error of the model, or the abort noticed.
Unwinds ==
  /\ RunStep("running")
  /\ run' = [run EXCEPT !.stage = "ending"]
  /\ Unmoved /\ UNCHANGED executed

Aborts ==
  /\ Alive /\ run.stage \in {"preparing", "running", "ending", "finishing"} /\ ~run.aborted
  /\ run' = [run EXCEPT !.aborted = TRUE]
  /\ Unmoved /\ UNCHANGED executed

OutcomeOf(r) == IF r.aborted THEN "aborted" ELSE IF r.answered THEN "completed" ELSE "failed"

\* finishCapabilityRun: the outcome is settled once, before the first provider.
Finishing ==
  /\ RunStep("ending")
  /\ run' = [run EXCEPT !.stage = "finishing", !.at = 0, !.outcome = OutcomeOf(run)]
  /\ Unmoved /\ UNCHANGED executed

\* finishRuns: whether a provider's finish failed makes no difference.
Finishes ==
  /\ RunStep("finishing")
  /\ IF run.at >= Len(Providers)
     THEN run' = [run EXCEPT !.stage = "ended"]
     ELSE LET p == Providers[run.at + 1]
          IN \E fails \in BOOLEAN :
               run' = [run EXCEPT !.at = @ + 1,
                                  !.told[p] = IF p \in run.prepared THEN Append(@, run.outcome) ELSE @]
  /\ Unmoved /\ UNCHANGED executed

CapabilityNext ==
  \/ Register \/ Composed \/ Start \/ Compose \/ Quit \/ Dispose \/ Gone
  \/ Permit \/ RunStarts \/ Prepares \/ (\E t \in Tool : Calls(t))
  \/ AnswersRun \/ Unwinds \/ Aborts \/ Finishing \/ Finishes

CapabilitySpec == CapabilityInit /\ [][CapabilityNext]_capabilityVars

-----------------------------------------------------------------------------

\* A call is executed by the one provider that defines its tool: were a name
\* defined twice, the program had refused to start.
ExecutedByItsOwner ==
  \A e \in executed : {p \in Provider : e.tool \in manifest[p].tools} = {e.by}

\* What runs was offered: a permission changed during the run neither opens a
\* tool the model was not told of nor splits the offer from the gate.
OnlyOfferedRuns == \A e \in executed : e.tool \in run.offered

\* When a run has ended every provider that prepared it was told once, and all
\* were told the same, whatever failed or was aborted between two of them.
ToldOnceTheSame ==
  run.stage = "ended" =>
    \A p \in Provider : run.told[p] = IF p \in run.prepared THEN <<run.outcome>> ELSE << >>

\* At the end no background work is left but that of a provider that failed to
\* stop its own.
WorkStops == app = "gone" => working \subseteq stuck

CapabilitiesServe == ExecutedByItsOwner /\ OnlyOfferedRuns /\ ToldOnceTheSame /\ WorkStops

\* The inductive invariant behind it: a tool has the owner that defines it and
\* no other, what was offered is what the gate lets through, and a loop over
\* the providers has done with those before its place what it does with all.
Through(n) == {Providers[i] : i \in 1..n}

CapabilityTypeOK ==
  /\ manifest \in [Provider -> [id : Id, tools : SUBSET Tool, sources : SUBSET Source]]
  /\ app \in {"composing", "starting", "running", "refused", "quitting", "gone"}
  /\ next \in 0..Len(Providers) /\ registered \subseteq Provider /\ working \subseteq Provider
  /\ DOMAIN owner = Tool /\ permission \in [Tool -> {None, "allow", "deny"}]
  /\ run \in [stage : {"none", "preparing", "running", "ending", "finishing", "ended"},
              at : 0..Len(Providers), prepared : SUBSET Provider, offered : SUBSET Tool,
              gate : [Tool -> {None, "allow", "deny"}], aborted : BOOLEAN, answered : BOOLEAN,
              outcome : {None, "aborted", "completed", "failed"},
              told : [Provider -> Seq({"aborted", "completed", "failed"})]]

RegistryInv ==
  /\ \A t \in Tool : owner[t] # None => owner[t] \in registered /\ t \in manifest[owner[t]].tools
  /\ \A p \in registered : \A t \in manifest[p].tools : owner[t] = p
  /\ IF app = "composing"
     THEN /\ registered = Through(next)
          /\ \A i, j \in 1..next : Providers[i] = Providers[j] => i = j
     ELSE app # "refused" =>
          /\ registered = Provider
          /\ \A i, j \in 1..Len(Providers) : Providers[i] = Providers[j] => i = j
  /\ app \in {"quitting", "gone"} => (working \ stuck) \cap Through(next) = {}
  /\ app = "gone" => All

RunInv ==
  /\ app \in {"composing", "starting", "refused"} => run.stage = "none"
  /\ run.stage = "none" => executed = {}
  /\ run.stage # "none" => run.offered = Offered(run.gate)
  /\ \A e \in executed : /\ e.tool \in run.offered /\ e.by = owner[e.tool] /\ e.by # None
  /\ \A p \in Provider :
       run.told[p] = IF /\ run.stage \in {"finishing", "ended"}
                        /\ p \in run.prepared /\ p \in Through(run.at)
                     THEN <<run.outcome>> ELSE <<>>
  /\ run.stage = "ended" => run.at = Len(Providers)
  /\ run.stage \in {"finishing", "ended"} => run.outcome \in {"aborted", "completed", "failed"}

CapabilityInv == CapabilityTypeOK /\ RegistryInv /\ RunInv
=============================================================================
