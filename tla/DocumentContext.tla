-------------------------- MODULE DocumentContext --------------------------
(***************************************************************************)
(* Which Navisworks and which of its documents the application works with: *)
(* discovery (navisworks/instanceRegistry.ts), the user's choice           *)
(* (instanceSelection.ts), what a run is bound to (runPreflight.ts,        *)
(* runBinding.ts, capability.ts) and what is remembered of a document      *)
(* (agent/contextState.ts, documentScope.ts, facts.ts, referenceSets.ts).  *)
(*                                                                         *)
(* An instance is one load of the plug-in: its pipe, its endpoint file and *)
(* its bridgeSessionId are made for it, and its instance id is that id.    *)
(* Documents are numbered as they are opened, 0 is none.  ContextState is  *)
(* shared: the poll, the user's choice, every preflight and every status a *)
(* run reads move it.                                                      *)
(***************************************************************************)
EXTENDS Integers, Sequences, FiniteSets

CONSTANTS Instance, Session,
          MaxDocuments, MaxMoves, MaxRefreshes, MaxRuns  \* bounds

VARIABLES
  host,        \* of an instance: Absent, Deaf or its document
  opened,      \* documents opened so far
  moves,       \* what Navisworks did so far
  found,       \* #instances of the registry
  scan,        \* #refreshInFlight: what it has read, or NoScan
  awaiting,    \* who awaits a refresh, and for whom it is done
  selected,    \* #selectedInstanceId
  current,     \* #currentDocument
  transitions, \* #documentTransitions: its length is the revision
  lastActive,  \* #lastActiveDocument
  lastSeen,    \* #lastSeenDocumentRevision, from 0, -1 before
  kept,        \* verified facts and reference sets
  run,         \* the run of a session
  told,        \* auxiliary: the document of its last completed run
  refreshes, runs

hostVars == <<host, opened, moves>>
registryVars == <<found, scan, awaiting, refreshes>>
stateVars == <<current, transitions, lastActive, kept>>
documentVars ==
  <<hostVars, registryVars, selected, stateVars, lastSeen, run, told, runs>>

Nobody == "none"
\* Deaf: the endpoint is there, the status call fails or takes too long.
Absent == -2
Deaf == -1
NoScan == [i \in {} |-> 0]
NoInstance == [is |-> "unknown"]
Known(connected, doc) == [is |-> "known", connected |-> connected, doc |-> doc]

\* CurrentDocumentContext, without the name.
Identity(instance, bridge, doc) == [instance |-> instance, bridge |-> bridge, doc |-> doc]
NoDocument == Identity(Nobody, Nobody, 0)
Unobserved == Identity("never", Nobody, 0)

\* documentScopeKey
Scope(identity) == <<identity.instance, identity.doc>>

NoRun == [phase |-> "idle", target |-> Nobody, document |-> NoDocument, revision |-> 0,
          notice |-> <<>>, result |-> 0]

User == [is |-> "user"]
Poll == [is |-> "poll"]
RunOf(s) == [is |-> "run", of |-> s]

DocumentInit ==
  /\ host \in {h \in [Instance -> {Absent, 0, 1}] : Cardinality({i \in Instance : h[i] = 1}) = 1}
  /\ opened = 1 /\ moves = 0
  /\ found = [i \in Instance |-> NoInstance] /\ scan = NoScan
  /\ awaiting = [before |-> {}, after |-> {}] /\ selected = Nobody
  /\ current = Unobserved /\ transitions = <<>> /\ lastActive = NoDocument
  /\ lastSeen = [s \in Session |-> -1] /\ kept = {}
  /\ run = [s \in Session |-> NoRun] /\ told = [s \in Session |-> Unobserved]
  /\ refreshes = 0 /\ runs = 0

----------------------------------------------------------------------------
(* Navisworks *)

\* A document is opened, switched to or opened again, or the last is closed.
HostChanges(i) ==
  /\ moves < MaxMoves /\ moves' = moves + 1
  /\ \/ host[i] # Absent /\ opened < MaxDocuments /\ opened' = opened + 1
        /\ host' = [host EXCEPT ![i] = opened']
     \/ UNCHANGED opened /\ host[i] # Absent
        /\ \E is \in {Absent, Deaf} \cup (IF host[i] = Deaf THEN {} ELSE {0}) :
             host' = [host EXCEPT ![i] = is]
  /\ UNCHANGED <<registryVars, selected, stateVars, lastSeen, run, told, runs>>

----------------------------------------------------------------------------
(* ContextState.observe *)

HasDocument(d) == d.doc # 0

\* Slip: what was kept goes only when the next document is there.
KeptUntilNext(next) ==
  IF next = current \/ ~HasDocument(next) THEN kept
  ELSE {k \in kept : k.scope # Scope(current)}

\* normalizeObservation, sameDocumentIdentity, DocumentScopeRegistry.observe:
\* what belongs to the identity that goes is dropped with it.
KeptAfter(next) ==
  IF next = current THEN kept ELSE {k \in kept : k.scope # Scope(current)}

Transition(next) ==
  [from |-> IF HasDocument(current) THEN current
            ELSE IF HasDocument(next) THEN lastActive ELSE current,
   to |-> next]

Observe(next) ==
  /\ current' = next
  /\ kept' = KeptAfter(next)
  /\ lastActive' = IF HasDocument(next) THEN next ELSE lastActive
  /\ transitions' = IF current = Unobserved \/ next = current THEN transitions
                    ELSE Append(transitions, Transition(next))

----------------------------------------------------------------------------
(* Discovery and choice *)

\* refresh: whoever comes while one is under way gets that one's answer.
Refresh(who) ==
  /\ awaiting' = [awaiting EXCEPT !.before = @ \cup {who}]
  /\ IF scan # NoScan THEN UNCHANGED <<scan, refreshes>>
     ELSE /\ refreshes < MaxRefreshes /\ refreshes' = refreshes + 1
          /\ scan' = [i \in Instance |-> [is |-> "unread"]]
  /\ UNCHANGED found

\* #inspectEndpoint: an instance that does not answer keeps what was known.
Inspected(i) ==
  CASE host[i] = Absent -> NoInstance
    [] host[i] = Deaf   -> Known(FALSE, IF found[i] = NoInstance THEN 0 ELSE found[i].doc)
    [] OTHER              -> Known(TRUE, host[i])

Inspect(i) ==
  /\ scan # NoScan /\ scan[i] = [is |-> "unread"] /\ scan' = [scan EXCEPT ![i] = Inspected(i)]
  /\ UNCHANGED <<hostVars, found, awaiting, refreshes, selected, stateVars, lastSeen, run, told, runs>>

Refreshed ==
  /\ scan # NoScan /\ \A i \in Instance : scan[i] # [is |-> "unread"]
  /\ found' = scan /\ scan' = NoScan
  /\ awaiting' = [before |-> {}, after |-> awaiting.before \cup awaiting.after]
  /\ UNCHANGED <<hostVars, refreshes, selected, stateVars, lastSeen, run, told, runs>>

Connected(i) == found[i] # NoInstance /\ found[i].connected

\* NavisworksInstanceSelection.observe: a choice is made for the user only
\* when there was none and only one instance answers.
Chosen ==
  IF selected = Nobody /\ \E i \in Instance : {j \in Instance : Connected(j)} = {i}
  THEN CHOOSE i \in Instance : Connected(i) ELSE selected

\* statusForSelectedInstance
StatusOf(i) ==
  IF i = Nobody THEN NoDocument
  ELSE IF Connected(i) THEN Identity(i, i, found[i].doc) ELSE NoDocument

Resumes(who) ==
  /\ who \in awaiting.after /\ awaiting' = [awaiting EXCEPT !.after = @ \ {who}]
  /\ UNCHANGED <<found, scan, refreshes>>

PollStarts ==
  /\ Poll \notin awaiting.before \cup awaiting.after /\ Refresh(Poll)
  /\ UNCHANGED <<hostVars, selected, stateVars, lastSeen, run, told, runs>>

PollResumes ==
  /\ Resumes(Poll) /\ selected' = Chosen /\ Observe(StatusOf(Chosen))
  /\ UNCHANGED <<hostVars, lastSeen, run, told, runs>>

SelectStarts ==
  /\ User \notin awaiting.before \cup awaiting.after /\ Refresh(User)
  /\ UNCHANGED <<hostVars, selected, stateVars, lastSeen, run, told, runs>>

\* navisworks.instance.select, also of an instance that does not answer.
SelectResumes(i) ==
  /\ Resumes(User)
  /\ IF found[i] = NoInstance THEN selected' = Chosen /\ UNCHANGED stateVars
     ELSE selected' = i /\ Observe(StatusOf(i))
  /\ UNCHANGED <<hostVars, lastSeen, run, told, runs>>

----------------------------------------------------------------------------
(* A run *)

RunStarts(s) ==
  /\ run[s] = NoRun /\ runs < MaxRuns /\ runs' = runs + 1 /\ Refresh(RunOf(s))
  /\ run' = [run EXCEPT ![s].phase = "refreshing"]
  /\ UNCHANGED <<hostVars, selected, stateVars, lastSeen, told>>

\* The end of prepare: the document and the revision as they are then.
Prepared(s, target) ==
  run' = [run EXCEPT ![s].phase = "prepared", ![s].target = target,
                     ![s].document = current', ![s].revision = Len(transitions')]

\* No usable target is a state of the run and no error.
PreflightResumes(s) ==
  /\ Resumes(RunOf(s)) /\ selected' = Chosen
  /\ IF Chosen # Nobody /\ Connected(Chosen)
     THEN run' = [run EXCEPT ![s].phase = "binding", ![s].target = Chosen] /\ UNCHANGED stateVars
     ELSE Observe(NoDocument) /\ Prepared(s, Nobody)
  /\ UNCHANGED <<hostVars, lastSeen, told, runs>>

\* createNavisworksRunBinding
Bind(s) ==
  /\ run[s].phase = "binding" /\ host[run[s].target] \in 0..MaxDocuments
  /\ Observe(Identity(run[s].target, run[s].target, host[run[s].target]))
  /\ Prepared(s, run[s].target)
  /\ UNCHANGED <<hostVars, registryVars, selected, lastSeen, told, runs>>

\* The status fails: prepareRuns goes on without a state of this capability.
BindFails(s) ==
  /\ run[s].phase = "binding" /\ host[run[s].target] \in {Absent, Deaf}
  /\ run' = [run EXCEPT ![s].phase = "unprepared", ![s].target = Nobody]
  /\ UNCHANGED <<hostVars, registryVars, selected, stateVars, lastSeen, told, runs>>

\* documentNoticeForSession: the changes since the last completed run in one.
Notice(s) ==
  IF lastSeen[s] = -1 \/ lastSeen[s] >= Len(transitions) THEN <<>>
  ELSE <<[from |-> transitions[lastSeen[s] + 1].from, to |-> transitions[Len(transitions)].to]>>

Contribute(s) ==
  /\ run[s].phase = "prepared"
  /\ run' = [run EXCEPT ![s].phase = "running", ![s].notice = Notice(s)]
  /\ UNCHANGED <<hostVars, registryVars, selected, stateVars, lastSeen, told, runs>>

\* callWithNavisworksRunBinding: the identity is compared, then the call goes out.
Check(s) ==
  /\ run[s].phase = "running" /\ run[s].target # Nobody /\ run[s].document.doc # 0
  /\ host[run[s].target] = run[s].document.doc
  /\ run' = [run EXCEPT ![s].phase = "calling"]
  /\ UNCHANGED <<hostVars, registryVars, selected, stateVars, lastSeen, told, runs>>

Answer(s) ==
  /\ run[s].phase = "calling" /\ host[run[s].target] \in 0..MaxDocuments
  /\ run' = [run EXCEPT ![s].phase = "answered", ![s].result = host[run[s].target]]
  /\ UNCHANGED <<hostVars, registryVars, selected, stateVars, lastSeen, told, runs>>

\* addAll of VerifiedFactStore; the facts of a document are everybody's.
Fact(doc) == [scope |-> Scope(current), of |-> doc, by |-> "facts"]

\* add of ReferenceSetStore: the last relevant set of this conversation.
Reference(s, doc) == [scope |-> Scope(current), of |-> doc, by |-> s]

\* ingestToolResult, after the result was delivered.  It is filed under the
\* current document, whichever document the run is bound to.
Ingest(s) ==
  /\ run[s].phase = "answered" /\ run' = [run EXCEPT ![s].phase = "running"]
  /\ IF ~HasDocument(current) THEN UNCHANGED kept
     ELSE \/ kept' = kept \cup {Fact(run[s].result)}
          \/ kept' = {k \in kept : k.by # s} \cup {Reference(s, run[s].result)}
  /\ UNCHANGED <<hostVars, registryVars, selected, current, transitions, lastActive, lastSeen, told, runs>>

\* The same for a status: the current document becomes the one it names, with
\* the instance only if that is the current one.
IngestStatus(s) ==
  LET bridge == run[s].target
      next == Identity(IF current.bridge = bridge THEN current.instance ELSE Nobody,
                       bridge, run[s].result)
  IN /\ run[s].phase = "answered" /\ run' = [run EXCEPT ![s].phase = "running"]
     /\ Observe(next)
     /\ UNCHANGED <<hostVars, registryVars, selected, lastSeen, told, runs>>

Larger(a, b) == IF a > b THEN a ELSE b

\* finishRun, markDocumentSeen: the revision of the preflight.
Seen(s) == Larger(lastSeen[s], run[s].revision)

Completes(s) ==
  /\ run[s].phase \in {"running", "unprepared"} /\ run' = [run EXCEPT ![s] = NoRun]
  /\ IF run[s].phase = "unprepared" THEN UNCHANGED <<lastSeen, told>>
     ELSE /\ lastSeen' = [lastSeen EXCEPT ![s] = Seen(s)]
          /\ told' = [told EXCEPT ![s] = run[s].document]
  /\ UNCHANGED <<hostVars, registryVars, selected, stateVars, runs>>

\* A failure or an abort leaves the change pending.
RunFails(s) ==
  /\ run[s].phase \in {"running", "calling", "answered", "unprepared"}
  /\ run' = [run EXCEPT ![s] = NoRun]
  /\ UNCHANGED <<hostVars, registryVars, selected, stateVars, lastSeen, told, runs>>

\* forgetSession
Forget(s) ==
  /\ run[s] = NoRun /\ (lastSeen[s] # -1 \/ \E k \in kept : k.by = s)
  /\ lastSeen' = [lastSeen EXCEPT ![s] = -1] /\ told' = [told EXCEPT ![s] = Unobserved]
  /\ kept' = {k \in kept : k.by # s}
  /\ UNCHANGED <<hostVars, registryVars, selected, current, transitions, lastActive, run, runs>>

RunDocumentStep(s) ==
  \/ RunStarts(s) \/ PreflightResumes(s) \/ Bind(s) \/ BindFails(s) \/ Contribute(s)
  \/ Check(s) \/ Answer(s) \/ Ingest(s) \/ IngestStatus(s)
  \/ Completes(s) \/ RunFails(s) \/ Forget(s)

DocumentNext ==
  \/ \E i \in Instance : HostChanges(i) \/ Inspect(i) \/ SelectResumes(i)
  \/ Refreshed \/ PollStarts \/ PollResumes \/ SelectStarts
  \/ \E s \in Session : RunDocumentStep(s)

DocumentSpec == DocumentInit /\ [][DocumentNext]_documentVars

----------------------------------------------------------------------------
(* Properties *)

\* Whatever moves the current document, and through whatever state without a
\* document, nothing filed under an earlier one is still there.
KeptForCurrent == \A k \in kept : k.scope = Scope(current)

\* A session is told of every change: when its run has another document than
\* its last completed run had, it gets a notice, and the notice starts from
\* the document the session knows.
ChangeIsAnnounced ==
  \A s \in Session :
    run[s].phase = "running" /\ told[s] # Unobserved /\ run[s].document # told[s] =>
      /\ run[s].notice # <<>>
      /\ told[s].doc # 0 => run[s].notice[1].from = told[s]

DocumentIsCurrent == KeptForCurrent /\ ChangeIsAnnounced

\* What is filed under a document was read from it.
KeptIsOfItsDocument == \A k \in kept : k.of = k.scope[2]

\* The inductive invariant behind DocumentIsCurrent: a document is known at a
\* revision when it is the current one, or the one the next change was from.
Instances == Instance \cup {Nobody}
DocumentIdentity == [instance : Instances \cup {"never"}, bridge : Instances, doc : Int]
Change == [from : DocumentIdentity, to : DocumentIdentity]
InstanceState == {NoInstance} \cup [is : {"known"}, connected : BOOLEAN, doc : Int]
RunRecord ==
  [phase : {"idle", "refreshing", "binding", "prepared", "unprepared", "running", "calling", "answered"},
   target : Instances, document : DocumentIdentity, revision : Int, notice : Seq(Change), result : Int]

DocumentTypeOK ==
  /\ host \in [Instance -> Int] /\ opened \in Int /\ selected \in Instances
  /\ found \in [Instance -> InstanceState]
  /\ scan = NoScan \/ scan \in [Instance -> InstanceState \cup {[is |-> "unread"]}]
  /\ current \in DocumentIdentity /\ lastActive \in DocumentIdentity
  /\ transitions \in Seq(Change)
  /\ lastSeen \in [Session -> Int] /\ told \in [Session -> DocumentIdentity]
  /\ run \in [Session -> RunRecord]

AtRevision(document, r) ==
  IF r = Len(transitions) THEN document = current
  ELSE document.doc # 0 => transitions[r + 1].from = document

\* What a session has been told, and what its run works with, was the current
\* document at the revision that goes with it.
ToldAtRevision(s) ==
  /\ lastSeen[s] \in -1..Len(transitions)
  /\ told[s] # Unobserved => lastSeen[s] # -1 /\ AtRevision(told[s], lastSeen[s])

RunAtRevision(s) ==
  /\ run[s].phase \in {"prepared", "running", "calling", "answered"} =>
       /\ run[s].document # Unobserved /\ AtRevision(run[s].document, run[s].revision)
       /\ run[s].revision \in 0..Len(transitions) /\ lastSeen[s] <= run[s].revision
  /\ run[s].phase \in {"binding", "calling", "answered"} => run[s].target \in Instance

Announced(s) ==
  run[s].phase \in {"running", "calling", "answered"} /\ told[s] # Unobserved
      /\ run[s].document # told[s] =>
    /\ run[s].notice # <<>>
    /\ told[s].doc # 0 => run[s].notice[1].from = told[s]

DocumentInv ==
  /\ DocumentTypeOK /\ KeptForCurrent
  /\ current = Unobserved => transitions = <<>>
  /\ \A s \in Session : ToldAtRevision(s) /\ RunAtRevision(s) /\ Announced(s)
=============================================================================
