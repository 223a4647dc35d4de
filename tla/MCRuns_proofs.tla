--------------------------- MODULE MCRuns_proofs ---------------------------
(***************************************************************************)
(* What runs and calls promise, proved for every value of their constants. *)
(* Each section is about one part: its lemmas speak of the definitions of  *)
(* the part's module under the name MCRuns gives its instance, with x1,    *)
(* x2, ... for its variables; the last theorems say it of Spec, whose      *)
(* behaviours are those of the parts.                                      *)
(***************************************************************************)
EXTENDS MCRuns, SequenceTheorems, FiniteSetTheorems, WellFoundedInduction, TLAPS

\* A behaviour is one of one part.
LEMMA PartStays == [Next]_all => UNCHANGED part
BY DEF Next, all, KeepAfter8, KeepAfter17

-----------------------------------------------------------------------------
(* The bridge: x1 client, x2 conn, x3 reply, x4 acceptor, x5 server,        *)
(* x6 posted, x7 ran, x8 endpoint.                                          *)

LinkTypeOK == DOMAIN x1 = BridgeCall /\ DOMAIN x2 = BridgeCall /\ x6 \in Seq(BridgeCall)

LEMMA LinkInitially == Bridge!LinkInit => Bridge!LinkInv
<1> SUFFICES ASSUME Bridge!LinkInit PROVE Bridge!LinkInv
  OBVIOUS
<1>1. x6 \in Seq(BridgeCall) /\ Len(x6) = 0
  BY DEF Bridge!LinkInit
<1> QED BY <1>1 DEF Bridge!LinkInit, Bridge!LinkInv, Bridge!Quiet, Bridge!Untouched

\* A step of a client that leaves the server alone, and falls silent only from
\* silence.
LEMMA ClientStep ==
  ASSUME Bridge!LinkInv, NEW c \in BridgeCall, NEW state, Bridge!ClientIs(c, state),
         UNCHANGED <<x2, x6, x7>>,
         state \in {"idle", "connecting", "unsent"} => Bridge!Quiet(c)
  PROVE  Bridge!LinkInv'
<1>1. LinkTypeOK'
  BY DEF Bridge!LinkInv, LinkTypeOK, Bridge!ClientIs
<1>2. ASSUME NEW d \in BridgeCall, Bridge!Quiet(d)' PROVE Bridge!Quiet(d)
  BY <1>2 DEF Bridge!LinkInv, LinkTypeOK, Bridge!ClientIs, Bridge!Quiet
<1> QED BY <1>1, <1>2 DEF Bridge!LinkInv, LinkTypeOK, Bridge!Untouched

\* A step that touches no worker's request, no queue and no client.
LEMMA IdleStep ==
  ASSUME Bridge!LinkInv, UNCHANGED <<x1, x6, x7>>, DOMAIN x2' = BridgeCall,
         \A d \in BridgeCall : x2'[d] = x2[d] \/ x2'[d] \in {"none", "open", "closed"}
                         \/ ~Bridge!Quiet(d)
  PROVE  Bridge!LinkInv'
BY DEF Bridge!LinkInv, LinkTypeOK, Bridge!Quiet, Bridge!Untouched

LEMMA ClientSteps ==
  ASSUME Bridge!LinkInv, NEW c \in BridgeCall, Bridge!CallStarts(c) \/ Bridge!AbortCall(c) \/ Bridge!CallStep(c)
  PROVE  Bridge!LinkInv'
<1>1. CASE Bridge!CallStarts(c)
  BY <1>1, ClientStep DEF Bridge!CallStarts, Bridge!Quiet
<1>2. CASE Bridge!AbortCall(c)
  BY <1>2, ClientStep DEF Bridge!AbortCall
<1>3. CASE Bridge!Connected(c)
  BY <1>3, ClientStep DEF Bridge!Connected
<1>4. CASE Bridge!Flushed(c)
  BY <1>4, ClientStep DEF Bridge!Flushed
<1>5. CASE Bridge!Gives(c)
  <2>1. Bridge!Doubt(c) \/ Bridge!Quiet(c)
    BY <1>5 DEF Bridge!Gives, Bridge!Doubt, Bridge!Quiet
  <2>2. CASE Bridge!Doubt(c)
    <3>1. Bridge!ClientIs(c, "unsure") /\ UNCHANGED <<x2, x6, x7>>
      BY <1>5, <2>2 DEF Bridge!Gives
    <3> QED BY <3>1, ClientStep
  <2>3. CASE ~Bridge!Doubt(c)
    <3>1. Bridge!ClientIs(c, "unsent") /\ UNCHANGED <<x2, x6, x7>>
      BY <1>5, <2>3 DEF Bridge!Gives
    <3> QED BY <3>1, <2>1, <2>3, ClientStep
  <2> QED BY <2>2, <2>3
<1> QED BY <1>1, <1>2, <1>3, <1>4, <1>5 DEF Bridge!CallStep

LEMMA ReadStep ==
  ASSUME Bridge!LinkInv, NEW c \in BridgeCall, Bridge!Read(c)
  PROVE  Bridge!LinkInv'
<1>1. ~Bridge!Quiet(c) /\ x2' = [x2 EXCEPT ![c] = "posted"] /\ x6' = Append(x6, c)
  BY DEF Bridge!Read, Bridge!Quiet
<1>2. LinkTypeOK'
  BY <1>1 DEF Bridge!LinkInv, LinkTypeOK, Bridge!Read
<1>3. ASSUME NEW d \in BridgeCall, Bridge!Quiet(d)' PROVE Bridge!Untouched(d)'
  <2>1. Bridge!Quiet(d) /\ d # c
    BY <1>1, <1>3 DEF Bridge!Read, Bridge!Quiet
  <2>2. x2'[d] = x2[d] /\ x7' = x7
    BY <1>1, <2>1 DEF Bridge!LinkInv, LinkTypeOK, Bridge!Read
  <2>3. \A i \in 1 .. Len(x6') : x6'[i] # d
    <3>1. /\ Len(x6') = Len(x6) + 1 /\ Len(x6) \in Nat
          /\ x6'[Len(x6) + 1] = c
          /\ \A i \in 1 .. Len(x6) : x6'[i] = x6[i]
      BY <1>1, AppendProperties DEF Bridge!LinkInv, LinkTypeOK
    <3> QED BY <3>1, <2>1 DEF Bridge!LinkInv, LinkTypeOK, Bridge!Untouched
  <2> QED BY <2>1, <2>2, <2>3 DEF Bridge!LinkInv, LinkTypeOK, Bridge!Untouched
<1> QED BY <1>2, <1>3 DEF Bridge!LinkInv, LinkTypeOK

LEMMA RefusesStep ==
  ASSUME Bridge!LinkInv, NEW c \in BridgeCall, Bridge!Refuses(c)
  PROVE  Bridge!LinkInv'
<1>1. /\ ~Bridge!Quiet(c) /\ x2' = [x2 EXCEPT ![c] = "answering"]
      /\ UNCHANGED <<x1, x6, x7>>
  BY DEF Bridge!Refuses, Bridge!Quiet
<1>2. DOMAIN x2' = BridgeCall /\ \A d \in BridgeCall : x2'[d] = x2[d] \/ ~Bridge!Quiet(d)
  BY <1>1 DEF Bridge!LinkInv, LinkTypeOK
<1> QED BY <1>1, <1>2, IdleStep

LEMMA HangupStep ==
  ASSUME Bridge!LinkInv, NEW c \in BridgeCall, Bridge!Hangup(c)
  PROVE  Bridge!LinkInv'
<1>1. x2' = [x2 EXCEPT ![c] = "closed"] /\ UNCHANGED <<x1, x6, x7>>
  BY DEF Bridge!Hangup, Bridge!WorkerGone
<1>2. DOMAIN x2' = BridgeCall /\ \A d \in BridgeCall : x2'[d] = x2[d] \/ x2'[d] = "closed"
  BY <1>1 DEF Bridge!LinkInv, LinkTypeOK
<1> QED BY <1>1, <1>2, IdleStep

LEMMA AcceptStep ==
  ASSUME Bridge!LinkInv, NEW c \in BridgeCall, Bridge!Accept(c)
  PROVE  Bridge!LinkInv'
<1>1. x2' = [x2 EXCEPT ![c] = "open"] /\ UNCHANGED <<x1, x6, x7>>
  BY DEF Bridge!Accept
<1>2. DOMAIN x2' = BridgeCall /\ \A d \in BridgeCall : x2'[d] = x2[d] \/ x2'[d] = "open"
  BY <1>1 DEF Bridge!LinkInv, LinkTypeOK
<1> QED BY <1>1, <1>2, IdleStep

LEMMA WriteStep ==
  ASSUME Bridge!LinkInv, NEW c \in BridgeCall, Bridge!Write(c)
  PROVE  Bridge!LinkInv'
<1>1. UNCHANGED <<x6, x7>>
  BY DEF Bridge!Write
<1>2. CASE x1[c] \in {"writing", "waiting"} /\ ~Bridge!Cancelled
  <2>1. PICK answer \in {"answered", "refused"} : Bridge!ClientIs(c, answer)
    BY <1>2 DEF Bridge!Write, Bridge!Frame
  <2>2. x2' = [x2 EXCEPT ![c] = "open"]
    BY <1>2 DEF Bridge!Write
  <2>3. LinkTypeOK'
    BY <1>1, <2>1, <2>2 DEF Bridge!LinkInv, LinkTypeOK, Bridge!ClientIs
  <2>4. ASSUME NEW d \in BridgeCall, Bridge!Quiet(d)' PROVE Bridge!Quiet(d) /\ x2'[d] = x2[d]
    BY <2>1, <2>2, <2>4 DEF Bridge!LinkInv, LinkTypeOK, Bridge!ClientIs, Bridge!Quiet
  <2> QED BY <1>1, <2>3, <2>4 DEF Bridge!LinkInv, LinkTypeOK, Bridge!Untouched
<1>3. CASE ~(x1[c] \in {"writing", "waiting"} /\ ~Bridge!Cancelled)
  <2>1. x2' = [x2 EXCEPT ![c] = "closed"] /\ UNCHANGED <<x1, x6, x7>>
    BY <1>1, <1>3 DEF Bridge!Write, Bridge!WorkerGone
  <2>2. DOMAIN x2' = BridgeCall /\ \A d \in BridgeCall : x2'[d] = x2[d] \/ x2'[d] = "closed"
    BY <2>1 DEF Bridge!LinkInv, LinkTypeOK
  <2> QED BY <2>1, <2>2, IdleStep
<1> QED BY <1>2, <1>3

\* What runs was posted, so its client had written it.
LEMMA RunsStep ==
  ASSUME Bridge!LinkInv, NEW what, Bridge!Runs(what)
  PROVE  Bridge!LinkInv'
<1> DEFINE h == Head(x6)
<1>1. /\ x6 # <<>> /\ x6' = Tail(x6) /\ x7' = x7 \cup {h}
      /\ x2' = [x2 EXCEPT ![h] = "answering"] /\ x1' = x1
  BY DEF Bridge!Runs
<1>2. /\ h = x6[1] /\ h \in BridgeCall /\ Len(x6) \in Nat \ {0}
      /\ Tail(x6) \in Seq(BridgeCall) /\ Len(Tail(x6)) = Len(x6) - 1
      /\ \A i \in 1 .. Len(Tail(x6)) : Tail(x6)[i] = x6[i + 1]
  BY <1>1, HeadTailProperties, EmptySeq DEF Bridge!LinkInv, LinkTypeOK
<1>3. LinkTypeOK'
  BY <1>1, <1>2 DEF Bridge!LinkInv, LinkTypeOK
<1>4. ASSUME NEW d \in BridgeCall, Bridge!Quiet(d)' PROVE Bridge!Untouched(d)'
  <2>1. Bridge!Untouched(d)
    BY <1>1, <1>4 DEF Bridge!LinkInv, LinkTypeOK, Bridge!Quiet
  <2>2. d # h
    BY <1>2, <2>1 DEF Bridge!Untouched
  <2>3. x2'[d] = x2[d] /\ d \notin x7'
    BY <1>1, <2>1, <2>2 DEF Bridge!LinkInv, LinkTypeOK, Bridge!Untouched
  <2>4. \A i \in 1 .. Len(x6') : x6'[i] # d
    BY <1>1, <1>2, <2>1 DEF Bridge!Untouched
  <2> QED BY <2>1, <2>3, <2>4 DEF Bridge!Untouched
<1> QED BY <1>3, <1>4 DEF Bridge!LinkInv, LinkTypeOK

LEMMA LinkStep == Bridge!LinkInv /\ [Bridge!LinkNext]_(Bridge!linkVars) => Bridge!LinkInv'
<1> SUFFICES ASSUME Bridge!LinkInv, [Bridge!LinkNext]_(Bridge!linkVars) PROVE Bridge!LinkInv'
  OBVIOUS
<1>1. ASSUME NEW c \in BridgeCall, Bridge!CallStarts(c) \/ Bridge!AbortCall(c) \/ Bridge!CallStep(c) PROVE Bridge!LinkInv'
  BY <1>1, ClientSteps
<1>2. ASSUME NEW c \in BridgeCall, Bridge!WorkerStep(c) PROVE Bridge!LinkInv'
  BY <1>2, ReadStep, RefusesStep, HangupStep, WriteStep DEF Bridge!WorkerStep
<1>3. CASE UNCHANGED <<x1, x2, x6, x7>>
  BY <1>3 DEF Bridge!LinkInv, LinkTypeOK, Bridge!Quiet, Bridge!Untouched
<1>4. CASE Bridge!AcceptorStep
  BY <1>3, <1>4, AcceptStep DEF Bridge!AcceptorStep, Bridge!CreatePipe, Bridge!Delayed, Bridge!AcceptCancelled, Bridge!Started
<1>5. CASE Bridge!ThreadStep
  BY <1>5, RunsStep DEF Bridge!ThreadStep
<1>6. CASE Bridge!Dispose \/ Bridge!Disposed \/ UNCHANGED Bridge!linkVars
  BY <1>3, <1>6 DEF Bridge!Dispose, Bridge!Disposed, Bridge!linkVars
<1> QED BY <1>1, <1>2, <1>4, <1>5, <1>6 DEF Bridge!LinkNext

\* What OnceInv says of one call.
RunsAsTold(c) ==
  /\ x2[c] = "posted" => x3[c] = "none"
  /\ x2[c] = "answering" => x3[c] # "none"
  /\ c \in x7 => x3[c] # "none"
  /\ x3[c] \in {"result", "too large"} => c \in x7
  /\ x1[c] = "answered" => c \in x7 /\ x3[c] = "result"
  /\ x1[c] = "refused" => x3[c] \in {"failure", "too large"}

QueuedOnce ==
  /\ \A i \in 1 .. Len(x6) : x2[x6[i]] = "posted"
  /\ \A i, j \in 1 .. Len(x6) : x6[i] = x6[j] => i = j

ReplyOK == x3 \in [BridgeCall -> {"none", "result", "failure", "too large"}]

LEMMA OnceParts == Bridge!OnceInv <=> ReplyOK /\ QueuedOnce /\ \A c \in BridgeCall : RunsAsTold(c)
BY DEF Bridge!OnceInv, Bridge!AnswersAreTrue, RunsAsTold, QueuedOnce, ReplyOK

LEMMA OncePartsNext == ReplyOK' /\ QueuedOnce' /\ (\A c \in BridgeCall : RunsAsTold(c)') => Bridge!OnceInv'
BY DEF Bridge!OnceInv, Bridge!AnswersAreTrue, RunsAsTold, QueuedOnce, ReplyOK

\* A step of one call that leaves the queue alone, and what had run.
LEMMA OneCallStep ==
  ASSUME Bridge!LinkInv, Bridge!OnceInv, NEW c \in BridgeCall, UNCHANGED <<x6, x7>>, ReplyOK',
         \A d \in BridgeCall \ {c} : x1'[d] = x1[d] /\ x2'[d] = x2[d] /\ x3'[d] = x3[d],
         x2[c] = "posted" => x2'[c] = "posted",
         RunsAsTold(c)'
  PROVE  Bridge!OnceInv'
<1>1. ReplyOK /\ QueuedOnce /\ \A d \in BridgeCall : RunsAsTold(d)
  BY OnceParts
<1>2. ASSUME NEW d \in BridgeCall PROVE RunsAsTold(d)'
  <2>1. CASE d = c
    BY <2>1
  <2>2. CASE d # c
    <3>1. RunsAsTold(d) /\ x1'[d] = x1[d] /\ x2'[d] = x2[d] /\ x3'[d] = x3[d]
      BY <1>1, <2>2
    <3> QED BY <3>1 DEF RunsAsTold
  <2> QED BY <2>1, <2>2
<1>3. QueuedOnce'
  <2>1. ASSUME NEW i \in 1 .. Len(x6) PROVE x2'[x6[i]] = "posted"
    <3>1. x6[i] \in BridgeCall /\ x2[x6[i]] = "posted"
      BY <1>1, <2>1 DEF QueuedOnce, Bridge!LinkInv
    <3> QED BY <3>1
  <2> QED BY <1>1, <2>1 DEF QueuedOnce
<1> QED BY <1>2, <1>3, OncePartsNext

\* A client that moves on without an answer.
LEMMA ClientOnceStep ==
  ASSUME Bridge!LinkInv, Bridge!OnceInv, NEW c \in BridgeCall, NEW state, Bridge!ClientIs(c, state),
         state \notin {"answered", "refused"}, UNCHANGED <<x2, x3, x6, x7>>
  PROVE  Bridge!OnceInv'
<1>1. x1' = [x1 EXCEPT ![c] = state] /\ DOMAIN x1 = BridgeCall
  BY DEF Bridge!ClientIs, Bridge!LinkInv
<1>2. ReplyOK /\ RunsAsTold(c)
  BY OnceParts
<1>3. RunsAsTold(c)'
  BY <1>1, <1>2 DEF RunsAsTold
<1>4. ReplyOK'
  BY <1>2 DEF ReplyOK
<1> QED BY <1>1, <1>3, <1>4, OneCallStep

LEMMA ClientsOnce ==
  ASSUME Bridge!LinkInv, Bridge!OnceInv, NEW c \in BridgeCall, Bridge!CallStarts(c) \/ Bridge!AbortCall(c) \/ Bridge!CallStep(c)
  PROVE  Bridge!OnceInv'
<1>1. CASE Bridge!CallStarts(c)
  BY <1>1, ClientOnceStep DEF Bridge!CallStarts
<1>2. CASE Bridge!AbortCall(c)
  BY <1>2, ClientOnceStep DEF Bridge!AbortCall
<1>3. CASE Bridge!Connected(c)
  BY <1>3, ClientOnceStep DEF Bridge!Connected
<1>4. CASE Bridge!Flushed(c)
  BY <1>4, ClientOnceStep DEF Bridge!Flushed
<1>5. CASE Bridge!Gives(c)
  <2>1. PICK state \in {"unsure", "unsent"} : Bridge!ClientIs(c, state)
    BY <1>5 DEF Bridge!Gives, Bridge!Doubt
  <2> QED BY <1>5, <2>1, ClientOnceStep DEF Bridge!Gives
<1> QED BY <1>1, <1>2, <1>3, <1>4, <1>5 DEF Bridge!CallStep

\* A worker that changes its own state only.
LEMMA WorkerOnceStep ==
  ASSUME Bridge!LinkInv, Bridge!OnceInv, NEW c \in BridgeCall, UNCHANGED <<x1, x6, x7, x3>>,
         NEW state \in {"open", "closed"}, x2' = [x2 EXCEPT ![c] = state],
         x2[c] # "posted"
  PROVE  Bridge!OnceInv'
<1>1. DOMAIN x2 = BridgeCall
  BY DEF Bridge!LinkInv
<1>2. ReplyOK /\ RunsAsTold(c)
  BY OnceParts
<1>3. RunsAsTold(c)'
  BY <1>1, <1>2 DEF RunsAsTold
<1>4. ReplyOK'
  BY <1>2 DEF ReplyOK
<1> QED BY <1>1, <1>3, <1>4, OneCallStep

LEMMA RefusesOnce ==
  ASSUME Bridge!LinkInv, Bridge!OnceInv, NEW c \in BridgeCall, Bridge!Refuses(c)
  PROVE  Bridge!OnceInv'
<1>1. /\ x2' = [x2 EXCEPT ![c] = "answering"] /\ x3' = [x3 EXCEPT ![c] = "failure"]
      /\ x2[c] = "open" /\ x3[c] = "none" /\ UNCHANGED <<x1, x6, x7>>
      /\ x1[c] \in {"writing", "waiting"}
  BY DEF Bridge!Refuses
<1>2. ReplyOK /\ RunsAsTold(c) /\ DOMAIN x2 = BridgeCall
  BY OnceParts DEF Bridge!LinkInv
<1>3. ReplyOK'
  BY <1>1, <1>2 DEF ReplyOK
<1>4. RunsAsTold(c)'
  BY <1>1, <1>2 DEF RunsAsTold, ReplyOK
<1>5. \A d \in BridgeCall \ {c} : x2'[d] = x2[d] /\ x3'[d] = x3[d]
  BY <1>1, <1>2 DEF ReplyOK
<1> QED BY <1>1, <1>3, <1>4, <1>5, OneCallStep

LEMMA WriteOnce ==
  ASSUME Bridge!LinkInv, Bridge!OnceInv, NEW c \in BridgeCall, Bridge!Write(c)
  PROVE  Bridge!OnceInv'
<1>1. x2[c] = "answering" /\ UNCHANGED <<x3, x6, x7>>
  BY DEF Bridge!Write
<1>2. ReplyOK /\ RunsAsTold(c) /\ DOMAIN x2 = BridgeCall /\ DOMAIN x1 = BridgeCall
  BY OnceParts DEF Bridge!LinkInv
<1>3. CASE x1[c] \in {"writing", "waiting"} /\ ~Bridge!Cancelled
  <2>1. x1' = [x1 EXCEPT ![c] = Bridge!Frame(c)] /\ x2' = [x2 EXCEPT ![c] = "open"]
    BY <1>3 DEF Bridge!Write, Bridge!ClientIs
  <2>2. \A d \in BridgeCall \ {c} : x1'[d] = x1[d] /\ x2'[d] = x2[d] /\ x3'[d] = x3[d]
    BY <1>1, <1>2, <2>1
  <2>3. x1'[c] = Bridge!Frame(c) /\ x2'[c] = "open" /\ x3'[c] = x3[c]
    BY <1>1, <1>2, <2>1
  <2>4. x3[c] \in {"result", "failure", "too large"}
    BY <1>1, <1>2 DEF ReplyOK, RunsAsTold
  <2>5. RunsAsTold(c)'
    BY <1>1, <1>2, <2>3, <2>4 DEF RunsAsTold, Bridge!Frame
  <2>6. ReplyOK'
    BY <1>1, <1>2 DEF ReplyOK
  <2> QED BY <1>1, <2>2, <2>5, <2>6, OneCallStep
<1>4. CASE ~(x1[c] \in {"writing", "waiting"} /\ ~Bridge!Cancelled)
  <2>1. x2' = [x2 EXCEPT ![c] = "closed"] /\ UNCHANGED x1
    BY <1>4 DEF Bridge!Write, Bridge!WorkerGone
  <2> QED BY <1>1, <2>1, WorkerOnceStep
<1> QED BY <1>3, <1>4

\* A frame is read of a call that has no reply: it is not queued yet.
LEMMA ReadOnce ==
  ASSUME Bridge!LinkInv, Bridge!OnceInv, NEW c \in BridgeCall, Bridge!Read(c)
  PROVE  Bridge!OnceInv'
<1>1. /\ x2[c] = "open" /\ x3[c] = "none" /\ UNCHANGED <<x1, x3, x7>>
      /\ x2' = [x2 EXCEPT ![c] = "posted"] /\ x6' = Append(x6, c)
      /\ x1[c] \in {"writing", "waiting", "unsure", "aborted"}
  BY DEF Bridge!Read
<1>2. /\ ReplyOK /\ QueuedOnce /\ \A d \in BridgeCall : RunsAsTold(d)
      /\ DOMAIN x2 = BridgeCall /\ x6 \in Seq(BridgeCall)
  BY OnceParts DEF Bridge!LinkInv
<1>3. /\ Len(x6') = Len(x6) + 1 /\ Len(x6) \in Nat
      /\ x6'[Len(x6) + 1] = c
      /\ \A i \in 1 .. Len(x6) : x6'[i] = x6[i] /\ x6[i] \in BridgeCall
  BY <1>1, <1>2, AppendProperties
<1>4. ASSUME NEW i \in 1 .. Len(x6) PROVE x6[i] # c /\ x2'[x6[i]] = "posted"
  BY <1>1, <1>2, <1>3, <1>4 DEF QueuedOnce
<1>5. x2'[c] = "posted" /\ \A i \in 1 .. Len(x6') : x2'[x6'[i]] = "posted"
  <2>1. x2'[c] = "posted"
    BY <1>1, <1>2
  <2>2. ASSUME NEW i \in 1 .. Len(x6') PROVE x2'[x6'[i]] = "posted"
    <3>1. i \in 1 .. Len(x6) \/ i = Len(x6) + 1
      BY <1>3
    <3> QED BY <1>3, <1>4, <2>1, <3>1
  <2> QED BY <2>1, <2>2
<1>6. ASSUME NEW i \in 1 .. Len(x6'), NEW j \in 1 .. Len(x6'), x6'[i] = x6'[j]
      PROVE  i = j
  <2>1. /\ i \in 1 .. Len(x6) \/ i = Len(x6) + 1
        /\ j \in 1 .. Len(x6) \/ j = Len(x6) + 1
    BY <1>3
  <2> QED BY <1>2, <1>3, <1>4, <1>6, <2>1 DEF QueuedOnce
<1>7. ASSUME NEW d \in BridgeCall PROVE RunsAsTold(d)'
  <2>1. x2'[d] = IF d = c THEN "posted" ELSE x2[d]
    BY <1>1, <1>2
  <2> QED BY <1>1, <1>2, <2>1 DEF RunsAsTold
<1>8. ReplyOK'
  BY <1>1, <1>2 DEF ReplyOK
<1>9. QueuedOnce'
  BY <1>5, <1>6 DEF QueuedOnce
<1> QED BY <1>7, <1>8, <1>9, OncePartsNext

\* The first leaves a queue in which each stands once.
LEMMA FirstLeaves ==
  ASSUME Bridge!LinkInv, QueuedOnce, x6 # <<>>, x6' = Tail(x6)
  PROVE  /\ Head(x6) \in BridgeCall /\ x2[Head(x6)] = "posted"
         /\ \A i \in 1 .. Len(x6') :
              x6'[i] \in BridgeCall \ {Head(x6)} /\ x2[x6'[i]] = "posted"
         /\ \A i, j \in 1 .. Len(x6') : x6'[i] = x6'[j] => i = j
<1>1. /\ Head(x6) = x6[1] /\ Head(x6) \in BridgeCall /\ Len(x6) \in Nat \ {0}
      /\ Len(x6') = Len(x6) - 1
      /\ \A i \in 1 .. Len(x6') : x6'[i] = x6[i + 1]
  BY HeadTailProperties, EmptySeq DEF Bridge!LinkInv
<1>2. 1 \in 1 .. Len(x6) /\ \A i \in 1 .. Len(x6') : i + 1 \in 1 .. Len(x6) /\ i + 1 # 1
  BY <1>1
<1>3. ASSUME NEW i \in 1 .. Len(x6')
      PROVE  x6'[i] \in BridgeCall \ {Head(x6)} /\ x2[x6'[i]] = "posted"
  <2>1. x6[i + 1] \in BridgeCall /\ x6'[i] = x6[i + 1]
    BY <1>1, <1>2, ElementOfSeq DEF Bridge!LinkInv
  <2>2. x6[i + 1] # x6[1] /\ x2[x6[i + 1]] = "posted"
    BY <1>2 DEF QueuedOnce
  <2> QED BY <1>1, <2>1, <2>2
<1>4. ASSUME NEW i \in 1 .. Len(x6'), NEW j \in 1 .. Len(x6'), x6'[i] = x6'[j]
      PROVE  i = j
  <2>1. x6[i + 1] = x6[j + 1]
    BY <1>1, <1>4
  <2>2. i + 1 = j + 1
    BY <1>2, <2>1 DEF QueuedOnce
  <2> QED BY <1>1, <2>2
<1> QED BY <1>1, <1>2, <1>3, <1>4 DEF QueuedOnce

\* What runs leaves the queue, in which it stood once.
LEMMA RunsOnceStep ==
  ASSUME Bridge!LinkInv, Bridge!OnceInv, NEW what, what \in {"result", "failure", "too large"}, Bridge!Runs(what)
  PROVE  Bridge!OnceInv'
<1> DEFINE h == Head(x6)
<1>1. /\ x6 # <<>> /\ x6' = Tail(x6) /\ x7' = x7 \cup {h}
      /\ x3' = [x3 EXCEPT ![h] = what]
      /\ x2' = [x2 EXCEPT ![h] = "answering"] /\ x1' = x1
  BY DEF Bridge!Runs
<1>2. ReplyOK /\ QueuedOnce /\ (\A d \in BridgeCall : RunsAsTold(d)) /\ DOMAIN x2 = BridgeCall
  BY OnceParts DEF Bridge!LinkInv
<1>3. /\ h \in BridgeCall /\ x2[h] = "posted"
      /\ \A i \in 1 .. Len(x6') : x6'[i] \in BridgeCall \ {h} /\ x2[x6'[i]] = "posted"
      /\ \A i, j \in 1 .. Len(x6') : x6'[i] = x6'[j] => i = j
  BY <1>1, <1>2, FirstLeaves
<1> HIDE DEF h
<1>4. x3[h] = "none"
  BY <1>2, <1>3 DEF RunsAsTold
<1>5. QueuedOnce'
  <2>1. ASSUME NEW i \in 1 .. Len(x6') PROVE x2'[x6'[i]] = "posted"
    <3>1. x6'[i] \in BridgeCall \ {h} /\ x2[x6'[i]] = "posted"
      BY <1>3
    <3> QED BY <1>1, <1>2, <3>1
  <2> QED BY <1>3, <2>1 DEF QueuedOnce
<1>6. ASSUME NEW d \in BridgeCall PROVE RunsAsTold(d)'
  <2>1. /\ x2'[d] = IF d = h THEN "answering" ELSE x2[d]
        /\ x3'[d] = IF d = h THEN what ELSE x3[d]
    BY <1>1, <1>2 DEF ReplyOK
  <2>2. RunsAsTold(d)
    BY <1>2
  <2>3. x1[d] \in {"answered", "refused"} => d # h
    BY <1>4, <2>2 DEF RunsAsTold
  <2>4. d \in x7' <=> d \in x7 \/ d = h
    BY <1>1
  <2>5. CASE d = h
    <3>1. x2'[d] = "answering" /\ x3'[d] = what /\ d \in x7'
      BY <2>1, <2>4, <2>5
    <3>2. x1'[d] \notin {"answered", "refused"}
      BY <1>1, <2>3, <2>5
    <3> QED BY <3>1, <3>2 DEF RunsAsTold
  <2>6. CASE d # h
    <3>1. x2'[d] = x2[d] /\ x3'[d] = x3[d] /\ x1'[d] = x1[d] /\ (d \in x7' <=> d \in x7)
      BY <1>1, <2>1, <2>4, <2>6
    <3> QED BY <2>2, <3>1 DEF RunsAsTold
  <2> QED BY <2>5, <2>6
<1>7. ReplyOK'
  BY <1>1, <1>2, <1>3 DEF ReplyOK
<1> QED BY <1>5, <1>6, <1>7, OncePartsNext

LEMMA AcceptOnce ==
  ASSUME Bridge!LinkInv, Bridge!OnceInv, NEW c \in BridgeCall, Bridge!Accept(c)
  PROVE  Bridge!OnceInv'
<1>1. x2' = [x2 EXCEPT ![c] = "open"] /\ x2[c] = "none" /\ UNCHANGED <<x1, x3, x6, x7>>
  BY DEF Bridge!Accept
<1> QED BY <1>1, WorkerOnceStep

LEMMA HangupOnce ==
  ASSUME Bridge!LinkInv, Bridge!OnceInv, NEW c \in BridgeCall, Bridge!Hangup(c)
  PROVE  Bridge!OnceInv'
<1>1. x2' = [x2 EXCEPT ![c] = "closed"] /\ x2[c] = "open" /\ UNCHANGED <<x1, x3, x6, x7>>
  BY DEF Bridge!Hangup, Bridge!WorkerGone
<1> QED BY <1>1, WorkerOnceStep

LEMMA OnceStep == Bridge!LinkInv /\ Bridge!OnceInv /\ [Bridge!LinkNext]_(Bridge!linkVars) => Bridge!OnceInv'
<1> SUFFICES ASSUME Bridge!LinkInv, Bridge!OnceInv, [Bridge!LinkNext]_(Bridge!linkVars) PROVE Bridge!OnceInv'
  OBVIOUS
<1>1. ASSUME NEW c \in BridgeCall, Bridge!CallStarts(c) \/ Bridge!AbortCall(c) \/ Bridge!CallStep(c) PROVE Bridge!OnceInv'
  BY <1>1, ClientsOnce
<1>2. ASSUME NEW c \in BridgeCall, Bridge!WorkerStep(c) PROVE Bridge!OnceInv'
  BY <1>2, ReadOnce, RefusesOnce, HangupOnce, WriteOnce DEF Bridge!WorkerStep
<1>3. CASE UNCHANGED <<x1, x2, x3, x6, x7>>
  BY <1>3 DEF Bridge!OnceInv, Bridge!AnswersAreTrue
<1>4. CASE Bridge!AcceptorStep
  BY <1>3, <1>4, AcceptOnce DEF Bridge!AcceptorStep, Bridge!CreatePipe, Bridge!Delayed, Bridge!AcceptCancelled, Bridge!Started
<1>5. CASE Bridge!ThreadStep
  BY <1>5, RunsOnceStep DEF Bridge!ThreadStep
<1>6. CASE Bridge!Dispose \/ Bridge!Disposed \/ UNCHANGED Bridge!linkVars
  BY <1>3, <1>6 DEF Bridge!Dispose, Bridge!Disposed, Bridge!linkVars
<1> QED BY <1>1, <1>2, <1>4, <1>5, <1>6 DEF Bridge!LinkNext

LEMMA OnceInitially == Bridge!LinkInit => Bridge!OnceInv
<1> SUFFICES ASSUME Bridge!LinkInit PROVE Bridge!OnceInv
  OBVIOUS
<1>1. Len(x6) = 0
  BY DEF Bridge!LinkInit
<1> QED BY <1>1 DEF Bridge!LinkInit, Bridge!OnceInv, Bridge!AnswersAreTrue

LEMMA ReportsAreTrue == Bridge!LinkInv /\ Bridge!OnceInv => Bridge!RunAsReported
<1> SUFFICES ASSUME Bridge!LinkInv, Bridge!OnceInv PROVE Bridge!RunAsReported
  OBVIOUS
<1>1. Bridge!NoDoubtNoRun
  BY DEF Bridge!LinkInv, Bridge!NoDoubtNoRun, Bridge!Quiet, Bridge!Untouched
<1>2. Bridge!RunsOnce
  <2>1. ASSUME NEW i \in 1 .. Len(x6) PROVE x6[i] \notin x7
    <3>1. x6[i] \in BridgeCall
      BY <2>1, ElementOfSeq DEF Bridge!LinkInv
    <3>2. x2[x6[i]] = "posted"
      BY <2>1 DEF Bridge!OnceInv
    <3> QED BY <3>1, <3>2 DEF Bridge!OnceInv
  <2> QED BY <2>1 DEF Bridge!RunsOnce, Bridge!OnceInv
<1> QED BY <1>1, <1>2 DEF Bridge!RunAsReported, Bridge!OnceInv

BridgePart == part = "bridge" => Bridge!LinkInv /\ Bridge!OnceInv

\* A call whose error says that it was not sent (requestMayHaveBeenSent in
\* bridgeClient.ts) has not run in Navisworks and never will; one that is
\* answered with a result has run; and none runs twice, whatever the clients,
\* the server and the user interface thread do in between.
THEOREM CallsAlwaysRunAsReported == Spec => []CallsRunAsReported
<1>1. Init => BridgePart
  BY LinkInitially, OnceInitially DEF Init, BridgePart
<1>2. BridgePart /\ [Next]_all => BridgePart'
  <2>1. part = "bridge" /\ [Next]_all => [Bridge!LinkNext]_(Bridge!linkVars)
    BY DEF Next, all, Bridge!linkVars
  <2> QED BY <2>1, PartStays, LinkStep, OnceStep DEF BridgePart
<1>3. BridgePart => CallsRunAsReported
  BY ReportsAreTrue DEF BridgePart, CallsRunAsReported
<1> QED BY <1>1, <1>2, <1>3, PTL DEF Spec

-----------------------------------------------------------------------------
(* The tasks of agent runs: x1 tasks, x2 recent, x3 disk, x4 queue, x5 pc,  *)
(* x6 then, x7 quiet, x8 round, x9 seen, x10 off, x11 answer, x12 left,     *)
(* x13 fumbled, x14 aborted, x15 shared, x16 loose, x17 faults.             *)

LEMMA TasksCardinality == \A S : Tasks!Cardinality(S) = Cardinality(S)
BY DEF Cardinality, Tasks!Cardinality

LEMMA TaskKinds ==
  /\ Tasks!Status = {"planning", "running", "paused", "blocked", "completed", "cancelled", "absent"}
  /\ Tasks!Absent \in Tasks!TaskRecord /\ Tasks!Absent.status = "absent" /\ Tasks!Absent.replans = 0
  /\ Tasks!Unseen \in Tasks!TaskCopy /\ Tasks!Unseen.id = NoTask /\ Tasks!Unseen.status = "absent"
BY DEF Tasks!Status, Tasks!Transitions, Tasks!Absent, Tasks!TaskRecord, Tasks!Unseen, Tasks!TaskCopy

\* What a status may become.
LEMMA MayBecomes ==
  ASSUME Tasks!RunsTypeOK, NEW t \in Task, NEW s \in Tasks!Status, x1[t].status # "absent", Tasks!MayBecome(t, s)
  PROVE  x1[t].status \in {"completed", "cancelled"} => s = x1[t].status
BY TaskKinds DEF Tasks!MayBecome, Tasks!Transitions, Tasks!RunsTypeOK, Tasks!TaskRecord

LEMMA MayPause ==
  ASSUME NEW t \in Task, x1[t].status = "running"
  PROVE  Tasks!MayBecome(t, "paused")
BY DEF Tasks!MayBecome, Tasks!Transitions

\* Every step of a run that has begun is one of two kinds.  In both it keeps its
\* copy of the task, and goes on to label.
Moves(r, label) ==
  /\ x5[r] \notin Tasks!Terminal \cup {"idle", "writing"} /\ label \in Tasks!Label \ {"idle", "writing"}
  /\ x5[r] = "caught" => label \in Tasks!Terminal
  /\ UNCHANGED <<x9, x3, x15>> /\ x16 \subseteq x16'
  /\ x10' \in [AgentRun -> SUBSET {"decision", "verification"}] /\ x8' \in [AgentRun -> 0..MaxRounds]
  /\ \A o \in AgentRun \ {r} : x10'[o] = x10[o] /\ x8'[o] = x8[o]
  /\ x10[r] \subseteq x10'[r]
  /\ "verification" \in x10'[r] => x9[r].id \in Task /\ (x9[r].id \in x16' \/ label \in Tasks!Terminal)
  /\ label = "planning" => x9[r].id = NoTask
  /\ label \in {"verifying", "judged", "replanning"} => x9[r].status = "running" /\ "verification" \notin x10'[r]
  /\ label = "replanning" => ~Tasks!Spent(r)
  /\ x8'[r] < MaxRounds \/ label \in Tasks!Terminal \cup {"caught"}

\* Either it changes no task,
Stays(r, label) ==
  /\ Moves(r, label) /\ x5' = [x5 EXCEPT ![r] = label] /\ UNCHANGED <<x1, x4, x6, x7>>
  /\ label \in Tasks!Terminal /\ x9[r].id \in Task \ (x15 \cup x16') =>
       x1[x9[r].id].status # "running"

\* or it makes its task new, and waits for the write.
NewTask(r, label, new) ==
  LET t == x9[r].id IN
  /\ t \in Task /\ new \in Tasks!TaskRecord /\ new.status # "absent"
  /\ x1[t].status = "completed" => new.status = "completed"
  /\ t \notin x15 /\ x1[t].status = "completed" => new.plan = x1[t].plan
  /\ t \notin x15 /\ new.status = "completed" => new.judged = new.plan
  /\ new.replans = x1[t].replans \/ (Tasks!Relies(r) /\ ~Tasks!Spent(r) /\ new.replans = x1[t].replans + 1)
  /\ label \in {"noted", "judged"} => new = x1[t]
  /\ new.replans # x1[t].replans => label = "next"
  /\ label \in Tasks!Terminal => new.status # "running"

Changes(r, label, new) ==
  /\ Moves(r, label) /\ label \in Tasks!AfterWrite /\ NewTask(r, label, new)
  /\ x5' = [x5 EXCEPT ![r] = "writing"] /\ x6' = [x6 EXCEPT ![r] = label]
  /\ x4' = Append(x4, r) /\ x7' \in {x7, x7 \cup {r}}
  /\ r \in x7' => label \in Tasks!Terminal \/ "verification" \in x10'[r]
  /\ x1' = [x1 EXCEPT ![x9[r].id] = new]

Does(r) == \E label \in Tasks!Label : Stays(r, label) \/ \E new \in Tasks!TaskRecord : Changes(r, label, new)

-----------------------------------------------------------------------------
(* Both kinds of step keep the invariant.                                   *)

LEMMA LastOnce ==
  ASSUME NEW q \in Seq(AgentRun), NEW r \in AgentRun, \A i \in DOMAIN q : q[i] # r,
         \A i, j \in DOMAIN q : q[i] = q[j] => i = j
  PROVE  LET a == Append(q, r)
         IN a \in Seq(AgentRun) /\ \A i, j \in DOMAIN a : a[i] = a[j] => i = j
<1> DEFINE a == Append(q, r)
<1>1. a \in Seq(AgentRun) /\ DOMAIN a = 1..(Len(q) + 1) /\ DOMAIN q = 1..Len(q)
  OBVIOUS
<1>2. a[Len(q) + 1] = r /\ \A i \in 1..Len(q) : a[i] = q[i]
  OBVIOUS
<1> HIDE DEF a
<1>3. ASSUME NEW i \in DOMAIN a, NEW j \in DOMAIN a, a[i] = a[j] PROVE i = j
  <2>1. (i \in DOMAIN q \/ i = Len(q) + 1) /\ (j \in DOMAIN q \/ j = Len(q) + 1)
    BY <1>1
  <2> QED BY <2>1, <1>1, <1>2, <1>3
<1> QED BY <1>1, <1>3 DEF a

LEMMA FirstOnce ==
  ASSUME NEW q \in Seq(AgentRun), q # <<>>, \A i, j \in DOMAIN q : q[i] = q[j] => i = j
  PROVE  /\ Tail(q) \in Seq(AgentRun)
         /\ \A i \in DOMAIN Tail(q) : i + 1 \in DOMAIN q /\ Tail(q)[i] = q[i + 1] /\ Tail(q)[i] # Head(q)
         /\ \A i, j \in DOMAIN Tail(q) : Tail(q)[i] = Tail(q)[j] => i = j
<1> DEFINE rest == Tail(q)
<1>1. rest \in Seq(AgentRun) /\ DOMAIN rest = 1..(Len(q) - 1) /\ DOMAIN q = 1..Len(q) /\ Len(q) \in Nat /\ Len(q) > 0
  OBVIOUS
<1>2. \A i \in 1..(Len(q) - 1) : rest[i] = q[i + 1]
  OBVIOUS
<1>3. Head(q) = q[1]
  OBVIOUS
<1> HIDE DEF rest
<1>4. \A i \in DOMAIN rest : i \in Nat /\ i + 1 \in DOMAIN q /\ rest[i] = q[i + 1] /\ 1 \in DOMAIN q /\ i + 1 # 1
  BY <1>1, <1>2
<1>5. \A i, j \in DOMAIN rest : rest[i] = rest[j] => i + 1 = j + 1
  BY <1>4
<1>6. \A i \in DOMAIN rest : rest[i] # Head(q)
  BY <1>3, <1>4
<1>7. \A i, j \in DOMAIN rest : rest[i] = rest[j] => i = j
  BY <1>4, <1>5
<1> QED BY <1>1, <1>4, <1>6, <1>7 DEF rest

LEMMA MovesKeepTypes ==
  ASSUME Tasks!TaskInv, NEW r \in AgentRun, NEW label \in Tasks!Label, NEW new \in Tasks!TaskRecord,
         Stays(r, label) \/ Changes(r, label, new)
  PROVE  Tasks!RunsTypeOK'
<1> USE DEF Tasks!TaskInv, Tasks!RunsTypeOK
<1>1. CASE Stays(r, label)
  BY <1>1 DEF Stays, Moves
<1>2. CASE Changes(r, label, new)
  <2> USE <1>2 DEF Changes, Moves, NewTask
  <2>1. {x1', x3.tasks} \subseteq [Task -> Tasks!TaskRecord]
    OBVIOUS
  <2>2. x4' \in Seq(AgentRun) /\ \A i, j \in DOMAIN x4' : x4'[i] = x4'[j] => i = j
    <3>1. \A i \in DOMAIN x4 : x4[i] # r
      OBVIOUS
    <3> QED BY <3>1, LastOnce
  <2>3. \A i \in DOMAIN x4' : x5'[x4'[i]] = "writing"
    OBVIOUS
  <2>4. x5' \in [AgentRun -> Tasks!Label] /\ x6' \in [AgentRun -> Tasks!Label]
    BY DEF Tasks!Label
  <2> QED BY <2>1, <2>2, <2>3, <2>4
<1> QED BY <1>1, <1>2

LEMMA MovesKeepControl ==
  ASSUME Tasks!TaskInv, NEW r \in AgentRun, NEW label \in Tasks!Label, NEW new \in Tasks!TaskRecord,
         Stays(r, label) \/ Changes(r, label, new)
  PROVE  Tasks!ControlInv'
<1> USE DEF Tasks!TaskInv, Tasks!RunsTypeOK, Tasks!ControlInv, Tasks!ControlOf, Tasks!Leaving, Tasks!Judging, Tasks!Alive, Tasks!Spent, Tasks!Terminal, Tasks!AfterWrite
<1>1. CASE Stays(r, label)
  BY <1>1 DEF Stays, Moves
<1>2. CASE Changes(r, label, new)
  BY <1>2 DEF Changes, Moves, NewTask
<1> QED BY <1>1, <1>2

LEMMA MovesKeepCopies ==
  ASSUME Tasks!TaskInv, NEW r \in AgentRun, NEW label \in Tasks!Label, NEW new \in Tasks!TaskRecord,
         Stays(r, label) \/ Changes(r, label, new)
  PROVE  Tasks!CopiesInv'
<1> USE DEF Tasks!TaskInv, Tasks!RunsTypeOK, Tasks!ControlInv, Tasks!ControlOf, Tasks!CopiesInv, Tasks!Leaving, Tasks!Relies, Tasks!Refreshed, Tasks!Alive, Tasks!Snapshot
<1>1. CASE Stays(r, label)
  BY <1>1 DEF Stays, Moves, Tasks!Terminal
<1>2. CASE Changes(r, label, new)
  BY <1>2 DEF Changes, Moves, NewTask, Tasks!Terminal
<1> QED BY <1>1, <1>2

LEMMA MovesKeepDisk ==
  ASSUME Tasks!TaskInv, NEW r \in AgentRun, NEW label \in Tasks!Label, NEW new \in Tasks!TaskRecord,
         Stays(r, label) \/ Changes(r, label, new)
  PROVE  Tasks!DiskInv' /\ Tasks!CompletedWasJudged' /\ Tasks!NoneLeftRunning'
<1> USE DEF Tasks!TaskInv, Tasks!RunsTypeOK, Tasks!DiskInv, Tasks!CompletedWasJudged, Tasks!NoneLeftRunning, Tasks!Alive
<1>1. CASE Stays(r, label)
  BY <1>1 DEF Stays, Moves, Tasks!Terminal
<1>2. CASE Changes(r, label, new)
  BY <1>2 DEF Changes, Moves, NewTask, Tasks!Terminal
<1> QED BY <1>1, <1>2

\* The runs that may still replan are no more than there are runs.
LEMMA Counting ==
  ASSUME NEW S \in SUBSET AgentRun, NEW T \in SUBSET S
  PROVE  /\ Tasks!Cardinality(T) \in Nat /\ Tasks!Cardinality(S) \in Nat /\ Tasks!Cardinality(T) <= Tasks!Cardinality(S)
         /\ Tasks!Cardinality(AgentRun) \in Nat /\ Tasks!Cardinality(S) <= Tasks!Cardinality(AgentRun)
         /\ \A r \in S : r \notin T => Tasks!Cardinality(T) < Tasks!Cardinality(S)
<1>1. IsFiniteSet(S) /\ IsFiniteSet(T) /\ IsFiniteSet(AgentRun)
  BY TasksCardinality, FS_Subset, RunsConstants
<1>2. Tasks!Cardinality(T) <= Tasks!Cardinality(S) /\ Tasks!Cardinality(S) <= Tasks!Cardinality(AgentRun)
  BY <1>1, TasksCardinality, FS_Subset
<1>3. ASSUME NEW r \in S, r \notin T PROVE Tasks!Cardinality(T) < Tasks!Cardinality(S)
  <2>1. T \subseteq S \ {r} /\ IsFiniteSet(S \ {r})
    BY <1>1, <1>3, TasksCardinality, FS_Subset
  <2>2. Tasks!Cardinality(T) <= Tasks!Cardinality(S \ {r})
    BY <2>1, TasksCardinality, FS_Subset
  <2>3. Tasks!Cardinality(S \ {r}) = Tasks!Cardinality(S) - 1
    BY <1>1, <1>3, TasksCardinality, FS_RemoveElement
  <2> QED BY <1>1, <2>1, <2>2, <2>3, TasksCardinality, FS_CardinalityType
<1> QED BY <1>1, <1>2, <1>3, TasksCardinality, FS_CardinalityType

\* What keeps the count of the plans of t: no run falls behind, and one that
\* replans was behind and no longer is.
LEMMA ReplansKept ==
  ASSUME Tasks!RunsTypeOK, Tasks!RunsTypeOK', NEW t \in Task, Tasks!ReplansOf(t), NEW r \in AgentRun, x15' = x15,
         x3'.tasks[t].replans \in {x1[t].replans, x3.tasks[t].replans},
         Tasks!Behind(t)' \subseteq Tasks!Behind(t) \/ x1[t].replans < MaxReplans,
         \/ x1'[t].replans = x1[t].replans
         \/ /\ x1'[t].replans = x1[t].replans + 1 /\ r \in Tasks!Behind(t) /\ r \notin Tasks!Behind(t)'
            /\ t \notin x15 => x1[t].replans < MaxReplans
  PROVE  Tasks!ReplansOf(t)'
<1>1. /\ {x1[t].replans, x3.tasks[t].replans, x1'[t].replans, x3'.tasks[t].replans} \subseteq Nat
      /\ MaxReplans \in Nat
  BY RunsConstants DEF Tasks!RunsTypeOK, Tasks!TaskRecord
<1>2. CASE t \notin x15
  BY <1>1, <1>2 DEF Tasks!ReplansOf
<1>3. CASE t \in x15
  <2>1. Tasks!Behind(t) \in SUBSET AgentRun /\ Tasks!Behind(t)' \in SUBSET AgentRun /\ AgentRun \in SUBSET AgentRun
    BY DEF Tasks!Behind
  <2>2. /\ Tasks!Cardinality(AgentRun) \in Nat /\ Tasks!Cardinality(Tasks!Behind(t)) \in Nat /\ Tasks!Cardinality(Tasks!Behind(t)') \in Nat
        /\ Tasks!Cardinality(Tasks!Behind(t)') <= Tasks!Cardinality(AgentRun)
    BY <2>1, Counting
  <2>3. Tasks!Cardinality(AgentRun) > 0
    <3>1. {} \in SUBSET AgentRun /\ r \in AgentRun /\ r \notin {}
      OBVIOUS
    <3> QED BY <2>1, <2>2, <3>1, Counting, TasksCardinality, FS_EmptySet
  <2>4. Tasks!Behind(t)' \subseteq Tasks!Behind(t) => Tasks!Cardinality(Tasks!Behind(t)') <= Tasks!Cardinality(Tasks!Behind(t))
    BY <2>1, Counting
  <2>5. Tasks!Behind(t)' \subseteq Tasks!Behind(t) /\ r \in Tasks!Behind(t) /\ r \notin Tasks!Behind(t)'
          => Tasks!Cardinality(Tasks!Behind(t)') < Tasks!Cardinality(Tasks!Behind(t))
    BY <2>1, Counting
  <2>6. r \notin Tasks!Behind(t)' => Tasks!Cardinality(Tasks!Behind(t)') < Tasks!Cardinality(AgentRun)
    BY <2>1, Counting
  <2>7. x3'.tasks[t].replans < MaxReplans + Tasks!Cardinality(AgentRun)
    BY <1>1, <1>3, <2>2, <2>3 DEF Tasks!ReplansOf
  <2>8. x1'[t].replans >= MaxReplans =>
          x1'[t].replans + Tasks!Cardinality(Tasks!Behind(t)') < MaxReplans + Tasks!Cardinality(AgentRun)
    <3> HIDE DEF Tasks!Behind
    <3>1. CASE x1'[t].replans = x1[t].replans
      BY <1>1, <1>3, <2>2, <2>4, <3>1 DEF Tasks!ReplansOf
    <3>2. CASE x1'[t].replans = x1[t].replans + 1 /\ r \in Tasks!Behind(t) /\ r \notin Tasks!Behind(t)'
      BY <1>1, <1>3, <2>2, <2>5, <2>6, <3>2 DEF Tasks!ReplansOf
    <3> QED BY <3>1, <3>2
  <2> QED BY <1>1, <1>3, <2>2, <2>7, <2>8 DEF Tasks!ReplansOf
<1> QED BY <1>2, <1>3

LEMMA MovesKeepReplans ==
  ASSUME Tasks!TaskInv, Tasks!RunsTypeOK', NEW r \in AgentRun, NEW label \in Tasks!Label, NEW new \in Tasks!TaskRecord,
         Stays(r, label) \/ Changes(r, label, new)
  PROVE  Tasks!ReplansInv'
<1> SUFFICES ASSUME NEW t \in Task PROVE Tasks!ReplansOf(t)'
  BY DEF Tasks!ReplansInv
<1>1. Tasks!RunsTypeOK /\ Tasks!ControlInv /\ Tasks!CopiesInv /\ Tasks!ReplansOf(t) /\ x3' = x3 /\ x15' = x15
  BY DEF Tasks!TaskInv, Tasks!ReplansInv, Stays, Changes, Moves
<1>2. Tasks!Behind(t)' \subseteq Tasks!Behind(t)
  <2>1. ASSUME NEW o \in AgentRun, Tasks!Relies(o)' PROVE Tasks!Relies(o) /\ x9'[o] = x9[o]
    <3>1. CASE Stays(r, label)
      BY <1>1, <2>1, <3>1 DEF Stays, Moves, Tasks!Relies, Tasks!Refreshed, Tasks!Terminal, Tasks!RunsTypeOK
    <3>2. CASE Changes(r, label, new)
      BY <1>1, <2>1, <3>2 DEF Changes, Moves, Tasks!Relies, Tasks!Refreshed, Tasks!Terminal, Tasks!RunsTypeOK
    <3> QED BY <3>1, <3>2
  <2> QED BY <2>1 DEF Tasks!Behind, Tasks!Spent
<1>3. CASE x1'[t].replans = x1[t].replans
  BY <1>1, <1>2, <1>3, ReplansKept
<1>4. CASE x1'[t].replans # x1[t].replans
  <2>1. Changes(r, label, new) /\ t = x9[r].id /\ x1'[t] = new /\ new.replans # x1[t].replans
    BY <1>1, <1>4 DEF Stays, Changes, NewTask, Tasks!RunsTypeOK
  <2>2. Tasks!Relies(r) /\ ~Tasks!Spent(r) /\ new.replans = x1[t].replans + 1 /\ label = "next"
    BY <2>1 DEF Changes, NewTask
  <2>3. x5'[r] = "writing" /\ Tasks!Refreshed(r)'
    BY <1>1, <2>1, <2>2 DEF Changes, Tasks!Refreshed, Tasks!RunsTypeOK
  <2>4. r \in Tasks!Behind(t) /\ r \notin Tasks!Behind(t)'
    BY <2>1, <2>2, <2>3 DEF Tasks!Behind, Tasks!Relies
  <2>5. t \notin x15 => x1[t].replans < MaxReplans
    <3>1. t \notin x15 => x9[r].replans = x1[t].replans
      <4>1. t \notin x15 => x9[r] = Tasks!Snapshot(t)
        BY <1>1, <2>1, <2>2 DEF Tasks!CopiesInv
      <4> QED BY <4>1 DEF Tasks!Snapshot
    <3>2. x1[t].replans \in Nat /\ MaxReplans \in Nat
      BY <1>1, RunsConstants DEF Tasks!RunsTypeOK, Tasks!TaskRecord
    <3> QED BY <2>2, <3>1, <3>2 DEF Tasks!Spent
  <2> QED BY <1>1, <1>2, <2>1, <2>2, <2>4, <2>5, ReplansKept
<1> QED BY <1>3, <1>4

LEMMA MovesKeepInv ==
  ASSUME Tasks!TaskInv, NEW r \in AgentRun, Does(r)
  PROVE  Tasks!TaskInv'
<1>1. ASSUME NEW label \in Tasks!Label, NEW new \in Tasks!TaskRecord, Stays(r, label) \/ Changes(r, label, new)
      PROVE  Tasks!TaskInv'
  BY <1>1, MovesKeepTypes, MovesKeepControl, MovesKeepCopies, MovesKeepDisk, MovesKeepReplans DEF Tasks!TaskInv
<1>2. Tasks!Absent \in Tasks!TaskRecord
  BY TaskKinds
<1> QED BY <1>1, <1>2 DEF Does

-----------------------------------------------------------------------------
(* The steps of a run.                                                      *)

\* What is known of the task of a run underway.
LEMMA OwnTask ==
  ASSUME Tasks!TaskInv, NEW r \in AgentRun, x5[r] \notin Tasks!Terminal \cup {"idle", "writing"}, x9[r].id \in Task
  PROVE  /\ x1[x9[r].id] \in Tasks!TaskRecord /\ x1[x9[r].id].status # "absent"
         /\ x9[r].id \notin x15 \cup x16 => x9[r].status = x1[x9[r].id].status
         /\ x9[r].id \notin x15 /\ Tasks!Relies(r) =>
              x9[r].status = x1[x9[r].id].status /\ x9[r].plan = x1[x9[r].id].plan
<1>1. r \in Tasks!Alive
  BY DEF Tasks!Alive
<1>2. Tasks!Relies(r) \/ x5[r] = "caught" \/ x9[r].id \in x16
  BY <1>1 DEF Tasks!TaskInv, Tasks!ControlInv, Tasks!ControlOf, Tasks!Relies, Tasks!Leaving
<1> QED BY <1>1, <1>2 DEF Tasks!TaskInv, Tasks!RunsTypeOK, Tasks!CopiesInv, Tasks!Snapshot

LEMMA StepDoes ==
  ASSUME Tasks!TaskInv, NEW r \in AgentRun, NEW label \in Tasks!Label, Moves(r, label), Tasks!Step(r, label),
         label \in Tasks!Terminal => x9[r].status # "running" \/ x9[r].id \in x16'
  PROVE  Does(r)
<1>1. ASSUME label \in Tasks!Terminal, x9[r].id \in Task \ (x15 \cup x16')
      PROVE  x1[x9[r].id].status # "running"
  BY <1>1, OwnTask DEF Moves
<1>2. Stays(r, label)
  BY <1>1 DEF Stays, Tasks!Step, Tasks!Goto, Tasks!taskVars
<1> QED BY <1>2 DEF Does

LEMMA PauseDoes ==
  ASSUME Tasks!TaskInv, NEW r \in AgentRun, NEW label \in Tasks!AfterWrite \ {"noted", "judged"}, Moves(r, label),
         Tasks!PauseThen(r, label), label \in Tasks!Terminal \/ "verification" \in x10'[r]
  PROVE  Does(r)
<1> DEFINE t == x9[r].id
           new == [x1[t] EXCEPT !.status = "paused"]
<1>1. label \in Tasks!Label
  BY DEF Tasks!Label
<1>2. CASE x9[r].status = "running" /\ Tasks!MayBecome(t, "paused")
  <2>1. t \in Task
    BY <1>2 DEF Tasks!TaskInv, Tasks!ControlInv, Tasks!ControlOf, Tasks!RunsTypeOK, Tasks!TaskCopy
  <2>2. x1[t] \in Tasks!TaskRecord /\ x1[t].status # "absent"
    BY <2>1, OwnTask DEF Moves
  <2>3. new \in Tasks!TaskRecord /\ new.status = "paused" /\ new.replans = x1[t].replans
    BY <2>2, TaskKinds DEF Tasks!TaskRecord
  <2>4. x1[t].status # "completed"
    BY <1>2, <2>1, <2>2, MayBecomes, TaskKinds DEF Tasks!TaskInv
  <2>5. NewTask(r, label, new)
    BY <2>1, <2>3, <2>4 DEF NewTask
  <2>6. Changes(r, label, new)
    BY <1>2, <2>5 DEF Changes, Tasks!PauseThen, Tasks!Mutate, Tasks!Goto
  <2> QED BY <1>1, <2>3, <2>6 DEF Does
<1>3. CASE ~(x9[r].status = "running" /\ Tasks!MayBecome(t, "paused"))
  <2>1. Tasks!Step(r, label)
    BY <1>3 DEF Tasks!PauseThen
  <2>2. ASSUME t \in Task \ (x15 \cup x16') PROVE x1[t].status # "running"
    BY <1>3, <2>2, OwnTask, MayPause DEF Moves
  <2>3. Stays(r, label)
    BY <2>1, <2>2 DEF Stays, Tasks!Step, Tasks!Goto, Tasks!taskVars, Moves
  <2> QED BY <1>1, <2>3 DEF Does
<1> QED BY <1>2, <1>3

LEMMA SetStatusDoes ==
  ASSUME Tasks!TaskInv, NEW r \in AgentRun, NEW label \in Tasks!AfterWrite \ {"noted", "judged"}, Moves(r, label),
         NEW status \in {"completed", "blocked", "running"}, Tasks!SetStatus(r, status, label),
         Moves(r, "caught"), x9[r].id \in Task,
         status = "completed" => Tasks!Relies(r), status = "running" => label \notin Tasks!Terminal
  PROVE  Does(r)
<1> DEFINE t == x9[r].id
           new == [x1[t] EXCEPT !.status = status,
                                   !.judged = IF status = "completed" THEN x9[r].plan ELSE @]
<1>1. label \in Tasks!Label /\ "caught" \in Tasks!Label \ Tasks!Terminal
  BY DEF Tasks!Label, Tasks!Terminal
<1>2. CASE Tasks!MayBecome(t, status)
  <2>1. x1[t] \in Tasks!TaskRecord /\ x1[t].status # "absent" /\ status \in Tasks!Status
    BY OwnTask, TaskKinds DEF Moves
  <2>2. /\ new \in Tasks!TaskRecord /\ new.status = status /\ new.replans = x1[t].replans
        /\ new.plan = x1[t].plan /\ (status = "completed" => new.judged = x9[r].plan)
    BY <2>1 DEF Tasks!TaskRecord, Tasks!TaskInv, Tasks!RunsTypeOK, Tasks!TaskCopy
  <2>3. x1[t].status = "completed" => status = "completed"
    BY <1>2, <2>1, MayBecomes DEF Tasks!TaskInv
  <2>4. ASSUME t \notin x15, status = "completed" PROVE new.judged = new.plan
    <3>1. x9[r].plan = x1[t].plan
      BY <2>4, OwnTask DEF Moves
    <3> HIDE DEF new
    <3> QED BY <2>2, <2>4, <3>1
  <2> HIDE DEF new
  <2>5. NewTask(r, label, new)
    BY <2>1, <2>2, <2>3, <2>4, TaskKinds DEF NewTask
  <2>6. Changes(r, label, new)
    BY <1>2, <2>5 DEF Changes, Tasks!SetStatus, Tasks!Mutate, Tasks!Goto, new, Tasks!TaskInv, Tasks!ControlInv, Tasks!ControlOf, Moves
  <2> QED BY <1>1, <2>2, <2>6 DEF Does
<1>3. CASE ~Tasks!MayBecome(t, status)
  BY <1>1, <1>3 DEF Tasks!SetStatus, Does, Stays, Tasks!Goto, Tasks!taskVars
<1> QED BY <1>2, <1>3

LEMMA NoteDoes ==
  ASSUME Tasks!TaskInv, NEW r \in AgentRun, NEW label \in {"noted", "judged", "next"}, Moves(r, label),
         Tasks!Note(r, label), x9[r].id \in Task
  PROVE  Does(r)
<1> DEFINE t == x9[r].id
<1>1. label \in Tasks!Label /\ label \in Tasks!AfterWrite \ Tasks!Terminal
  BY DEF Tasks!Label, Tasks!AfterWrite, Tasks!Terminal
<1>2. x1[t] \in Tasks!TaskRecord /\ x1[t].status # "absent"
  BY OwnTask DEF Moves
<1>3. t \notin x15 /\ x1[t].status = "completed" => x1[t].judged = x1[t].plan
  BY DEF Tasks!TaskInv, Tasks!CompletedWasJudged
<1>4. NewTask(r, label, x1[t])
  BY <1>1, <1>2, <1>3 DEF NewTask
<1>5. Changes(r, label, x1[t])
  BY <1>1, <1>4 DEF Changes, Tasks!Note, Tasks!Mutate, Tasks!Goto, Tasks!TaskInv, Tasks!ControlInv, Tasks!ControlOf, Moves
<1> QED BY <1>1, <1>2, <1>5 DEF Does

LEMMA NextPlan ==
  ASSUME NEW task \in Tasks!TaskRecord
  PROVE  LET next == [task EXCEPT !.plan = @ + 1, !.replans = @ + 1]
         IN next \in Tasks!TaskRecord /\ next.status = task.status /\ next.replans = task.replans + 1
<1>1. PICK n \in Nat, m \in Nat : n = task.plan + 1 /\ m = task.replans + 1
  BY DEF Tasks!TaskRecord
<1>2. [task EXCEPT !.plan = n, !.replans = m] \in Tasks!TaskRecord
  BY DEF Tasks!TaskRecord
<1> QED BY <1>1, <1>2 DEF Tasks!TaskRecord

\* A step of the run r that is not the first, and takes on no new task.
LEMMA RunStepDoes ==
  ASSUME Tasks!TaskInv, NEW r \in AgentRun, Tasks!RunStep(r), ~Tasks!Plan(r, "task")
  PROVE  Does(r)
<1> USE DEF Tasks!Terminal
<1>1. Tasks!RunsTypeOK /\ Tasks!ControlInv
  BY DEF Tasks!TaskInv
<1>2. \A label \in Tasks!AfterWrite \cup {"model", "planning", "verifying", "replanning", "caught"} : label \in Tasks!Label
  BY DEF Tasks!Label, Tasks!Hidden
<1>3. /\ "verification" \in x10[r] => x9[r].id \in Task
      /\ "verification" \in x10[r] /\ x5[r] \notin Tasks!Terminal \cup {"writing", "idle"} => x9[r].id \in x16
      /\ x5[r] \notin Tasks!Terminal \cup {"writing", "caught"} => x8[r] < MaxRounds
  <2>1. "verification" \in x10[r] => x9[r].id \in Task
    BY <1>1 DEF Tasks!ControlInv, Tasks!ControlOf
  <2>2. "verification" \in x10[r] /\ r \in Tasks!Alive => x9[r].id \in x16 \/ Tasks!Leaving(r)
    BY <1>1 DEF Tasks!ControlInv, Tasks!ControlOf
  <2>3. x8[r] < MaxRounds \/ x5[r] \in Tasks!Terminal \cup {"caught"} \/ Tasks!Leaving(r)
    BY <1>1 DEF Tasks!ControlInv, Tasks!ControlOf
  <2> QED BY <2>1, <2>2, <2>3 DEF Tasks!Alive, Tasks!Leaving
<1>4. Tasks!Judging(r) => x9[r].id \in Task
  BY <1>1 DEF Tasks!ControlInv, Tasks!ControlOf, Tasks!Judging, Tasks!RunsTypeOK, Tasks!TaskCopy
<1>5. ASSUME x5[r] \notin Tasks!Terminal \cup {"idle", "writing", "caught"}, UNCHANGED <<x9, x10, x8, x3, x15>>,
             x16 \subseteq x16', NEW label \in Tasks!Label \ {"idle", "writing"},
             label \in {"verifying", "judged", "replanning"} => Tasks!Judging(r), label = "replanning" => ~Tasks!Spent(r),
             label = "planning" => x9[r].id = NoTask
      PROVE  Moves(r, label)
  <2>1. /\ x10 \in [AgentRun -> SUBSET {"decision", "verification"}] /\ x8 \in [AgentRun -> 0..MaxRounds]
        /\ x8[r] < MaxRounds /\ ("verification" \in x10[r] => x9[r].id \in x16' /\ x9[r].id \in Task)
    BY <1>1, <1>3, <1>5 DEF Tasks!RunsTypeOK
  <2>2. label \in {"verifying", "judged", "replanning"} => x9[r].status = "running" /\ "verification" \notin x10[r]
    BY <1>5 DEF Tasks!Judging
  <2> QED BY <1>5, <2>1, <2>2 DEF Moves
<1>6. ASSUME x5[r] \notin Tasks!Terminal \cup {"idle", "writing", "caught"}, UNCHANGED <<x9, x10, x8, x15, x16>>
      PROVE  /\ \A label \in {"failed", "succeeded", "aborted", "model", "ready", "tools", "next", "noted", "caught"} :
                  x3' = x3 => Moves(r, label)
             /\ x9[r].id = NoTask /\ x3' = x3 => Moves(r, "planning")
             /\ Tasks!Judging(r) /\ x3' = x3 => Moves(r, "verifying") /\ Moves(r, "judged")
             /\ Tasks!Judging(r) /\ x3' = x3 /\ ~Tasks!Spent(r) => Moves(r, "replanning")
  BY <1>5, <1>6 DEF Tasks!Label, Tasks!AfterWrite, Tasks!Hidden
<1>7. \A label : Tasks!PauseThen(r, label) \/ Tasks!Step(r, label) \/ Tasks!Note(r, label) => x3' = x3
  BY DEF Tasks!PauseThen, Tasks!Step, Tasks!Note, Tasks!Mutate, Tasks!taskVars
<1>8. \A status, label : Tasks!SetStatus(r, status, label) => x3' = x3
  BY DEF Tasks!SetStatus, Tasks!Mutate, Tasks!taskVars
<1> USE <1>2 DEF Tasks!AfterWrite
<1>10. ASSUME NEW what \in {"empty", "text", "tools"}, NEW calls, Tasks!Answers(r, what, calls) PROVE Does(r)
  <2>1. x5[r] = "model" /\ UNCHANGED <<x9, x10, x8, x15, x16>>
    BY <1>10 DEF Tasks!Answers, Tasks!auxVars
  <2>2. CASE what = "empty"
    <3>1. Tasks!PauseThen(r, "failed")
      BY <1>10, <2>2 DEF Tasks!Answers
    <3> QED BY <2>1, <3>1, <1>6, <1>7, PauseDoes
  <2>3. CASE what = "text"
    <3>1. Tasks!Step(r, IF Tasks!Judging(r) THEN "verifying" ELSE "succeeded")
      BY <1>10, <2>3 DEF Tasks!Answers
    <3>2. ~Tasks!Judging(r) => x9[r].status # "running" \/ x9[r].id \in x16'
      BY <1>3, <2>1 DEF Tasks!Judging
    <3> QED BY <2>1, <3>1, <3>2, <1>6, <1>7, StepDoes
  <2>4. CASE what = "tools"
    <3>1. (Tasks!Step(r, "planning") /\ x9[r].id = NoTask) \/ Tasks!Step(r, "ready")
      BY <1>10, <2>4 DEF Tasks!Answers
    <3> QED BY <2>1, <3>1, <1>6, <1>7, StepDoes
  <2> QED BY <2>2, <2>3, <2>4
<1>11. ASSUME NEW decision \in Tasks!Decisions \ {"task"}, Tasks!Plan(r, decision) PROVE Does(r)
  <2>1. /\ x5[r] = "planning" /\ UNCHANGED <<x9, x8, x15, x16, x3>> /\ Tasks!Step(r, "tools")
        /\ x10' = [x10 EXCEPT ![r] = @ \cup {"decision"}]
    BY <1>11 DEF Tasks!Plan, Tasks!auxVars, Tasks!Step, Tasks!taskVars
  <2>2. /\ x10' \in [AgentRun -> SUBSET {"decision", "verification"}] /\ x10[r] \subseteq x10'[r]
        /\ ("verification" \in x10'[r] => "verification" \in x10[r]) /\ \A o \in AgentRun \ {r} : x10'[o] = x10[o]
        /\ x8' \in [AgentRun -> 0..MaxRounds]
    BY <1>1, <2>1 DEF Tasks!RunsTypeOK
  <2>3. Moves(r, "tools")
    BY <1>3, <2>1, <2>2 DEF Moves
  <2> QED BY <2>1, <2>3, StepDoes
<1>12. ASSUME Tasks!Ready(r) PROVE Does(r)
  <2>1. x5[r] = "ready" /\ UNCHANGED <<x9, x10, x8, x15, x16>>
    BY <1>12 DEF Tasks!Ready, Tasks!auxVars
  <2>2. CASE x9[r].id = NoTask \/ x9[r].status = "running"
    <3>1. Tasks!Step(r, "tools")
      BY <1>12, <2>2 DEF Tasks!Ready
    <3> QED BY <2>1, <3>1, <1>6, <1>7, StepDoes
  <2>3. CASE ~(x9[r].id = NoTask \/ x9[r].status = "running")
    <3>1. Tasks!SetStatus(r, "running", "tools") /\ x9[r].id \in Task
      BY <1>1, <1>12, <2>3 DEF Tasks!Ready, Tasks!RunsTypeOK, Tasks!TaskCopy
    <3>2. Moves(r, "tools") /\ Moves(r, "caught")
      BY <2>1, <3>1, <1>6, <1>8
    <3> QED BY <3>1, <3>2, SetStatusDoes
  <2> QED BY <2>2, <2>3
<1>13. ASSUME NEW outcome \in {"done", "failed", "aside", "stopped", "environment gone"}, Tasks!Tool(r, outcome) PROVE Does(r)
  <2>1. x5[r] \in {"tools", "noted"} /\ UNCHANGED <<x9, x10, x8, x15, x16>>
    BY <1>13 DEF Tasks!Tool, Tasks!auxVars
  <2>2. CASE Tasks!Note(r, "noted") /\ x9[r].id # NoTask
    <3>1. x9[r].id \in Task
      BY <1>1, <2>2 DEF Tasks!RunsTypeOK, Tasks!TaskCopy
    <3> QED BY <2>1, <2>2, <3>1, <1>6, <1>7, NoteDoes
  <2>3. CASE Tasks!Step(r, "caught") \/ Tasks!Step(r, "tools")
    BY <2>1, <2>3, <1>6, <1>7, StepDoes
  <2> QED BY <1>13, <2>2, <2>3 DEF Tasks!Tool
<1>14. ASSUME Tasks!ToolsDone(r) PROVE Does(r)
  <2>1. /\ x5[r] \in {"tools", "noted"} /\ UNCHANGED <<x9, x10, x8, x15, x16>>
        /\ (Tasks!Step(r, "verifying") /\ Tasks!Judging(r)) \/ Tasks!Step(r, "next")
    BY <1>14 DEF Tasks!ToolsDone, Tasks!auxVars
  <2> QED BY <2>1, <1>6, <1>7, StepDoes
<1>15. ASSUME x5[r] \in {"verifying", "replanning"}, Tasks!Unjudged(r), UNCHANGED <<x9, x8, x15>> PROVE Does(r)
  <2>0. x9[r].id \in Task
    BY <1>1, <1>4, <1>15 DEF Tasks!ControlInv, Tasks!ControlOf
  <2>1. /\ x10' = [x10 EXCEPT ![r] = @ \cup {"verification"}] /\ Tasks!PauseThen(r, Tasks!Onward(r)) /\ x3' = x3
        /\ x16 \subseteq x16' /\ Tasks!Onward(r) \in {"next", "succeeded"} /\ (Tasks!Onward(r) = "next" => x9[r].id \in x16')
    BY <1>7, <1>15 DEF Tasks!Unjudged, Tasks!Onward
  <2>2. /\ x10' \in [AgentRun -> SUBSET {"decision", "verification"}] /\ x10[r] \subseteq x10'[r]
        /\ "verification" \in x10'[r] /\ \A o \in AgentRun \ {r} : x10'[o] = x10[o]
        /\ x8' \in [AgentRun -> 0..MaxRounds]
    BY <1>1, <1>15, <2>1 DEF Tasks!RunsTypeOK
  <2>3. Moves(r, Tasks!Onward(r))
    BY <1>3, <1>15, <2>0, <2>1, <2>2 DEF Moves
  <2> QED BY <2>1, <2>2, <2>3, PauseDoes
<1>16. ASSUME NEW verdict \in Tasks!Verdicts, Tasks!Verdict(r, verdict) PROVE Does(r)
  <2>1. x5[r] = "verifying" /\ UNCHANGED <<x9, x8, x15>> /\ (verdict # "none" => UNCHANGED <<x10, x16>>)
    BY <1>16 DEF Tasks!Verdict
  <2>2. Tasks!Judging(r) /\ Tasks!Relies(r) /\ x9[r].id \in Task
    BY <1>1, <1>4, <2>1 DEF Tasks!ControlInv, Tasks!ControlOf, Tasks!Judging, Tasks!Relies
  <2>3. CASE verdict = "none"
    BY <1>15, <1>16, <2>1, <2>3 DEF Tasks!Verdict
  <2>4. CASE verdict = "complete"
    <3>1. Tasks!SetStatus(r, "completed", Tasks!Onward(r)) /\ Tasks!Onward(r) \in {"next", "succeeded"}
      BY <1>16, <2>4 DEF Tasks!Verdict, Tasks!Onward
    <3>2. Moves(r, Tasks!Onward(r)) /\ Moves(r, "caught")
      BY <2>1, <2>4, <3>1, <1>6, <1>8
    <3> QED BY <2>2, <3>1, <3>2, SetStatusDoes
  <2>5. CASE verdict = "blocked" \/ (verdict = "replan" /\ Tasks!Spent(r))
    <3>1. Tasks!SetStatus(r, "blocked", "succeeded")
      BY <1>16, <2>5 DEF Tasks!Verdict
    <3>2. Moves(r, "succeeded") /\ Moves(r, "caught")
      BY <2>1, <2>5, <3>1, <1>6, <1>8
    <3> QED BY <2>2, <3>1, <3>2, SetStatusDoes
  <2>6. CASE verdict = "replan" /\ ~Tasks!Spent(r)
    <3>1. Tasks!Step(r, "replanning")
      BY <1>16, <2>6 DEF Tasks!Verdict
    <3> QED BY <2>1, <2>2, <2>6, <3>1, <1>6, <1>7, StepDoes
  <2>7. CASE verdict = "continue"
    <3>1. Tasks!Note(r, "judged")
      BY <1>16, <2>7 DEF Tasks!Verdict
    <3> QED BY <2>1, <2>2, <2>7, <3>1, <1>6, <1>7, NoteDoes
  <2> QED BY <2>3, <2>4, <2>5, <2>6, <2>7 DEF Tasks!Verdicts
<1>17. ASSUME Tasks!Apply(r) PROVE Does(r)
  <2>1. x5[r] = "judged" /\ Tasks!Note(r, "next") /\ UNCHANGED <<x9, x10, x8, x15, x16>>
    BY <1>17 DEF Tasks!Apply, Tasks!auxVars
  <2>2. x9[r].id \in Task
    BY <1>1, <1>4, <2>1 DEF Tasks!ControlInv, Tasks!ControlOf
  <2> QED BY <2>1, <2>2, <1>6, <1>7, NoteDoes
<1>18. ASSUME NEW new \in Tasks!NewPlans, Tasks!Replan(r, new) PROVE Does(r)
  <2> DEFINE t == x9[r].id
             next == [x1[t] EXCEPT !.plan = @ + 1, !.replans = @ + 1]
  <2>1. x5[r] = "replanning" /\ UNCHANGED <<x9, x8, x15>>
    BY <1>18 DEF Tasks!Replan
  <2>2. Tasks!Judging(r) /\ Tasks!Relies(r) /\ ~Tasks!Spent(r) /\ t \in Task
    BY <1>1, <1>4, <2>1 DEF Tasks!ControlInv, Tasks!ControlOf, Tasks!Judging, Tasks!Relies
  <2>3. CASE new = "plan"
    <3>1. Tasks!Mutate(r, t, next, "next") /\ UNCHANGED <<x10, x16, x7, x3>>
      BY <1>18, <2>3 DEF Tasks!Replan, Tasks!Mutate
    <3>2. Moves(r, "next")
      BY <2>1, <3>1, <1>6
    <3>3. x1[t] \in Tasks!TaskRecord /\ x1[t].status # "absent"
          /\ (t \notin x15 => x1[t].status = "running")
      BY <2>1, <2>2, OwnTask DEF Tasks!Judging
    <3>4. /\ next \in Tasks!TaskRecord /\ next.status = x1[t].status /\ next.replans = x1[t].replans + 1
      BY <3>3, NextPlan
    <3> HIDE DEF next
    <3>5. NewTask(r, "next", next)
      BY <2>2, <3>3, <3>4 DEF NewTask
    <3>6. r \notin x7
      BY <1>1, <2>1 DEF Tasks!ControlInv, Tasks!ControlOf
    <3>7. Changes(r, "next", next)
      BY <3>1, <3>2, <3>5, <3>6 DEF Changes, Tasks!Mutate, Tasks!Goto
    <3> QED BY <3>4, <3>7 DEF Does
  <2>4. CASE new = "none"
    BY <1>15, <1>18, <2>1, <2>4 DEF Tasks!Replan
  <2> QED BY <2>3, <2>4 DEF Tasks!NewPlans
<1>19. ASSUME Tasks!NextRound(r) PROVE Does(r)
  <2>1. /\ x5[r] = "next" /\ UNCHANGED <<x9, x10, x15, x16>> /\ x8' = [x8 EXCEPT ![r] = x8[r] + 1]
        /\ IF x8'[r] < MaxRounds THEN Tasks!Step(r, "model") ELSE Tasks!PauseThen(r, "failed")
    BY <1>19 DEF Tasks!NextRound, Tasks!auxVars, Tasks!Counted, Tasks!More, Tasks!Limit
  <2>2. /\ x8' \in [AgentRun -> 0..MaxRounds] /\ \A o \in AgentRun \ {r} : x8'[o] = x8[o]
        /\ x10 \in [AgentRun -> SUBSET {"decision", "verification"}]
    BY <1>1, <1>3, <2>1, RunsConstants DEF Tasks!RunsTypeOK
  <2>3. x3' = x3
    BY <1>7, <2>1
  <2>4. CASE x8'[r] < MaxRounds
    <3>1. Moves(r, "model")
      BY <1>3, <2>1, <2>2, <2>3, <2>4 DEF Moves
    <3> QED BY <2>1, <2>4, <3>1, StepDoes
  <2>5. CASE ~(x8'[r] < MaxRounds)
    <3>1. Moves(r, "failed")
      BY <1>3, <2>1, <2>2, <2>3 DEF Moves
    <3> QED BY <2>1, <2>5, <3>1, PauseDoes
  <2> QED BY <2>4, <2>5
<1>20. ASSUME Tasks!Throws(r) PROVE Does(r)
  <2>1. /\ x5[r] \in {"model", "tools", "noted"} \cup Tasks!Hidden /\ Tasks!Step(r, "caught")
        /\ UNCHANGED <<x9, x10, x8, x15, x16>>
    BY <1>20 DEF Tasks!Throws, Tasks!Waiting, Tasks!auxVars
  <2>2. x5[r] \notin Tasks!Terminal \cup {"idle", "writing", "caught"}
    BY <2>1 DEF Tasks!Hidden
  <2> QED BY <2>1, <2>2, <1>6, <1>7, StepDoes
<1>21. ASSUME Tasks!Catch(r) PROVE Does(r)
  <2>1. /\ x5[r] = "caught" /\ UNCHANGED <<x9, x10, x8, x15, x16>>
        /\ Tasks!PauseThen(r, "aborted") \/ Tasks!PauseThen(r, "failed")
    BY <1>21 DEF Tasks!Catch, Tasks!auxVars
  <2>2. x3' = x3
    BY <1>7, <2>1
  <2>3. ASSUME NEW label \in {"aborted", "failed"} PROVE Moves(r, label)
    BY <1>1, <1>3, <2>1, <2>2, <2>3 DEF Moves, Tasks!RunsTypeOK
  <2> QED BY <2>1, <2>3, PauseDoes
<1> QED
  BY <1>10, <1>11, <1>12, <1>13, <1>14, <1>16, <1>17, <1>18, <1>19, <1>20, <1>21 DEF Tasks!RunStep

-----------------------------------------------------------------------------
(* The other steps: a new task, the first step of a run, an abort, a write   *)
(* and a crash.                                                             *)

LEMMA PlanKeepsInv ==
  ASSUME Tasks!TaskInv, NEW r \in AgentRun, Tasks!Plan(r, "task")
  PROVE  Tasks!TaskInv'
<1> DEFINE new == [Tasks!Absent EXCEPT !.status = "planning", !.plan = 1]
<1> USE DEF Tasks!Terminal
<1>1. new \in Tasks!TaskRecord /\ new.status = "planning" /\ new.replans = 0 /\ new.plan = 1
  BY TaskKinds DEF Tasks!TaskRecord, Tasks!Absent
<1> HIDE DEF new
<1>2. Tasks!RunsTypeOK /\ Tasks!ControlInv /\ Tasks!CopiesInv /\ Tasks!DiskInv /\ Tasks!ReplansInv /\ Tasks!CompletedWasJudged /\ Tasks!NoneLeftRunning
  BY DEF Tasks!TaskInv
<1>3. PICK t \in Task :
        /\ x1[t] = Tasks!Absent /\ x5[r] = "planning"
        /\ x1' = [x1 EXCEPT ![t] = new] /\ x4' = Append(x4, r)
        /\ x5' = [x5 EXCEPT ![r] = "writing"] /\ x6' = [x6 EXCEPT ![r] = "ready"]
        /\ x9' = [x9 EXCEPT ![r].id = t] /\ x10' = [x10 EXCEPT ![r] = @ \cup {"decision"}]
        /\ UNCHANGED <<x3, x7, x8, x15, x16>>
  BY DEF Tasks!Plan, Tasks!Mutate, Tasks!Goto, Tasks!auxVars, new
<1>4. x1[t].status = "absent"
  BY <1>3, TaskKinds
<1>5. \A o \in Tasks!Alive : x9[o].id # t
  BY <1>2, <1>4 DEF Tasks!CopiesInv
<1>6. /\ x9'[r].id = t /\ x9' \in [AgentRun -> Tasks!TaskCopy] /\ x9'[r].status = x9[r].status
      /\ \A o \in AgentRun \ {r} : x9'[o] = x9[o]
  <2>1. x9[r] \in Tasks!TaskCopy /\ x9 \in [AgentRun -> Tasks!TaskCopy] /\ x9' = [x9 EXCEPT ![r] = [x9[r] EXCEPT !.id = t]]
    BY <1>2, <1>3 DEF Tasks!RunsTypeOK
  <2>2. LET copy == [x9[r] EXCEPT !.id = t]
        IN copy \in Tasks!TaskCopy /\ copy.id = t /\ copy.status = x9[r].status
    BY <2>1 DEF Tasks!TaskCopy
  <2> QED BY <2>1, <2>2
<1>7. /\ r \in Tasks!Alive /\ r \notin x7 /\ x9[r].id = NoTask /\ NoTask \notin Task
      /\ "verification" \notin x10'[r] /\ x8[r] < MaxRounds
  <2>1. Tasks!ControlOf(r)
    BY <1>2 DEF Tasks!ControlInv
  <2> QED BY <1>2, <1>3, <2>1, RunsConstants DEF Tasks!Alive, Tasks!ControlOf, Tasks!Leaving, Tasks!RunsTypeOK
<1>8. Tasks!RunsTypeOK'
  <2>1. \A i \in DOMAIN x4 : x4[i] # r
    BY <1>2, <1>3 DEF Tasks!RunsTypeOK
  <2>2. x4' \in Seq(AgentRun) /\ \A i, j \in DOMAIN x4' : x4'[i] = x4'[j] => i = j
    BY <1>2, <1>3, <2>1, LastOnce DEF Tasks!RunsTypeOK
  <2>3. \A i \in DOMAIN x4' : x5'[x4'[i]] = "writing"
    BY <1>2, <1>3 DEF Tasks!RunsTypeOK
  <2>4. x5' \in [AgentRun -> Tasks!Label] /\ x6' \in [AgentRun -> Tasks!Label] /\ x10' \in [AgentRun -> SUBSET {"decision", "verification"}]
    BY <1>2, <1>3 DEF Tasks!RunsTypeOK, Tasks!Label, Tasks!AfterWrite
  <2>5. {x1', x3'.tasks} \subseteq [Task -> Tasks!TaskRecord] /\ DOMAIN x3' = {"tasks", "recent"}
    BY <1>1, <1>2, <1>3 DEF Tasks!RunsTypeOK
  <2> QED BY <1>2, <1>3, <1>6, <2>2, <2>3, <2>4, <2>5 DEF Tasks!RunsTypeOK
<1>9. Tasks!ControlInv'
  <2> SUFFICES ASSUME NEW o \in AgentRun PROVE Tasks!ControlOf(o)'
    BY DEF Tasks!ControlInv, Tasks!ControlOf
  <2>1. CASE o = r
    BY <1>2, <1>3, <1>6, <1>7, <2>1, RunsConstants DEF Tasks!RunsTypeOK, Tasks!ControlInv, Tasks!ControlOf, Tasks!AfterWrite, Tasks!Judging, Tasks!Leaving, Tasks!Spent, Tasks!Alive
  <2>2. CASE o # r
    BY <1>2, <1>3, <1>6, <2>2 DEF Tasks!RunsTypeOK, Tasks!ControlInv, Tasks!ControlOf, Tasks!AfterWrite, Tasks!Judging, Tasks!Leaving, Tasks!Spent, Tasks!Alive
  <2> QED BY <2>1, <2>2
<1>10. Tasks!CopiesInv'
  <2>1. /\ x5'[r] = "writing" /\ x6'[r] = "ready" /\ x9'[r].id = t /\ x1'[t] = new
        /\ \A o \in AgentRun \ {r} : /\ x5'[o] = x5[o] /\ x6'[o] = x6[o] /\ x10'[o] = x10[o] /\ x9'[o] = x9[o]
                                     /\ (o \in Tasks!Alive => x9[o].id # t)
        /\ \A u \in Task \ {t} : x1'[u] = x1[u]
    BY <1>2, <1>3, <1>5, <1>6 DEF Tasks!RunsTypeOK
  <2>2. Tasks!Alive' = Tasks!Alive
    BY <1>7, <2>1 DEF Tasks!Alive
  <2>3. \A o \in Tasks!Alive' : x9'[o].id \in Task => x1'[x9'[o].id].status # "absent"
    BY <1>1, <1>2, <2>1, <2>2 DEF Tasks!CopiesInv, Tasks!Alive
  <2>4. \A o, q \in Tasks!Alive' : x9'[o].id = x9'[q].id /\ o # q => x9'[o].id \in x15' \cup {NoTask}
    BY <1>2, <1>3, <2>1, <2>2 DEF Tasks!CopiesInv, Tasks!Alive
  <2>5. ASSUME NEW o \in AgentRun, x9'[o].id \in Task \ x15'
        PROVE  /\ Tasks!Relies(o)' \/ (x5'[o] = "caught" /\ x9'[o].id \notin x16') => x9'[o] = Tasks!Snapshot(x9[o].id)'
               /\ Tasks!Leaving(o)' /\ x9'[o].id \notin x16' => x1'[x9'[o].id].status # "running"
    <3>1. CASE o = r
      BY <2>1, <3>1 DEF Tasks!Relies, Tasks!Leaving, Tasks!Refreshed
    <3>2. CASE o # r /\ o \notin Tasks!Alive
      BY <2>1, <3>2 DEF Tasks!Relies, Tasks!Leaving, Tasks!Alive
    <3>3. CASE o # r /\ o \in Tasks!Alive
      <4>1. /\ x9'[o] = x9[o] /\ x9[o].id \in Task \ x15 /\ x1'[x9[o].id] = x1[x9[o].id]
            /\ x5'[o] = x5[o] /\ x6'[o] = x6[o] /\ x10'[o] = x10[o] /\ x16' = x16
        BY <1>3, <2>1, <2>5, <3>3
      <4>2. Tasks!Snapshot(x9[o].id)' = Tasks!Snapshot(x9[o].id) /\ (Tasks!Relies(o)' <=> Tasks!Relies(o)) /\ (Tasks!Leaving(o)' <=> Tasks!Leaving(o))
        BY <4>1 DEF Tasks!Snapshot, Tasks!Relies, Tasks!Leaving, Tasks!Refreshed
      <4> QED BY <1>2, <4>1, <4>2 DEF Tasks!CopiesInv
    <3> QED BY <3>1, <3>2, <3>3
  <2> QED BY <2>3, <2>4, <2>5 DEF Tasks!CopiesInv
<1>11. Tasks!DiskInv'
  <2>1. ASSUME NEW o \in AgentRun, x9'[o].status = "completed"
        PROVE  x9'[o].id \in Task /\ x3'.tasks[x9'[o].id].status = "completed"
    <3>1. o # r
      BY <1>2, <1>3, <1>6, <2>1 DEF Tasks!ControlInv, Tasks!ControlOf
    <3> QED BY <1>2, <1>3, <1>6, <2>1, <3>1 DEF Tasks!DiskInv
  <2>2. \A u \in Task : u # t => x1'[u] = x1[u]
    BY <1>2, <1>3 DEF Tasks!RunsTypeOK
  <2>3. x3.tasks[t].status # "completed"
    BY <1>2, <1>4 DEF Tasks!DiskInv
  <2> QED BY <1>2, <1>3, <2>1, <2>2, <2>3 DEF Tasks!DiskInv
<1>12. Tasks!CompletedWasJudged' /\ Tasks!NoneLeftRunning'
  <2>1. \A u \in Task : IF u = t THEN x1'[u] = new ELSE x1'[u] = x1[u]
    BY <1>2, <1>3 DEF Tasks!RunsTypeOK
  <2>2. Tasks!CompletedWasJudged'
    BY <1>1, <1>2, <1>3, <2>1 DEF Tasks!CompletedWasJudged
  <2>3. \A o \in Tasks!Alive : o # r => o \in Tasks!Alive' /\ x9'[o] = x9[o]
    BY <1>2, <1>3, <1>6 DEF Tasks!Alive, Tasks!RunsTypeOK
  <2>4. Tasks!NoneLeftRunning'
    BY <1>1, <1>2, <1>3, <1>7, <2>1, <2>3 DEF Tasks!NoneLeftRunning, Tasks!ControlInv
  <2> QED BY <2>2, <2>4
<1>13. Tasks!ReplansInv'
  <2> SUFFICES ASSUME NEW u \in Task PROVE Tasks!ReplansOf(u)'
    BY DEF Tasks!ReplansInv
  <2>1. Tasks!ReplansOf(u) /\ x15' = x15 /\ x3' = x3
    BY <1>2, <1>3 DEF Tasks!ReplansInv
  <2>2. ~Tasks!Relies(r)'
    BY <1>2, <1>3 DEF Tasks!Relies, Tasks!Refreshed, Tasks!RunsTypeOK
  <2>3. Tasks!Behind(u)' \subseteq Tasks!Behind(u)
    BY <1>2, <1>3, <1>6, <2>2 DEF Tasks!Behind, Tasks!Relies, Tasks!Refreshed, Tasks!Spent, Tasks!RunsTypeOK
  <2>4. x1'[u].replans = x1[u].replans
    BY <1>1, <1>2, <1>3, TaskKinds DEF Tasks!RunsTypeOK
  <2> QED BY <1>2, <1>8, <2>1, <2>3, <2>4, ReplansKept
<1> QED BY <1>8, <1>9, <1>10, <1>11, <1>12, <1>13 DEF Tasks!TaskInv

LEMMA AbortKeepsInv ==
  ASSUME Tasks!TaskInv, NEW r \in AgentRun, Tasks!Abort(r)
  PROVE  Tasks!TaskInv'
<1>1. UNCHANGED <<Tasks!taskVars, Tasks!runVars, x15, x16>>
  BY DEF Tasks!Abort
<1> USE <1>1 DEF Tasks!TaskInv, Tasks!taskVars, Tasks!runVars
<1>2. Tasks!RunsTypeOK'
  BY DEF Tasks!RunsTypeOK
<1>3. Tasks!ControlInv'
  BY DEF Tasks!ControlInv, Tasks!ControlOf, Tasks!Leaving, Tasks!Judging, Tasks!Spent, Tasks!Alive
<1>4. Tasks!CopiesInv'
  BY DEF Tasks!CopiesInv, Tasks!Leaving, Tasks!Relies, Tasks!Refreshed, Tasks!Snapshot, Tasks!Alive
<1>5. Tasks!DiskInv'
  BY DEF Tasks!DiskInv
<1>6. Tasks!ReplansInv'
  BY DEF Tasks!ReplansInv, Tasks!ReplansOf, Tasks!Behind, Tasks!Relies, Tasks!Refreshed, Tasks!Spent
<1>7. Tasks!CompletedWasJudged' /\ Tasks!NoneLeftRunning'
  BY DEF Tasks!CompletedWasJudged, Tasks!NoneLeftRunning, Tasks!Alive
<1> QED BY <1>2, <1>3, <1>4, <1>5, <1>6, <1>7

LEMMA StartKeepsInv ==
  ASSUME Tasks!TaskInv, NEW r \in AgentRun, Tasks!Start(r)
  PROVE  Tasks!TaskInv'
<1> USE DEF Tasks!Terminal
<1>1. Tasks!RunsTypeOK /\ Tasks!ControlInv /\ Tasks!CopiesInv /\ Tasks!DiskInv /\ Tasks!ReplansInv /\ Tasks!CompletedWasJudged /\ Tasks!NoneLeftRunning
  BY DEF Tasks!TaskInv
<1>2. PICK t \in Task \cup {NoTask} :
        /\ t # NoTask => x1[t].status \in {"planning", "running", "paused", "blocked"}
        /\ x5[r] = "idle" /\ x5' = [x5 EXCEPT ![r] = "model"]
        /\ x9' = [x9 EXCEPT ![r] = IF t = NoTask THEN Tasks!Unseen ELSE Tasks!Snapshot(t)]
        /\ x15' = IF t # NoTask /\ \E o \in Tasks!Alive : x9[o].id = t THEN x15 \cup {t} ELSE x15
        /\ UNCHANGED <<x1, x3, x4, x6, x7, x8, x10, x16>>
  BY DEF Tasks!Start, Tasks!Step, Tasks!Goto, Tasks!taskVars, Tasks!Latest, Tasks!Resumable
<1>3. PICK copy \in Tasks!TaskCopy :
        /\ copy = IF t = NoTask THEN Tasks!Unseen ELSE Tasks!Snapshot(t)
        /\ copy.id = t /\ (t = NoTask => copy.status = "absent") /\ (t # NoTask => copy.status = x1[t].status)
  <2>1. CASE t = NoTask
    BY <2>1, TaskKinds
  <2>2. CASE t # NoTask
    <3>1. x1[t] \in Tasks!TaskRecord
      BY <1>1, <2>2 DEF Tasks!RunsTypeOK
    <3>2. Tasks!Snapshot(t) \in Tasks!TaskCopy /\ Tasks!Snapshot(t).id = t /\ Tasks!Snapshot(t).status = x1[t].status
      BY <3>1 DEF Tasks!Snapshot, Tasks!TaskCopy, Tasks!TaskRecord
    <3> QED BY <2>2, <3>2
  <2> QED BY <2>1, <2>2
<1>4. t # NoTask => copy = Tasks!Snapshot(t) /\ Tasks!Snapshot(t)' = Tasks!Snapshot(t) /\ copy.replans = x1[t].replans
  BY <1>2, <1>3 DEF Tasks!Snapshot
<1>5. Tasks!ControlOf(r)
  BY <1>1 DEF Tasks!ControlInv
<1>6. /\ x9'[r] = copy /\ x5'[r] = "model" /\ x10'[r] = {} /\ r \notin x7 /\ r \notin Tasks!Alive
      /\ \A o \in AgentRun \ {r} : x9'[o] = x9[o] /\ x5'[o] = x5[o]
  BY <1>1, <1>2, <1>3, <1>5 DEF Tasks!RunsTypeOK, Tasks!ControlOf, Tasks!Alive
<1>7. Tasks!Alive' = Tasks!Alive \cup {r} /\ x15 \subseteq x15' /\ x15' \subseteq x15 \cup {t}
  BY <1>2, <1>6 DEF Tasks!Alive
<1>8. Tasks!RunsTypeOK'
  <2>1. \A i \in DOMAIN x4' : x5'[x4'[i]] = "writing"
    BY <1>1, <1>2 DEF Tasks!RunsTypeOK
  <2>2. x15' \subseteq Task
    BY <1>1, <1>2 DEF Tasks!RunsTypeOK
  <2>3. x5' \in [AgentRun -> Tasks!Label] /\ x9' \in [AgentRun -> Tasks!TaskCopy]
    BY <1>1, <1>2, <1>3 DEF Tasks!RunsTypeOK, Tasks!Label
  <2> QED BY <1>1, <1>2, <2>1, <2>2, <2>3 DEF Tasks!RunsTypeOK
<1>9. Tasks!ControlInv'
  <2> SUFFICES ASSUME NEW o \in AgentRun PROVE Tasks!ControlOf(o)'
    BY DEF Tasks!ControlInv
  <2>1. CASE o = r
    BY <1>2, <1>3, <1>5, <1>6, <2>1 DEF Tasks!ControlOf, Tasks!Leaving
  <2>2. CASE o # r
    <3>1. Tasks!ControlOf(o) /\ (o \in Tasks!Alive' => o \in Tasks!Alive)
      BY <1>1, <1>7, <2>2 DEF Tasks!ControlInv
    <3> QED BY <1>2, <1>6, <2>2, <3>1 DEF Tasks!ControlOf, Tasks!Leaving, Tasks!Judging, Tasks!Spent
  <2> QED BY <2>1, <2>2
<1>10. Tasks!CopiesInv'
  <2>1. \A o \in Tasks!Alive' : x9'[o].id \in Task => x1'[x9'[o].id].status # "absent"
    <3>1. ASSUME NEW o \in Tasks!Alive, o # r PROVE x9'[o].id \in Task => x1'[x9'[o].id].status # "absent"
      BY <1>1, <1>2, <1>6, <3>1 DEF Tasks!CopiesInv, Tasks!Alive
    <3>2. x9'[r].id \in Task => x1'[x9'[r].id].status # "absent"
      BY <1>2, <1>3, <1>6, RunsConstants
    <3> QED BY <1>7, <3>1, <3>2
  <2>2. ASSUME NEW o \in Tasks!Alive', NEW q \in Tasks!Alive', x9'[o].id = x9'[q].id, o # q
        PROVE  x9'[o].id \in x15' \cup {NoTask}
    <3>1. CASE o # r /\ q # r
      BY <1>1, <1>6, <1>7, <2>2, <3>1 DEF Tasks!CopiesInv, Tasks!Alive
    <3>2. CASE o = r \/ q = r
      BY <1>2, <1>3, <1>6, <1>7, <2>2, <3>2 DEF Tasks!Alive
    <3> QED BY <3>1, <3>2
  <2>3. ASSUME NEW o \in AgentRun, NEW u \in Task \ x15', x9'[o].id = u
        PROVE  /\ Tasks!Relies(o)' \/ (x5'[o] = "caught" /\ u \notin x16') => x9'[o] = Tasks!Snapshot(u)'
               /\ Tasks!Leaving(o)' /\ u \notin x16' => x1'[u].status # "running"
    <3>1. CASE o = r
      BY <1>3, <1>4, <1>6, <2>3, <3>1, RunsConstants DEF Tasks!Leaving
    <3>2. CASE o # r
      <4>1. /\ x9'[o] = x9[o] /\ x9[o].id \in Task \ x15 /\ UNCHANGED <<x1, x6, x10, x16>>
            /\ x5'[o] = x5[o]
        BY <1>2, <1>6, <1>7, <2>3, <3>2
      <4>2. Tasks!Snapshot(u)' = Tasks!Snapshot(u) /\ (Tasks!Relies(o)' <=> Tasks!Relies(o)) /\ (Tasks!Leaving(o)' <=> Tasks!Leaving(o))
        BY <4>1 DEF Tasks!Snapshot, Tasks!Relies, Tasks!Leaving, Tasks!Refreshed
      <4> QED BY <1>1, <2>3, <4>1, <4>2 DEF Tasks!CopiesInv
    <3> QED BY <3>1, <3>2
  <2>4. \A o \in AgentRun : x9'[o].id \in Task \ x15' =>
          /\ Tasks!Relies(o)' \/ (x5'[o] = "caught" /\ x9'[o].id \notin x16') => x9'[o] = Tasks!Snapshot(x9[o].id)'
          /\ Tasks!Leaving(o)' /\ x9'[o].id \notin x16' => x1'[x9'[o].id].status # "running"
    BY <2>3
  <2> QED BY <2>1, <2>2, <2>4 DEF Tasks!CopiesInv
<1>11. Tasks!DiskInv'
  BY <1>1, <1>2, <1>3, <1>6, <1>7 DEF Tasks!DiskInv
<1>12. Tasks!CompletedWasJudged' /\ Tasks!NoneLeftRunning'
  <2>1. Tasks!NoneLeftRunning'
    <3>1. \A o \in Tasks!Alive : o \in Tasks!Alive' /\ x9'[o] = x9[o]
      BY <1>6, <1>7 DEF Tasks!Alive
    <3> QED BY <1>1, <1>2, <1>7, <3>1 DEF Tasks!NoneLeftRunning
  <2> QED BY <1>1, <1>2, <1>7, <2>1 DEF Tasks!CompletedWasJudged
<1>13. Tasks!ReplansInv'
  <2> SUFFICES ASSUME NEW u \in Task PROVE Tasks!ReplansOf(u)'
    BY DEF Tasks!ReplansInv
  <2>1. Tasks!ReplansOf(u) /\ UNCHANGED <<x1, x3>>
    BY <1>1, <1>2 DEF Tasks!ReplansInv
  <2>2. /\ \A o \in AgentRun \ {r} : (Tasks!Relies(o)' <=> Tasks!Relies(o)) /\ (Tasks!Spent(o)' <=> Tasks!Spent(o))
        /\ x1[u].replans \in Nat /\ x3.tasks[u].replans \in Nat /\ MaxReplans \in Nat
    BY <1>1, <1>2, <1>6, RunsConstants DEF Tasks!Relies, Tasks!Refreshed, Tasks!Spent, Tasks!RunsTypeOK, Tasks!TaskRecord
  <2>3. x1[u].replans >= MaxReplans => Tasks!Behind(u)' \subseteq Tasks!Behind(u) /\ r \notin Tasks!Behind(u)'
    <3>1. x1[u].replans >= MaxReplans => r \notin Tasks!Behind(u)'
      BY <1>3, <1>4, <1>6, RunsConstants DEF Tasks!Behind, Tasks!Spent
    <3> QED BY <1>6, <2>2, <3>1 DEF Tasks!Behind
  <2>4. /\ Tasks!Cardinality(AgentRun) \in Nat /\ Tasks!Cardinality(Tasks!Behind(u)) \in Nat /\ Tasks!Cardinality(Tasks!Behind(u)') \in Nat
        /\ (Tasks!Behind(u)' \subseteq Tasks!Behind(u) => Tasks!Cardinality(Tasks!Behind(u)') <= Tasks!Cardinality(Tasks!Behind(u)))
        /\ (r \notin Tasks!Behind(u)' => Tasks!Cardinality(Tasks!Behind(u)') < Tasks!Cardinality(AgentRun))
        /\ Tasks!Cardinality(AgentRun) > 0
    <3>1. /\ Tasks!Behind(u) \in SUBSET AgentRun /\ Tasks!Behind(u)' \in SUBSET AgentRun /\ AgentRun \in SUBSET AgentRun
          /\ {} \in SUBSET AgentRun /\ r \notin {}
      BY DEF Tasks!Behind
    <3> QED BY <3>1, Counting, TasksCardinality, FS_EmptySet
  <2>5. CASE u \notin x15'
    BY <1>7, <2>1, <2>5 DEF Tasks!ReplansOf
  <2>6. CASE u \in x15' /\ u \in x15
    <3> HIDE DEF Tasks!Behind
    <3> QED BY <2>1, <2>2, <2>3, <2>4, <2>6 DEF Tasks!ReplansOf
  <2>7. CASE u \in x15' /\ u \notin x15
    <3> HIDE DEF Tasks!Behind
    <3> QED BY <2>1, <2>2, <2>3, <2>4, <2>7 DEF Tasks!ReplansOf
  <2> QED BY <2>5, <2>6, <2>7
<1> QED BY <1>8, <1>9, <1>10, <1>11, <1>12, <1>13 DEF Tasks!TaskInv

LEMMA WriteKeepsInv ==
  ASSUME Tasks!TaskInv, NEW ok \in BOOLEAN, Tasks!Written(ok)
  PROVE  Tasks!TaskInv'
<1> USE DEF Tasks!Terminal
<1>1. Tasks!RunsTypeOK /\ Tasks!ControlInv /\ Tasks!CopiesInv /\ Tasks!DiskInv /\ Tasks!ReplansInv /\ Tasks!CompletedWasJudged /\ Tasks!NoneLeftRunning
  BY DEF Tasks!TaskInv
<1>2. PICK r \in AgentRun : r = Head(x4)
  BY <1>1 DEF Tasks!Written, Tasks!RunsTypeOK
<1>3. PICK next \in Tasks!Label :
        /\ next = IF ok \/ r \in x7 THEN x6[r] ELSE "caught"
        /\ x5' = [x5 EXCEPT ![r] = next]
  BY <1>1, <1>2 DEF Tasks!Written, Tasks!Goto, Tasks!Label, Tasks!RunsTypeOK
<1>4. PICK copy \in Tasks!TaskCopy :
        /\ copy = (IF ok /\ Tasks!Refreshed(r) THEN Tasks!Snapshot(x9[r].id) ELSE x9[r])
        /\ x9' = [x9 EXCEPT ![r] = copy]
  <2>1. x9[r] \in Tasks!TaskCopy /\ x9 = [x9 EXCEPT ![r] = x9[r]]
    BY <1>1 DEF Tasks!RunsTypeOK
  <2>2. x9[r].id \in Task /\ x1[x9[r].id] \in Tasks!TaskRecord
    BY <1>1, <1>2 DEF Tasks!RunsTypeOK, Tasks!ControlInv, Tasks!ControlOf, Tasks!Written
  <2>3. Tasks!Snapshot(x9[r].id) \in Tasks!TaskCopy
    BY <2>2 DEF Tasks!Snapshot, Tasks!TaskCopy, Tasks!TaskRecord
  <2> QED BY <1>2, <2>1, <2>3 DEF Tasks!Written
<1>5. PICK t \in Task : t = x9[r].id /\ copy.id = t
  BY <1>1, <1>2, <1>4 DEF Tasks!RunsTypeOK, Tasks!ControlInv, Tasks!ControlOf, Tasks!Written, Tasks!Snapshot
<1>6. /\ UNCHANGED <<x1, x6, x8, x10, x15>> /\ x7' = x7 \ {r} /\ x4' = Tail(x4) /\ x4 # <<>>
      /\ (ok => x16' = x16 /\ x3' = [tasks |-> x1, recent |-> x2])
      /\ (~ok => x16' = x16 \cup {t} /\ x3' = x3)
  BY <1>2, <1>5 DEF Tasks!Written
<1>7. /\ x5[r] = "writing" /\ Tasks!ControlOf(r) /\ x6[r] \in Tasks!AfterWrite /\ r \in Tasks!Alive
      /\ x5'[r] = next /\ x9'[r] = copy
      /\ \A o \in AgentRun \ {r} : x5'[o] = x5[o] /\ x9'[o] = x9[o]
  BY <1>1, <1>2, <1>3, <1>4, <1>6 DEF Tasks!RunsTypeOK, Tasks!ControlInv, Tasks!ControlOf, Tasks!Alive
<1>8. Tasks!Alive' \subseteq Tasks!Alive /\ (Tasks!Alive' = Tasks!Alive \/ (Tasks!Alive' = Tasks!Alive \ {r} /\ next \in Tasks!Terminal))
  BY <1>3, <1>7 DEF Tasks!Alive, Tasks!AfterWrite
<1>9. Tasks!RunsTypeOK'
  <2>1. /\ x4' \in Seq(AgentRun) /\ \A i, j \in DOMAIN x4' : x4'[i] = x4'[j] => i = j
        /\ \A i \in DOMAIN x4' : x4'[i] # r /\ \E j \in DOMAIN x4 : x4'[i] = x4[j]
    <3>1. x4 \in Seq(AgentRun) /\ x4 # <<>> /\ \A i, j \in DOMAIN x4 : x4[i] = x4[j] => i = j
      BY <1>1, <1>6 DEF Tasks!RunsTypeOK
    <3>2. /\ Tail(x4) \in Seq(AgentRun)
          /\ \A i \in DOMAIN Tail(x4) : i + 1 \in DOMAIN x4 /\ Tail(x4)[i] = x4[i + 1] /\ Tail(x4)[i] # Head(x4)
          /\ \A i, j \in DOMAIN Tail(x4) : Tail(x4)[i] = Tail(x4)[j] => i = j
      BY <3>1, FirstOnce
    <3> QED BY <1>2, <1>6, <3>2
  <2>2. \A i \in DOMAIN x4' : x5'[x4'[i]] = "writing"
    <3>1. \A i \in DOMAIN x4' : x4'[i] \in AgentRun \ {r} /\ x5[x4'[i]] = "writing"
      BY <1>1, <2>1 DEF Tasks!RunsTypeOK
    <3> QED BY <1>7, <3>1
  <2>3. {x1', x3'.tasks} \subseteq [Task -> Tasks!TaskRecord] /\ DOMAIN x3' = {"tasks", "recent"}
    BY <1>1, <1>6 DEF Tasks!RunsTypeOK
  <2>4. x5' \in [AgentRun -> Tasks!Label] /\ x9' \in [AgentRun -> Tasks!TaskCopy] /\ x7' \subseteq AgentRun
    BY <1>1, <1>3, <1>4, <1>6 DEF Tasks!RunsTypeOK
  <2> QED BY <1>1, <1>6, <2>1, <2>2, <2>3, <2>4 DEF Tasks!RunsTypeOK
\* Where the run goes on, by what became of the write.
<1>10. /\ next \in Tasks!AfterWrite \cup {"caught"} /\ t \in Task /\ copy.id = t /\ x16 \subseteq x16'
       /\ ok => /\ next = x6[r] /\ x16' = x16 /\ x3'.tasks = x1
                /\ copy = (IF Tasks!Refreshed(r) THEN Tasks!Snapshot(t) ELSE x9[r])
       /\ ~ok => /\ next \in {x6[r], "caught"} /\ t \in x16' /\ copy = x9[r] /\ x3' = x3
                 /\ next # "caught" => x6[r] \in Tasks!Terminal \/ "verification" \in x10[r]
  <2>1. r \in x7 => x6[r] \in Tasks!Terminal \/ "verification" \in x10[r]
    BY <1>7 DEF Tasks!ControlOf, Tasks!Leaving
  <2> QED BY <1>3, <1>4, <1>5, <1>6, <1>7, <2>1
<1>11. next \notin {"writing", "idle", "model", "planning", "verifying", "replanning"}
  BY <1>10 DEF Tasks!AfterWrite
\* What the run relies on now it relied on, or it has read just now.
<1>12. Tasks!Relies(r)' => ok /\ (IF Tasks!Refreshed(r) THEN copy = Tasks!Snapshot(t) ELSE Tasks!Relies(r) /\ copy = x9[r])
  <2>1. Tasks!Relies(r)' => next \notin Tasks!Terminal \cup {"caught"} /\ "verification" \notin x10[r]
    BY <1>6, <1>7 DEF Tasks!Relies
  <2>2. ~Tasks!Refreshed(r) /\ "verification" \notin x10[r] => Tasks!Relies(r)
    BY <1>7 DEF Tasks!Relies
  <2> QED BY <1>10, <2>1, <2>2
<1>13. \A o \in AgentRun \ {r} : (Tasks!Relies(o)' <=> Tasks!Relies(o)) /\ (Tasks!Leaving(o)' <=> Tasks!Leaving(o)) /\ (Tasks!Spent(o)' <=> Tasks!Spent(o))
  BY <1>6, <1>7 DEF Tasks!Relies, Tasks!Leaving, Tasks!Refreshed, Tasks!Spent
<1>14. ~Tasks!Leaving(r)' /\ r \notin x7'
  BY <1>6, <1>7, <1>11 DEF Tasks!Leaving
<1>15. Tasks!ControlInv'
  <2> SUFFICES ASSUME NEW o \in AgentRun PROVE Tasks!ControlOf(o)'
    BY DEF Tasks!ControlInv
  <2>1. CASE o = r
    <3>1. x9'[r].id = t /\ t # NoTask /\ t \in Task /\ x10' = x10 /\ x8' = x8
      BY <1>6, <1>7, <1>10, RunsConstants
    <3>2. next = "judged" => ok /\ ~Tasks!Refreshed(r) /\ Tasks!Judging(r) /\ copy = x9[r]
      <4>1. next = "judged" => x6[r] = "judged" /\ "judged" \notin Tasks!Terminal
        BY <1>10
      <4>2. x6[r] = "judged" => Tasks!Judging(r) /\ ~Tasks!Refreshed(r)
        BY <1>7 DEF Tasks!ControlOf, Tasks!Refreshed
      <4> QED BY <1>10, <4>1, <4>2 DEF Tasks!Judging
    <3>3. "verification" \in x10[r] => next \in Tasks!Terminal \/ t \in x16'
      BY <1>5, <1>7, <1>10 DEF Tasks!ControlOf, Tasks!Leaving
    <3>4. x8[r] < MaxRounds \/ next \in Tasks!Terminal \cup {"caught"}
      BY <1>7, <1>10 DEF Tasks!ControlOf, Tasks!Leaving
    <3> QED BY <1>7, <1>11, <1>14, <2>1, <3>1, <3>2, <3>3, <3>4 DEF Tasks!ControlOf, Tasks!Judging, Tasks!Alive
  <2>2. CASE o # r
    <3>1. Tasks!ControlOf(o) /\ (o \in Tasks!Alive' => o \in Tasks!Alive)
      BY <1>1, <1>8, <2>2 DEF Tasks!ControlInv
    <3> QED BY <1>6, <1>7, <1>10, <2>2, <3>1 DEF Tasks!ControlOf, Tasks!Leaving, Tasks!Judging, Tasks!Spent
  <2> QED BY <2>1, <2>2
<1>16. Tasks!CopiesInv'
  <2>1. \A o \in AgentRun : x9'[o].id = x9[o].id
    BY <1>5, <1>7
  <2>2. \A o \in Tasks!Alive' : x9'[o].id \in Task => x1'[x9'[o].id].status # "absent"
    BY <1>1, <1>6, <1>8, <2>1 DEF Tasks!CopiesInv, Tasks!Alive
  <2>3. \A o, q \in Tasks!Alive' : x9'[o].id = x9'[q].id /\ o # q => x9'[o].id \in x15' \cup {NoTask}
    BY <1>1, <1>6, <1>8, <2>1 DEF Tasks!CopiesInv, Tasks!Alive
  <2>4. ASSUME NEW o \in AgentRun, NEW u \in Task \ x15', x9'[o].id = u
        PROVE  /\ Tasks!Relies(o)' \/ (x5'[o] = "caught" /\ u \notin x16') => x9'[o] = Tasks!Snapshot(u)'
               /\ Tasks!Leaving(o)' /\ u \notin x16' => x1'[u].status # "running"
    <3>1. Tasks!Snapshot(u)' = Tasks!Snapshot(u) /\ x1' = x1 /\ x15' = x15 /\ x9[o].id = u
      BY <1>6, <2>1, <2>4 DEF Tasks!Snapshot
    <3>2. CASE o = r
      <4>1. Tasks!Relies(r) => x9[r] = Tasks!Snapshot(u)
        BY <1>1, <2>4, <3>1, <3>2 DEF Tasks!CopiesInv
      <4>2. u = t /\ ~(x5'[r] = "caught" /\ u \notin x16')
        BY <1>5, <1>7, <1>10, <3>1, <3>2 DEF Tasks!AfterWrite
      <4> QED BY <1>7, <1>12, <1>14, <3>1, <3>2, <4>1, <4>2
    <3>3. CASE o # r
      BY <1>1, <1>7, <1>10, <1>13, <2>4, <3>1, <3>3 DEF Tasks!CopiesInv
    <3> QED BY <3>2, <3>3
  <2>5. \A o \in AgentRun : x9'[o].id \in Task \ x15' =>
          /\ Tasks!Relies(o)' \/ (x5'[o] = "caught" /\ x9'[o].id \notin x16') => x9'[o] = Tasks!Snapshot(x9[o].id)'
          /\ Tasks!Leaving(o)' /\ x9'[o].id \notin x16' => x1'[x9'[o].id].status # "running"
    BY <2>1, <2>4
  <2> QED BY <2>1, <2>2, <2>3, <2>5 DEF Tasks!CopiesInv
<1>17. Tasks!DiskInv'
  <2>1. ASSUME NEW o \in AgentRun, x9'[o].status = "completed"
        PROVE  x9'[o].id \in Task /\ x3'.tasks[x9'[o].id].status = "completed"
    <3>1. CASE x9'[o] = x9[o]
      BY <1>1, <1>10, <2>1, <3>1 DEF Tasks!DiskInv
    <3>2. CASE o = r /\ ok /\ copy = Tasks!Snapshot(t)
      BY <1>7, <1>10, <2>1, <3>2 DEF Tasks!Snapshot
    <3> QED BY <1>7, <1>10, <3>1, <3>2
  <2>2. CASE ok
    BY <1>1, <1>6, <1>10, <2>1, <2>2 DEF Tasks!DiskInv, Tasks!CompletedWasJudged
  <2>3. CASE ~ok
    BY <1>1, <1>6, <1>10, <2>1, <2>3 DEF Tasks!DiskInv
  <2> QED BY <2>2, <2>3
<1>18. Tasks!CompletedWasJudged' /\ Tasks!NoneLeftRunning'
  <2>1. Tasks!CompletedWasJudged'
    BY <1>1, <1>6 DEF Tasks!CompletedWasJudged
  <2>2. next \in Tasks!Terminal => t \in x16' \cup x15 \/ x1[t].status # "running"
    <3>1. ok /\ next \in Tasks!Terminal => Tasks!Leaving(r)
      BY <1>7, <1>10 DEF Tasks!Leaving
    <3> QED BY <1>1, <1>5, <1>10, <3>1 DEF Tasks!CopiesInv
  <2>3. ASSUME NEW u \in Task, x1'[u].status = "running"
        PROVE  (\E o \in Tasks!Alive' : x9'[o].id = u) \/ u \in x16' \cup x15'
    <3>1. CASE u \in x16 \cup x15
      BY <1>6, <1>10, <3>1
    <3>2. ASSUME NEW o \in Tasks!Alive, x9[o].id = u
          PROVE  (\E p \in Tasks!Alive' : x9'[p].id = u) \/ u \in x16' \cup x15'
      <4>1. CASE o \in Tasks!Alive'
        BY <1>5, <1>7, <3>2, <4>1 DEF Tasks!Alive
      <4>2. CASE o \notin Tasks!Alive'
        BY <1>5, <1>6, <1>8, <2>2, <2>3, <3>2, <4>2
      <4> QED BY <4>1, <4>2
    <3> QED BY <1>1, <1>6, <2>3, <3>1, <3>2 DEF Tasks!NoneLeftRunning
  <2> QED BY <2>1, <2>3 DEF Tasks!NoneLeftRunning
<1>19. Tasks!ReplansInv'
  <2> SUFFICES ASSUME NEW u \in Task PROVE Tasks!ReplansOf(u)'
    BY DEF Tasks!ReplansInv
  <2>1. Tasks!ReplansOf(u) /\ x15' = x15 /\ x1' = x1 /\ x3'.tasks[u].replans \in {x1[u].replans, x3.tasks[u].replans}
    BY <1>1, <1>6, <1>10 DEF Tasks!ReplansInv
  <2>2. x1[u].replans \in Nat /\ MaxReplans \in Nat
    BY <1>1, RunsConstants DEF Tasks!RunsTypeOK, Tasks!TaskRecord
  <2>3. x1[u].replans >= MaxReplans => (r \in Tasks!Behind(u)' => r \in Tasks!Behind(u))
    <3>1. ASSUME r \in Tasks!Behind(u)', x1[u].replans >= MaxReplans PROVE r \in Tasks!Behind(u)
      <4>1. Tasks!Relies(r)' /\ t = u /\ ~(copy.replans >= MaxReplans)
        BY <1>5, <1>7, <3>1 DEF Tasks!Behind, Tasks!Spent
      <4>2. copy # Tasks!Snapshot(u)
        BY <3>1, <4>1 DEF Tasks!Snapshot
      <4> QED BY <1>5, <1>12, <4>1, <4>2 DEF Tasks!Behind, Tasks!Spent
    <3> QED BY <3>1
  <2>4. \A o \in AgentRun \ {r} : o \in Tasks!Behind(u)' => o \in Tasks!Behind(u)
    BY <1>7, <1>13 DEF Tasks!Behind
  <2>5. Tasks!Behind(u)' \subseteq AgentRun
    BY DEF Tasks!Behind
  <2>6. Tasks!Behind(u)' \subseteq Tasks!Behind(u) \/ x1[u].replans < MaxReplans
    BY <2>2, <2>3, <2>4, <2>5
  <2> QED BY <1>1, <1>9, <2>1, <2>6, ReplansKept
<1> QED BY <1>9, <1>15, <1>16, <1>17, <1>18, <1>19 DEF Tasks!TaskInv

LEMMA RestartKeepsInv ==
  ASSUME Tasks!TaskInv, Tasks!Restart
  PROVE  Tasks!TaskInv'
<1>1. Tasks!RunsTypeOK /\ Tasks!ControlInv /\ Tasks!CopiesInv /\ Tasks!DiskInv /\ Tasks!ReplansInv
  BY DEF Tasks!TaskInv
<1>2. /\ UNCHANGED <<x6, x8, x9, x10, x15, x16>> /\ x4' = <<>> /\ x7' = {}
      /\ x5' = [r \in AgentRun |-> IF r \in Tasks!Alive THEN "lost" ELSE x5[r]]
      /\ x3' = [x3 EXCEPT !.tasks = x1']
      /\ x1' = [t \in Task |-> IF x3.tasks[t].status \in {"planning", "running"}
                                  THEN [x3.tasks[t] EXCEPT !.status = "paused"] ELSE x3.tasks[t]]
  BY DEF Tasks!Restart
\* What is read back: as it was on disk, but not underway.
<1>3. ASSUME NEW t \in Task
      PROVE  /\ x1'[t] \in Tasks!TaskRecord /\ x1'[t].replans = x3.tasks[t].replans
             /\ x1'[t].status \notin {"planning", "running"}
             /\ x3.tasks[t].status = "completed" => x1'[t] = x3.tasks[t]
             /\ x1'[t].status = "completed" => x1'[t] = x3.tasks[t]
  <2>1. x3.tasks[t] \in Tasks!TaskRecord
    BY <1>1 DEF Tasks!RunsTypeOK
  <2>2. CASE x3.tasks[t].status \in {"planning", "running"}
    <3>1. x1'[t] = [x3.tasks[t] EXCEPT !.status = "paused"]
      BY <1>2, <2>2
    <3>2. x1'[t] \in Tasks!TaskRecord /\ x1'[t].status = "paused" /\ x1'[t].replans = x3.tasks[t].replans
      BY <2>1, <3>1, TaskKinds DEF Tasks!TaskRecord
    <3> QED BY <2>2, <3>2
  <2>3. CASE x3.tasks[t].status \notin {"planning", "running"}
    BY <1>2, <2>1, <2>3
  <2> QED BY <2>2, <2>3
<1>4. x3'.tasks = x1' /\ DOMAIN x3' = {"tasks", "recent"}
  BY <1>1, <1>2 DEF Tasks!RunsTypeOK
<1>5. \A r \in AgentRun : /\ x5'[r] \in Tasks!Terminal \cup {"idle"} /\ (x5'[r] = "idle" => x5[r] = "idle")
                          /\ ~Tasks!Relies(r)' /\ ~Tasks!Leaving(r)'
  <2>1. \A r \in AgentRun : x5'[r] \in Tasks!Terminal \cup {"idle"} /\ (x5'[r] = "idle" => x5[r] = "idle")
    BY <1>2 DEF Tasks!Alive, Tasks!Terminal
  <2> QED BY <2>1 DEF Tasks!Relies, Tasks!Leaving, Tasks!Terminal
<1>6. Tasks!Alive' = {} /\ \A t \in Task : Tasks!Behind(t)' = {}
  BY <1>5 DEF Tasks!Alive, Tasks!Behind
<1>7. Tasks!RunsTypeOK'
  <2>1. x1' \in [Task -> Tasks!TaskRecord]
    BY <1>2, <1>3
  <2>2. x5' \in [AgentRun -> Tasks!Label]
    BY <1>1, <1>2 DEF Tasks!RunsTypeOK, Tasks!Label, Tasks!AfterWrite, Tasks!Terminal
  <2> QED BY <1>1, <1>2, <1>4, <2>1, <2>2 DEF Tasks!RunsTypeOK
<1>8. Tasks!ControlInv'
  <2> SUFFICES ASSUME NEW r \in AgentRun PROVE Tasks!ControlOf(r)'
    BY DEF Tasks!ControlInv
  <2>1. Tasks!ControlOf(r)
    BY <1>1 DEF Tasks!ControlInv
  <2> QED BY <1>2, <1>5, <1>6, <2>1 DEF Tasks!ControlOf, Tasks!Leaving, Tasks!Terminal
<1>9. Tasks!CopiesInv'
  BY <1>5, <1>6 DEF Tasks!CopiesInv, Tasks!Terminal
<1>10. Tasks!DiskInv'
  BY <1>1, <1>2, <1>3, <1>4 DEF Tasks!DiskInv
<1>11. Tasks!CompletedWasJudged' /\ Tasks!NoneLeftRunning'
  BY <1>1, <1>2, <1>3 DEF Tasks!CompletedWasJudged, Tasks!NoneLeftRunning, Tasks!DiskInv
<1>12. Tasks!ReplansInv'
  <2> SUFFICES ASSUME NEW t \in Task PROVE Tasks!ReplansOf(t)'
    BY DEF Tasks!ReplansInv
  <2>1. Tasks!ReplansOf(t) /\ x15' = x15 /\ x1'[t].replans = x3.tasks[t].replans /\ x3'.tasks[t].replans = x3.tasks[t].replans
    BY <1>1, <1>2, <1>3, <1>4 DEF Tasks!ReplansInv
  <2>2. Tasks!Cardinality(Tasks!Behind(t)') = 0 /\ x3.tasks[t].replans \in Nat
    BY <1>1, <1>6, TasksCardinality, FS_EmptySet DEF Tasks!RunsTypeOK, Tasks!TaskRecord
  <2> HIDE DEF Tasks!Behind
  <2> QED BY <2>1, <2>2 DEF Tasks!ReplansOf
<1> QED BY <1>7, <1>8, <1>9, <1>10, <1>11, <1>12 DEF Tasks!TaskInv

-----------------------------------------------------------------------------
(* What follows for every behaviour.                                        *)

LEMMA TaskInit == Tasks!Init => Tasks!TaskInv
<1> SUFFICES ASSUME Tasks!Init PROVE Tasks!TaskInv
  OBVIOUS
<1>1. /\ x1 = [t \in Task |-> Tasks!Absent] /\ x3.tasks = x1 /\ DOMAIN x3 = {"tasks", "recent"} /\ x4 = <<>>
      /\ x5 = [r \in AgentRun |-> "idle"] /\ x6 = [r \in AgentRun |-> "idle"] /\ x7 = {}
      /\ x8 = [r \in AgentRun |-> 0] /\ x9 = [r \in AgentRun |-> Tasks!Unseen] /\ x10 = [r \in AgentRun |-> {}] /\ x15 = {}
  BY DEF Tasks!Init
<1>2. Tasks!RunsTypeOK
  BY <1>1, TaskKinds, RunsConstants DEF Tasks!RunsTypeOK, Tasks!Label
<1>3. \A r \in AgentRun : ~Tasks!Relies(r) /\ ~Tasks!Leaving(r) /\ r \notin Tasks!Alive /\ x9[r].id = NoTask /\ x9[r].status = "absent"
  BY <1>1, TaskKinds DEF Tasks!Relies, Tasks!Leaving, Tasks!Alive
<1>4. Tasks!ControlInv
  BY <1>1, <1>3, RunsConstants DEF Tasks!ControlInv, Tasks!ControlOf
<1>5. Tasks!CopiesInv
  BY <1>1, <1>3, RunsConstants DEF Tasks!CopiesInv, Tasks!Alive
<1>6. \A t \in Task : x1[t] = Tasks!Absent /\ x3.tasks[t] = Tasks!Absent /\ Tasks!Absent.status = "absent" /\ Tasks!Absent.replans = 0
  BY <1>1, TaskKinds
<1>7. Tasks!DiskInv /\ Tasks!CompletedWasJudged /\ Tasks!NoneLeftRunning
  BY <1>3, <1>6 DEF Tasks!DiskInv, Tasks!CompletedWasJudged, Tasks!NoneLeftRunning
<1>8. Tasks!ReplansInv
  BY <1>1, <1>6, RunsConstants DEF Tasks!ReplansInv, Tasks!ReplansOf
<1> QED BY <1>2, <1>4, <1>5, <1>7, <1>8 DEF Tasks!TaskInv

LEMMA TaskStep == Tasks!TaskInv /\ [Tasks!Next]_(Tasks!vars) => Tasks!TaskInv'
<1> SUFFICES ASSUME Tasks!TaskInv, [Tasks!Next]_(Tasks!vars) PROVE Tasks!TaskInv'
  OBVIOUS
<1>1. ASSUME NEW r \in AgentRun, Tasks!Start(r) PROVE Tasks!TaskInv'
  BY <1>1, StartKeepsInv
<1>2. ASSUME NEW r \in AgentRun, Tasks!RunStep(r) PROVE Tasks!TaskInv'
  BY <1>2, RunStepDoes, MovesKeepInv, PlanKeepsInv
<1>3. ASSUME NEW r \in AgentRun, Tasks!Abort(r) PROVE Tasks!TaskInv'
  BY <1>3, AbortKeepsInv
<1>4. ASSUME NEW ok \in BOOLEAN, Tasks!Written(ok) PROVE Tasks!TaskInv'
  BY <1>4, WriteKeepsInv
<1>5. CASE Tasks!Restart
  BY <1>5, RestartKeepsInv
<1>6. CASE UNCHANGED Tasks!vars
  <2> USE <1>6 DEF Tasks!TaskInv, Tasks!vars, Tasks!taskVars, Tasks!runVars, Tasks!auxVars
  <2>1. Tasks!RunsTypeOK'
    BY DEF Tasks!RunsTypeOK
  <2>2. Tasks!ControlInv'
    BY DEF Tasks!ControlInv, Tasks!ControlOf, Tasks!Leaving, Tasks!Judging, Tasks!Spent, Tasks!Alive
  <2>3. Tasks!CopiesInv'
    BY DEF Tasks!CopiesInv, Tasks!Leaving, Tasks!Relies, Tasks!Refreshed, Tasks!Snapshot, Tasks!Alive
  <2>4. Tasks!DiskInv'
    BY DEF Tasks!DiskInv
  <2>5. Tasks!ReplansInv'
    BY DEF Tasks!ReplansInv, Tasks!ReplansOf, Tasks!Behind, Tasks!Relies, Tasks!Refreshed, Tasks!Spent
  <2>6. Tasks!CompletedWasJudged' /\ Tasks!NoneLeftRunning'
    BY DEF Tasks!CompletedWasJudged, Tasks!NoneLeftRunning, Tasks!Alive
  <2> QED BY <2>1, <2>2, <2>3, <2>4, <2>5, <2>6
<1> QED BY <1>1, <1>2, <1>3, <1>4, <1>5, <1>6 DEF Tasks!Next

LEMMA InvIsHonest == Tasks!TaskInv => Tasks!TasksAreHonest
<1> SUFFICES ASSUME Tasks!TaskInv PROVE Tasks!TasksAreHonest
  OBVIOUS
<1>1. Tasks!RunsTypeOK /\ Tasks!DiskInv /\ Tasks!ReplansInv /\ Tasks!CompletedWasJudged /\ Tasks!NoneLeftRunning
  BY DEF Tasks!TaskInv
<1>2. Tasks!TaskTypeOK
  BY <1>1 DEF Tasks!TaskTypeOK, Tasks!RunsTypeOK, Tasks!TaskRecord, Tasks!TaskCopy, Tasks!Status
<1>3. Tasks!ReplansBounded
  <2> SUFFICES ASSUME NEW t \in Task
               PROVE  x1[t].replans <= MaxReplans + (IF t \in x15 THEN Tasks!Cardinality(AgentRun) - 1 ELSE 0)
    BY DEF Tasks!ReplansBounded
  <2>1. Tasks!ReplansOf(t) /\ x1[t].replans \in Nat /\ MaxReplans \in Nat
    BY <1>1, RunsConstants DEF Tasks!ReplansInv, Tasks!RunsTypeOK, Tasks!TaskRecord
  <2>2. CASE t \notin x15
    BY <2>1, <2>2 DEF Tasks!ReplansOf
  <2>3. CASE t \in x15
    <3>1. PICK r \in AgentRun : TRUE
      BY <1>1, <2>3 DEF Tasks!RunsTypeOK
    <3>2. Tasks!Behind(t) \in SUBSET AgentRun /\ AgentRun \in SUBSET AgentRun /\ {} \in SUBSET AgentRun /\ r \notin {}
      BY DEF Tasks!Behind
    <3>3. Tasks!Cardinality(Tasks!Behind(t)) \in Nat /\ Tasks!Cardinality(AgentRun) \in Nat /\ Tasks!Cardinality(AgentRun) > 0
      BY <3>1, <3>2, Counting, TasksCardinality, FS_EmptySet
    <3> HIDE DEF Tasks!Behind
    <3> QED BY <2>1, <2>3, <3>3 DEF Tasks!ReplansOf
  <2> QED BY <2>2, <2>3
<1>4. Tasks!SuccessIsDurable
  BY <1>1 DEF Tasks!SuccessIsDurable, Tasks!DiskInv
<1> QED BY <1>1, <1>2, <1>3, <1>4 DEF Tasks!TasksAreHonest

LEMMA FinalStep == Tasks!TaskInv /\ [Tasks!Next]_(Tasks!vars) => Tasks!FinalStays
<1> SUFFICES ASSUME Tasks!TaskInv, [Tasks!Next]_(Tasks!vars) PROVE Tasks!FinalStays
  OBVIOUS
<1>1. Tasks!RunsTypeOK /\ Tasks!DiskInv
  BY DEF Tasks!TaskInv
<1>2. CASE x3' = x3
  BY <1>2 DEF Tasks!FinalStays
<1>3. ASSUME NEW ok \in BOOLEAN, Tasks!Written(ok) PROVE Tasks!FinalStays
  <2>1. x3' = x3 \/ x3'.tasks = x1
    BY <1>3 DEF Tasks!Written
  <2>2. CASE x3'.tasks = x1
    BY <1>1, <2>2 DEF Tasks!FinalStays, Tasks!DiskInv
  <2> QED BY <1>2, <2>1, <2>2
<1>4. CASE Tasks!Restart
  <2>1. \A t \in Task : x3.tasks[t].status = "completed" => x3'.tasks[t] = x3.tasks[t]
    BY <1>1, <1>4 DEF Tasks!Restart, Tasks!RunsTypeOK
  <2> QED BY <2>1 DEF Tasks!FinalStays
<1>5. ASSUME NEW r \in AgentRun, Tasks!Start(r) \/ Tasks!Abort(r) \/ Tasks!RunStep(r) PROVE Tasks!FinalStays
  <2>1. Tasks!Start(r) \/ Tasks!Abort(r) => x3' = x3
    BY DEF Tasks!Start, Tasks!Abort, Tasks!Step, Tasks!taskVars
  <2>2. Does(r) => x3' = x3
    BY DEF Does, Stays, Changes, Moves
  <2>3. Tasks!Plan(r, "task") => x3' = x3
    BY DEF Tasks!Plan, Tasks!Mutate
  <2> QED BY <1>2, <1>5, <2>1, <2>2, <2>3, RunStepDoes
<1>6. CASE UNCHANGED Tasks!vars
  BY <1>2, <1>6 DEF Tasks!vars, Tasks!taskVars
<1> QED BY <1>3, <1>4, <1>5, <1>6 DEF Tasks!Next

TasksPart == part = "tasks" => Tasks!TaskInv

LEMMA TasksPartHolds == Spec => []TasksPart
<1>1. Init => TasksPart
  BY TaskInit DEF Init, TasksPart
<1>2. TasksPart /\ [Next]_all => TasksPart'
  <2>1. part = "tasks" /\ [Next]_all => [Tasks!Next]_(Tasks!vars)
    BY DEF Next, all, Tasks!vars, Tasks!taskVars, Tasks!runVars, Tasks!auxVars
  <2> QED BY <2>1, PartStays, TaskStep DEF TasksPart
<1> QED BY <1>1, <1>2, PTL DEF Spec

\* Whatever the runs of a session, their writes, aborts and crashes do, the
\* tasks say what was found out (completionGate and TaskManager): completed is
\* what was judged so by the plan it has, none stays running behind its run,
\* none is replanned past the bound, and success survives on disk.
THEOREM TasksAlwaysHonest == Spec => []TasksAreHonest
<1>1. TasksPart => TasksAreHonest
  BY InvIsHonest DEF TasksPart, TasksAreHonest
<1> QED BY <1>1, TasksPartHolds, PTL

\* A task that is completed on disk stays completed there, with the plan it was
\* judged by: the transition table of taskTypes.ts, through every later write,
\* crash and recovery.
THEOREM FinalAlwaysFinal == Spec => FinalIsFinal
<1>1. TasksPart /\ [Next]_all => [part = "tasks" => Tasks!FinalStays]_all
  <2>1. part = "tasks" /\ [Next]_all => [Tasks!Next]_(Tasks!vars)
    BY DEF Next, all, Tasks!vars, Tasks!taskVars, Tasks!runVars, Tasks!auxVars
  <2> QED BY <2>1, FinalStep DEF TasksPart
<1> QED BY <1>1, TasksPartHolds, PTL DEF Spec, FinalIsFinal

-----------------------------------------------------------------------------
(* The requests to a model: x1 asked, x2 body, x3 arrived, x4 answer,      *)
(* x5 aborted, x6 completing, x7 thrown, x8 outcome.                       *)

\* A set of numbers with a member has a least one: what stands in for induction.
LEMMA Least ==
  ASSUME NEW T, T \subseteq Nat, T # {}
  PROVE  \E n \in T : \A m \in T : n <= m
<1>1. PICK n \in T : \A m \in T : <<m, n>> \notin OpToRel(<, Nat)
  BY NatLessThanWellFounded, WFMin
<1>2. ASSUME NEW m \in T PROVE n <= m
  <2>1. m \in Nat /\ n \in Nat
    OBVIOUS
  <2>2. ~(m < n)
    BY <1>1, <2>1 DEF OpToRel
  <2> QED BY <2>1, <2>2
<1> QED BY <1>2

\* What the lines make of a is written f[0], f[1], ...
Folds(wire, f, a, lines, k) ==
  f[0] = a /\ \A n \in 1..k : f[n] = Stream!Handle(wire, f[n - 1], lines[n])

LEMMA FoldExists ==
  ASSUME NEW wire, NEW a, NEW lines, NEW k \in Nat
  PROVE  \E f : Folds(wire, f, a, lines, k)
<1> DEFINE Bad == {m \in 0..k : ~\E f : Folds(wire, f, a, lines, m)}
<1>1. ASSUME NEW m \in Bad, \A n \in Bad : m <= n PROVE FALSE
  <2>0. m \in Nat /\ m \in 0..k /\ ~\E f : Folds(wire, f, a, lines, m)
    OBVIOUS
  <2>1. CASE m = 0
    <3>1. Folds(wire, [n \in {0} |-> a], a, lines, m)
      BY <2>1 DEF Folds
    <3> QED BY <2>0, <3>1
  <2>2. CASE m # 0
    <3>1. m - 1 \in 0..k /\ m - 1 \in Nat /\ ~(m <= m - 1)
      BY <2>0, <2>2
    <3>2. PICK f : Folds(wire, f, a, lines, m - 1)
      BY <3>1, <1>1
    <3> DEFINE g == [n \in 0..m |-> IF n = m THEN Stream!Handle(wire, f[m - 1], lines[m]) ELSE f[n]]
    <3>3. g[0] = a
      BY <2>0, <2>2, <3>2 DEF Folds
    <3>4. ASSUME NEW n \in 1..m PROVE g[n] = Stream!Handle(wire, g[n - 1], lines[n])
      <4>1. n \in 0..m /\ n - 1 \in 0..m /\ n - 1 # m
        BY <2>0
      <4>2. g[n - 1] = f[n - 1]
        BY <4>1
      <4>3. CASE n = m
        BY <4>1, <4>2, <4>3
      <4>4. CASE n # m
        <5>1. n \in 1..(m - 1)
          BY <2>0, <4>4
        <5> QED BY <3>2, <4>1, <4>2, <4>4, <5>1 DEF Folds
      <4> QED BY <4>3, <4>4
    <3>5. Folds(wire, g, a, lines, m)
      BY <3>3, <3>4 DEF Folds
    <3> QED BY <2>0, <3>5
  <2> QED BY <2>1, <2>2
<1>2. Bad = {}
  <2> SUFFICES ASSUME Bad # {} PROVE FALSE
    OBVIOUS
  <2>1. Bad \subseteq Nat
    OBVIOUS
  <2>2. PICK m \in Bad : \A n \in Bad : m <= n
    BY <2>1, Least
  <2> QED BY <2>2, <1>1
<1> QED BY <1>2

LEMMA FoldIsOne ==
  ASSUME NEW wire, NEW a, NEW lines, NEW k \in Nat, NEW f, NEW g,
         Folds(wire, f, a, lines, k), Folds(wire, g, a, lines, k)
  PROVE  f[k] = g[k]
<1> DEFINE Bad == {m \in 0..k : f[m] # g[m]}
<1>1. ASSUME NEW m \in Bad, \A n \in Bad : m <= n PROVE FALSE
  <2>0. m \in Nat /\ m \in 0..k /\ f[m] # g[m]
    OBVIOUS
  <2>1. m # 0
    BY <2>0 DEF Folds
  <2>2. m - 1 \in 0..k /\ ~(m <= m - 1) /\ m \in 1..k
    BY <2>0, <2>1
  <2>3. f[m - 1] = g[m - 1]
    BY <1>1, <2>2
  <2> QED BY <2>0, <2>2, <2>3 DEF Folds
<1>2. Bad = {}
  <2> SUFFICES ASSUME Bad # {} PROVE FALSE
    OBVIOUS
  <2>1. Bad \subseteq Nat
    OBVIOUS
  <2>2. PICK m \in Bad : \A n \in Bad : m <= n
    BY <2>1, Least
  <2> QED BY <2>2, <1>1
<1>3. k \in 0..k
  OBVIOUS
<1> QED BY <1>2, <1>3

LEMMA FoldIsHandleAll ==
  ASSUME NEW wire, NEW a, NEW lines, Len(lines) \in Nat, NEW f, Folds(wire, f, a, lines, Len(lines))
  PROVE  Stream!HandleAll(wire, a, lines) = f[Len(lines)]
<1> DEFINE After(g) == [n \in 0..Len(lines) |-> IF n = 0 THEN a ELSE Stream!Handle(wire, g[n - 1], lines[n])]
           h == CHOOSE g : g = After(g)
<1>1. Stream!HandleAll(wire, a, lines) = h[Len(lines)]
  BY DEF Stream!HandleAll
<1>2. \E g : g = After(g)
  <2> DEFINE g == [n \in 0..Len(lines) |-> f[n]]
  <2>1. ASSUME NEW n \in 0..Len(lines)
        PROVE  f[n] = IF n = 0 THEN a ELSE Stream!Handle(wire, g[n - 1], lines[n])
    <3>1. CASE n = 0
      BY <3>1 DEF Folds
    <3>2. CASE n # 0
      <4>1. n \in 1..Len(lines) /\ n - 1 \in 0..Len(lines)
        BY <3>2
      <4> QED BY <3>2, <4>1 DEF Folds
    <3> QED BY <3>1, <3>2
  <2>2. g = After(g)
    BY <2>1
  <2> QED BY <2>2
<1>3. h = After(h)
  <2> HIDE DEF After
  <2> QED BY <1>2
<1>4. Folds(wire, h, a, lines, Len(lines))
  <2>1. h[0] = a
    <3>1. 0 \in 0..Len(lines)
      OBVIOUS
    <3> HIDE DEF h
    <3> QED BY <1>3, <3>1
  <2>2. ASSUME NEW n \in 1..Len(lines) PROVE h[n] = Stream!Handle(wire, h[n - 1], lines[n])
    <3>1. n \in 0..Len(lines) /\ n # 0
      OBVIOUS
    <3> HIDE DEF h
    <3> QED BY <1>3, <3>1
  <2> HIDE DEF h
  <2> QED BY <2>1, <2>2 DEF Folds
<1>5. h[Len(lines)] = f[Len(lines)]
  <2> HIDE DEF h
  <2> QED BY <1>4, FoldIsOne
<1> HIDE DEF h
<1> QED BY <1>1, <1>5

\* A prefix folds to what the whole has come to there.
LEMMA FoldOfPrefix ==
  ASSUME NEW wire, NEW S, NEW lines \in Seq(S), NEW a, NEW n \in 0..Len(lines),
         NEW f, Folds(wire, f, a, lines, Len(lines))
  PROVE  Stream!HandleAll(wire, a, SubSeq(lines, 1, n)) = f[n]
<1> DEFINE t == SubSeq(lines, 1, n)
<1>2. t \in Seq(S) /\ Len(t) = n /\ \A i \in 1..n : t[i] = lines[i]
  OBVIOUS
<1>3. Folds(wire, f, a, t, Len(t))
  <2> HIDE DEF t
  <2> QED BY <1>2 DEF Folds
<1>4. Len(t) \in Nat
  BY <1>2
<1> HIDE DEF t
<1>5. Stream!HandleAll(wire, a, t) = f[n]
  BY <1>2, <1>3, <1>4, FoldIsHandleAll
<1> QED BY <1>5 DEF t

\* Handled in two parts or at once, lines make the same answer.
LEMMA HandledInParts ==
  ASSUME NEW wire, NEW S, NEW lines \in Seq(S), NEW a, NEW m \in 0..Len(lines), NEW n \in m..Len(lines)
  PROVE  Stream!HandleAll(wire, Stream!HandleAll(wire, a, SubSeq(lines, 1, m)), SubSeq(lines, m + 1, n))
           = Stream!HandleAll(wire, a, SubSeq(lines, 1, n))
<1>0. Len(lines) \in Nat /\ m \in Nat /\ n \in Nat /\ n \in 0..Len(lines)
  OBVIOUS
<1>1. PICK f : Folds(wire, f, a, lines, Len(lines))
  BY <1>0, FoldExists
<1>2. Stream!HandleAll(wire, a, SubSeq(lines, 1, m)) = f[m] /\ Stream!HandleAll(wire, a, SubSeq(lines, 1, n)) = f[n]
  BY <1>0, <1>1, FoldOfPrefix
<1> DEFINE t == SubSeq(lines, m + 1, n)
           g == [i \in 0..(n - m) |-> f[m + i]]
<1>3. Len(t) = n - m /\ \A i \in 1..(n - m) : t[i] = lines[m + i]
  BY <1>0
<1>4. Folds(wire, g, f[m], t, Len(t)) /\ Len(t) \in Nat /\ g[Len(t)] = f[n]
  <2>1. g[0] = f[m]
    BY <1>0
  <2>2. ASSUME NEW i \in 1..(n - m) PROVE g[i] = Stream!Handle(wire, g[i - 1], t[i])
    <3>1. /\ i \in 0..(n - m) /\ i - 1 \in 0..(n - m) /\ m + i \in 1..Len(lines)
          /\ m + i - 1 = m + (i - 1)
      BY <1>0
    <3>2. f[m + i] = Stream!Handle(wire, f[m + i - 1], lines[m + i])
      BY <1>1, <3>1 DEF Folds
    <3>3. t[i] = lines[m + i]
      BY <1>3
    <3> HIDE DEF t
    <3> QED BY <3>1, <3>2, <3>3
  <2>3. Len(t) \in Nat /\ n - m \in 0..(n - m) /\ m + (n - m) = n
    <3> HIDE DEF t
    <3> QED BY <1>0, <1>3
  <2> HIDE DEF t
  <2> QED BY <1>3, <2>1, <2>2, <2>3 DEF Folds
<1>5. Stream!HandleAll(wire, f[m], t) = f[n]
  <2> HIDE DEF t, g
  <2> QED BY <1>4, FoldIsHandleAll
<1> QED BY <1>2, <1>5

-----------------------------------------------------------------------------

\* Whoever reads the lines of a well-formed body keeps the calls apart.
CallsApart(a, owner) ==
  \A i \in DOMAIN a.calls : LET c == a.calls[i] IN
    /\ c = [index |-> c.index, id |-> c.id, args |-> c.args]
    /\ c.index \in DOMAIN owner /\ c.id = owner[c.index]
    /\ c.args \in Seq(Stream!PartsOf(owner[c.index]))

IsAnswer(a) ==
  /\ a = [content |-> a.content, calls |-> a.calls, usage |-> a.usage]
  /\ a.calls = [i \in 1..Len(a.calls) |-> a.calls[i]] /\ Len(a.calls) \in Nat

\* A line that goes with a call of its own, or opens one; and an answer that has
\* the calls another has.
Fits(wire, a, l, owner) ==
  l.is = "call" => /\ l.index \in DOMAIN owner
                   /\ l.id \in {0, owner[l.index]}
                   /\ l.parts \in Seq(Stream!PartsOf(owner[l.index]))
                   /\ l.id = 0 => /\ wire = "openai"
                                  /\ \E i \in DOMAIN a.calls : a.calls[i].index = l.index

Has(a, index) == \E i \in DOMAIN a.calls : a.calls[i].index = index

LEMMA OneLineMore ==
  ASSUME NEW wire, NEW a, IsAnswer(a), NEW l, NEW owner, CallsApart(a, owner),
         Fits(wire, a, l, owner)
  PROVE  /\ IsAnswer(Stream!Handle(wire, a, l)) /\ CallsApart(Stream!Handle(wire, a, l), owner)
         /\ \A index : Has(a, index) => Has(Stream!Handle(wire, a, l), index)
         /\ l.is = "call" => Has(Stream!Handle(wire, a, l), l.index)
<1> USE DEF Fits, Has
<1> DEFINE new == [index |-> l.index, id |-> l.id, args |-> l.parts]
           b == Stream!Handle(wire, a, l)
<1>0. DOMAIN a.calls = 1..Len(a.calls) /\ Len(a.calls) \in Nat
  BY DEF IsAnswer
<1>1. CASE l.is # "call"
  <2>1. b.calls = a.calls /\ IsAnswer(b)
    BY <1>1 DEF Stream!Handle, IsAnswer
  <2> HIDE DEF b
  <2>2. CallsApart(b, owner)
    BY <2>1 DEF CallsApart
  <2> QED BY <1>1, <2>1, <2>2 DEF b
<1>2. CASE l.is = "call"
  <2>1. /\ b = [a EXCEPT !.calls = Stream!Calls(wire, a, l)] /\ b.calls = Stream!Calls(wire, a, l)
        /\ b = [content |-> b.content, calls |-> b.calls, usage |-> b.usage]
    BY <1>2 DEF Stream!Handle, IsAnswer
  <2> HIDE DEF b
  <2>2. CASE wire = "openai" /\ \E i \in DOMAIN a.calls : a.calls[i].index = l.index
    <3> DEFINE Grown(c) == IF c.index = l.index
                          THEN [c EXCEPT !.id = IF l.id = 0 THEN @ ELSE l.id, !.args = @ \o l.parts]
                          ELSE c
    <3>1. b.calls = [i \in DOMAIN a.calls |-> Grown(a.calls[i])]
      BY <2>1, <2>2 DEF Stream!Calls, Stream!Merge
    <3>2. ASSUME NEW i \in DOMAIN a.calls
          PROVE  /\ Grown(a.calls[i]).index = a.calls[i].index
                 /\ LET c == Grown(a.calls[i]) IN
                      /\ c = [index |-> c.index, id |-> c.id, args |-> c.args]
                      /\ c.index \in DOMAIN owner /\ c.id = owner[c.index]
                      /\ c.args \in Seq(Stream!PartsOf(owner[c.index]))
      <4> DEFINE o == a.calls[i]
      <4>1. /\ o = [index |-> o.index, id |-> o.id, args |-> o.args]
            /\ o.index \in DOMAIN owner /\ o.id = owner[o.index]
            /\ o.args \in Seq(Stream!PartsOf(owner[o.index]))
        BY DEF CallsApart
      <4> HIDE DEF o
      <4>2. CASE o.index # l.index
        BY <4>1, <4>2 DEF o
      <4>3. CASE o.index = l.index
        <5>1. PICK c : c = Grown(o)
          OBVIOUS
        <5>2. c = [index |-> o.index, id |-> owner[o.index], args |-> o.args \o l.parts]
          <6>1. (IF l.id = 0 THEN o.id ELSE l.id) = owner[o.index]
            BY <1>2, <4>1, <4>3
          <6>2. c = [o EXCEPT !.id = IF l.id = 0 THEN @ ELSE l.id, !.args = @ \o l.parts]
            BY <4>3, <5>1
          <6> QED BY <4>1, <6>1, <6>2
        <5>3. o.args \o l.parts \in Seq(Stream!PartsOf(owner[o.index]))
          BY <1>2, <4>1, <4>3, ConcatProperties
        <5>4. /\ c.index = o.index /\ c.id = owner[o.index] /\ c.args = o.args \o l.parts
          BY <5>2
        <5>5. /\ c.index = o.index /\ c = [index |-> c.index, id |-> c.id, args |-> c.args]
              /\ c.index \in DOMAIN owner /\ c.id = owner[c.index]
              /\ c.args \in Seq(Stream!PartsOf(owner[c.index]))
          BY <4>1, <5>2, <5>3, <5>4
        <5> HIDE DEF Grown
        <5> QED BY <5>1, <5>5 DEF o
      <4> QED BY <4>2, <4>3
    <3> HIDE DEF Grown
    <3>3. DOMAIN b.calls = DOMAIN a.calls /\ \A i \in DOMAIN a.calls : b.calls[i] = Grown(a.calls[i])
      BY <3>1
    <3>4. CallsApart(b, owner)
      BY <3>2, <3>3 DEF CallsApart
    <3>5. b.calls = [i \in 1..Len(b.calls) |-> b.calls[i]] /\ Len(b.calls) \in Nat
      <4>1. Len(b.calls) = Len(a.calls)
        BY <1>0, <3>1
      <4> QED BY <1>0, <3>1, <3>3, <4>1
    <3> QED BY <1>2, <2>1, <2>2, <3>2, <3>3, <3>4, <3>5 DEF IsAnswer, b
  <2>3. CASE ~(wire = "openai" /\ \E i \in DOMAIN a.calls : a.calls[i].index = l.index)
    <3>1. b.calls = Append(a.calls, new)
      BY <2>1, <2>3 DEF Stream!Calls, Stream!Merge
    <3>2. /\ new.index \in DOMAIN owner /\ new.id = owner[new.index]
          /\ new.args \in Seq(Stream!PartsOf(owner[new.index]))
          /\ new = [index |-> new.index, id |-> new.id, args |-> new.args]
      <4>1. l.id # 0
        BY <1>2, <2>3
      <4> QED BY <1>2, <4>1
    <3>3. /\ DOMAIN b.calls = 1..(Len(a.calls) + 1) /\ Len(b.calls) = Len(a.calls) + 1
          /\ \A i \in 1..Len(a.calls) : b.calls[i] = a.calls[i]
          /\ b.calls[Len(a.calls) + 1] = new
          /\ b.calls = [i \in 1..Len(b.calls) |-> b.calls[i]]
      <4> DEFINE S == {a.calls[i] : i \in 1..Len(a.calls)} \cup {new}
      <4>1. a.calls \in Seq(S) /\ new \in S
        <5>1. a.calls \in [1..Len(a.calls) -> S]
          BY <1>0 DEF IsAnswer
        <5> HIDE DEF S, new
        <5>2. a.calls \in Seq(S)
          BY <1>0, <5>1
        <5> QED BY <5>2 DEF S
      <4> HIDE DEF S, new
      <4> QED BY <1>0, <3>1, <4>1, AppendProperties
    <3> HIDE DEF new
    <3>4. CallsApart(b, owner)
      <4> SUFFICES ASSUME NEW i \in DOMAIN b.calls
                   PROVE  LET c == b.calls[i] IN
                            /\ c = [index |-> c.index, id |-> c.id, args |-> c.args]
                            /\ c.index \in DOMAIN owner /\ c.id = owner[c.index]
                            /\ c.args \in Seq(Stream!PartsOf(owner[c.index]))
        BY DEF CallsApart
      <4>1. CASE i \in 1..Len(a.calls)
        BY <1>0, <3>3, <4>1 DEF CallsApart
      <4>2. CASE i = Len(a.calls) + 1
        BY <3>2, <3>3, <4>2
      <4> QED BY <1>0, <3>3, <4>1, <4>2
    <3>5. IsAnswer(b)
      BY <1>0, <2>1, <3>3 DEF IsAnswer
    <3>6. \A i \in DOMAIN a.calls : \E j \in DOMAIN b.calls : b.calls[j].index = a.calls[i].index
      BY <1>0, <3>3
    <3>7. \E j \in DOMAIN b.calls : b.calls[j].index = l.index
      <4>1. b.calls[Len(a.calls) + 1].index = l.index /\ Len(a.calls) + 1 \in DOMAIN b.calls
        BY <1>0, <3>3 DEF new
      <4> QED BY <4>1
    <3> QED BY <3>4, <3>5, <3>6, <3>7 DEF b
  <2> QED BY <2>2, <2>3
<1> QED BY <1>1, <1>2

LEMMA LinesKeepCallsApart ==
  ASSUME Stream!WellFormed(x2), NEW n \in 0..Len(x2.lines)
  PROVE  \E owner : CallsApart(Stream!AfterLines(n), owner)
<1> DEFINE lines == x2.lines
           S == {lines[i] : i \in DOMAIN lines}
<1>1. lines \in Seq(S) /\ Len(lines) \in Nat /\ DOMAIN lines = 1..Len(lines)
  BY DEF Stream!WellFormed
<1>2. PICK owner \in [Stream!Indexes(x2) -> Stream!Call] : \A i \in DOMAIN lines : Stream!IsCall(x2, i) =>
        LET l == lines[i] IN
        /\ l.id \in {0, owner[l.index]} /\ l.parts \in Seq(Stream!PartsOf(owner[l.index]))
        /\ l.id = 0 => /\ x2.wire = "openai"
                       /\ \E j \in 1..(i - 1) : Stream!IsCall(x2, j) /\ lines[j].index = l.index
  BY DEF Stream!WellFormed, Stream!CallsInOrder
<1>3. PICK f : Folds(x2.wire, f, Stream!NoAnswer, lines, Len(lines))
  BY <1>1, FoldExists
<1>4. \A m \in 0..Len(lines) : Stream!AfterLines(m) = f[m]
  BY <1>1, <1>3, FoldOfPrefix DEF Stream!AfterLines
<1> DEFINE Good(m) == /\ IsAnswer(f[m]) /\ CallsApart(f[m], owner)
                      /\ \A j \in 1..m : Stream!IsCall(x2, j) => Has(f[m], lines[j].index)
           Bad == {m \in 0..Len(lines) : ~Good(m)}
<1> HIDE DEF S
<1>5. ASSUME NEW m \in Bad, \A k \in Bad : m <= k PROVE FALSE
  <2>0. m \in 0..Len(lines) /\ m \in Nat /\ ~Good(m)
    <3>1. m \in 0..Len(lines) /\ ~Good(m)
      BY Zenon
    <3> QED BY <1>1, <3>1
  <2>1. CASE m = 0
    <3>1. f[m] = Stream!NoAnswer
      BY <1>3, <2>1 DEF Folds
    <3>2. IsAnswer(f[m]) /\ CallsApart(f[m], owner) /\ 1..m = {}
      BY <2>1, <3>1 DEF IsAnswer, CallsApart, Stream!NoAnswer
    <3> QED BY <2>0, <3>2
  <2>2. CASE m # 0
    <3>1. m - 1 \in 0..Len(lines) /\ ~(m <= m - 1) /\ m \in 1..Len(lines)
      BY <1>1, <2>0, <2>2
    <3>2. Good(m - 1)
      BY <3>1, <1>5
    <3>3. f[m] = Stream!Handle(x2.wire, f[m - 1], lines[m])
      BY <1>3, <3>1 DEF Folds
    <3> DEFINE l == lines[m]
               o == f[m - 1]
    <3>4. Fits(x2.wire, o, l, owner)
      <4> SUFFICES ASSUME l.is = "call"
                   PROVE  /\ l.index \in DOMAIN owner
                          /\ l.id \in {0, owner[l.index]}
                          /\ l.parts \in Seq(Stream!PartsOf(owner[l.index]))
                          /\ l.id = 0 => x2.wire = "openai" /\ Has(o, l.index)
        BY DEF Fits, Has
      <4>1. Stream!IsCall(x2, m) /\ m \in DOMAIN lines
        BY <1>1, <3>1 DEF Stream!IsCall
      <4>2. l.index \in DOMAIN owner
        BY <4>1 DEF Stream!Indexes
      <4>3. \A j \in 1..(m - 1) : Stream!IsCall(x2, j) => Has(o, lines[j].index)
        BY <3>2
      <4> HIDE DEF lines, o, Good, Bad
      <4> QED BY <1>2, <4>1, <4>2, <4>3
    <3>5. IsAnswer(o) /\ CallsApart(o, owner)
      BY <3>2
    <3> HIDE DEF l, o, lines, Good, Bad
    <3>6. /\ IsAnswer(Stream!Handle(x2.wire, o, l)) /\ CallsApart(Stream!Handle(x2.wire, o, l), owner)
          /\ \A index : Has(o, index) => Has(Stream!Handle(x2.wire, o, l), index)
          /\ l.is = "call" => Has(Stream!Handle(x2.wire, o, l), l.index)
      BY <3>4, <3>5, OneLineMore
    <3>7. ASSUME NEW j \in 1..m, Stream!IsCall(x2, j) PROVE Has(Stream!Handle(x2.wire, o, l), lines[j].index)
      <4>1. CASE j = m
        BY <3>6, <3>7, <4>1 DEF Stream!IsCall, l, lines
      <4>2. CASE j # m
        <5>1. j \in 1..(m - 1)
          BY <2>0, <4>2
        <5> QED BY <3>2, <3>6, <3>7, <5>1 DEF Good, o
      <4> QED BY <4>1, <4>2
    <3>8. Good(m)
      BY <3>3, <3>6, <3>7 DEF Good, l, o, lines
    <3> QED BY <2>0, <3>8
  <2> QED BY <2>1, <2>2
<1>6. Bad = {}
  <2> SUFFICES ASSUME Bad # {} PROVE FALSE
    OBVIOUS
  <2>1. Bad \subseteq Nat
    BY <1>1
  <2>2. PICK m \in Bad : \A k \in Bad : m <= k
    BY <2>1, Least
  <2> QED BY <2>2, <1>5
<1>7. Good(n)
  BY <1>6
<1> QED BY <1>4, <1>7

\* Arguments that parse are those of the call they were kept for.
LEMMA ParsedAreTheCalls ==
  ASSUME NEW a, NEW owner, CallsApart(a, owner), NEW i \in DOMAIN a.calls, Stream!Parses(a.calls[i].args)
  PROVE  a.calls[i].args \in {<<>>, Stream!Whole(a.calls[i].id)}
<1> DEFINE c == a.calls[i]
<1>1. c.id = owner[c.index] /\ c.args \in Seq(Stream!PartsOf(owner[c.index]))
  BY DEF CallsApart
<1>2. CASE c.args = <<>>
  BY <1>2
<1>3. ASSUME NEW d \in Stream!Call, c.args = Stream!Whole(d) PROVE c.args = Stream!Whole(c.id)
  <2>1. c.args[1] = <<d, 1>> /\ Len(c.args) = 2
    BY <1>3 DEF Stream!Whole
  <2>2. c.args[1] \in Stream!PartsOf(owner[c.index])
    <3> HIDE DEF c
    <3> QED BY <1>1, <2>1
  <2>3. d = owner[c.index]
    <3> HIDE DEF c
    <3> QED BY <2>1, <2>2 DEF Stream!PartsOf
  <2> QED BY <1>1, <1>3, <2>3
<1> QED BY <1>2, <1>3 DEF Stream!Parses

-----------------------------------------------------------------------------

LEMMA StreamInitially ==
  ASSUME Stream!StreamInit, \A b \in Bodies : Stream!WellFormed(b)
  PROVE  Stream!StreamInv
<1>1. x2 \in Bodies /\ Stream!WellFormed(x2)
  BY DEF Stream!StreamInit
<1>2. Len(x2.lines) \in Nat
  BY <1>1 DEF Stream!WellFormed
<1>3. Stream!AfterLines(0) = Stream!NoAnswer
  <2>1. PICK f : Folds(x2.wire, f, Stream!NoAnswer, x2.lines, Len(x2.lines))
    BY <1>2, FoldExists
  <2>2. Stream!AfterLines(0) = f[0]
    BY <1>1, <1>2, <2>1, FoldOfPrefix DEF Stream!AfterLines, Stream!WellFormed
  <2> QED BY <2>1, <2>2 DEF Folds
<1>4. x3 = 0 /\ (x3 \div 3) = 0 /\ ~Stream!EndsWell
  BY DEF Stream!StreamInit, Stream!EndsWell
<1> QED BY <1>1, <1>2, <1>3, <1>4 DEF Stream!StreamInit, Stream!StreamInv, Stream!AbortIsAbort

\* What the steps that handle no line change.
LEMMA EndStep ==
  ASSUME Stream!StreamInv, NEW o, Stream!Settles(o), x6 # "ended",
         o = "ok" => x1 # "chat", "user" \in x5 => o = "AbortError"
  PROVE  Stream!StreamInv'
<1>1. /\ x8 = "none" /\ ~Stream!EndsWell /\ ~Stream!EndsWell'
      /\ x6' = "ended" /\ x8' = o
      /\ UNCHANGED <<x1, x2, x3, x4, x5, x7>>
  BY DEF Stream!StreamInv, Stream!EndsWell, Stream!Settles
<1>2. \A n : Stream!AfterLines(n)' = Stream!AfterLines(n)
  BY <1>1 DEF Stream!AfterLines
<1> QED BY <1>1, <1>2 DEF Stream!StreamInv, Stream!AbortIsAbort

\* What the steps that end or go on without a line, and those that abort, change.
LEMMA QuietStep ==
  ASSUME Stream!StreamInv, ~Stream!EndsWell, ~Stream!EndsWell', UNCHANGED <<x1, x2, x3, x4>>,
         x6' # "ended" => x8' = "none",
         x1 = "chat" => x6' # "text",
         x1 # "chat" => x6' \notin {"stream", "cancelling"},
         x6' = "cancelling" => x7' # "ok",
         Stream!AbortIsAbort'
  PROVE  Stream!StreamInv'
<1>1. \A n : Stream!AfterLines(n)' = Stream!AfterLines(n)
  BY DEF Stream!AfterLines
<1> QED BY <1>1 DEF Stream!StreamInv

LEMMA AbortStep ==
  ASSUME Stream!StreamInv, Stream!UserAborts \/ Stream!TimerFires
  PROVE  Stream!StreamInv'
<1>1. /\ x6 # "ended" /\ x8 = "none"
      /\ UNCHANGED <<x1, x2, x3, x4, x6, x7, x8>>
  BY DEF Stream!StreamInv, Stream!UserAborts, Stream!TimerFires
<1> QED BY <1>1, QuietStep DEF Stream!StreamInv, Stream!EndsWell, Stream!AbortIsAbort

LEMMA ThrowStep ==
  ASSUME Stream!StreamInv, NEW e, e # "ok", Stream!Throws(e), x6 # "ended"
  PROVE  Stream!StreamInv'
<1>1. Stream!Reported(e) # "ok" /\ ("user" \in x5 => Stream!Reported(e) = "AbortError")
  <2>1. CASE "user" \in x5
    <3>1. Stream!Normalized(e) = "AbortError"
      BY <2>1 DEF Stream!Normalized
    <3> QED BY <3>1 DEF Stream!Reported
  <2>2. CASE "user" \notin x5
    <3>1. Stream!Normalized(e) # "ok"
      <4>1. CASE "timer" \in x5
        BY <2>2, <4>1 DEF Stream!Normalized
      <4>2. CASE "timer" \notin x5
        BY <2>2, <4>2 DEF Stream!Normalized
      <4> QED BY <4>1, <4>2
    <3> QED BY <2>2, <3>1 DEF Stream!Reported
  <2> QED BY <2>1, <2>2
<1> QED BY <1>1, EndStep DEF Stream!Throws

LEMMA UnwindStep ==
  ASSUME Stream!StreamInv, NEW e, e # "ok", Stream!Unwinds(e), x6 # "ended", x1 = "chat"
  PROVE  Stream!StreamInv'
<1>1. CASE x5 = {}
  BY <1>1, ThrowStep DEF Stream!Unwinds
<1>2. CASE x5 # {}
  <2>1. /\ x6' = "cancelling" /\ x7' = e /\ x8 = "none"
        /\ UNCHANGED <<x1, x2, x3, x4, x5, x8>>
    BY <1>2 DEF Stream!Unwinds, Stream!StreamInv
  <2> QED BY <2>1, QuietStep DEF Stream!EndsWell, Stream!AbortIsAbort, Stream!StreamInv
<1> QED BY <1>1, <1>2

LEMMA RejectStep ==
  ASSUME Stream!StreamInv, Stream!Rejects
  PROVE  Stream!StreamInv'
<1>1. CASE x6 = "stream"
  <2>1. x1 = "chat" /\ Stream!Unwinds("AbortError")
    BY <1>1 DEF Stream!StreamInv, Stream!Rejects
  <2> QED BY <1>1, <2>1, UnwindStep
<1>2. CASE x6 # "stream"
  BY <1>2, ThrowStep DEF Stream!Rejects
<1> QED BY <1>1, <1>2

LEMMA CancelStep ==
  ASSUME Stream!StreamInv, Stream!Cancelled
  PROVE  Stream!StreamInv'
BY ThrowStep DEF Stream!StreamInv, Stream!Cancelled

\* Where a step goes on without reading.
LEMMA GoStep ==
  ASSUME Stream!StreamInv, NEW c, Stream!Goes(c), x6 # "ended", c \notin {"ended", "cancelling"},
         x1 = "chat" => c # "text", x1 # "chat" => c # "stream"
  PROVE  Stream!StreamInv'
<1>1. x6' = c /\ x8 = "none" /\ UNCHANGED <<x1, x2, x3, x4, x5, x7, x8>>
  BY DEF Stream!StreamInv, Stream!Goes
<1> QED BY <1>1, QuietStep DEF Stream!StreamInv, Stream!EndsWell, Stream!AbortIsAbort

LEMMA HeaderStep ==
  ASSUME Stream!StreamInv, Stream!Headers
  PROVE  Stream!StreamInv'
<1>1. x6 = "headers"
  BY DEF Stream!Headers
<1>2. CASE x1 = "chat"
  <2>1. Stream!Goes("stream") \/ Stream!Goes("errorBody") \/ Stream!Throws(Stream!Invalid)
    BY <1>2 DEF Stream!Headers, Stream!ChatHeaders
  <2> QED BY <1>1, <1>2, <2>1, GoStep, ThrowStep DEF Stream!Invalid
<1>3. CASE x1 # "chat"
  <2>1. Stream!Goes("text")
    BY <1>3 DEF Stream!Headers
  <2> QED BY <1>1, <1>3, <2>1, GoStep
<1> QED BY <1>2, <1>3

LEMMA TextStep ==
  ASSUME Stream!StreamInv, Stream!Text
  PROVE  Stream!StreamInv'
<1>1. x6 = "text" /\ x5 = {} /\ x1 # "chat"
  BY DEF Stream!Text, Stream!StreamInv
<1>2. \/ Stream!Throws("MODEL_HTTP_ERROR") \/ Stream!Throws(Stream!Invalid)
      \/ Stream!Settles("ok") \/ Stream!Settles("unreachable")
  BY DEF Stream!Text, Stream!Titled, Stream!Listed, Stream!Tested
<1> QED BY <1>1, <1>2, EndStep, ThrowStep DEF Stream!Invalid

LEMMA FailureStep ==
  ASSUME Stream!StreamInv, Stream!ErrorBody \/ Stream!NetworkFails
  PROVE  Stream!StreamInv'
<1>1. x6 # "ended" /\ (Stream!Throws("MODEL_HTTP_ERROR") \/ Stream!Throws("MODEL_IO"))
  BY DEF Stream!ErrorBody, Stream!NetworkFails
<1> QED BY <1>1, ThrowStep

\* A chunk may complete several lines or none; those it completes follow those
\* that were handled.
LEMMA ChunkStep ==
  ASSUME Stream!StreamInv, Stream!WellFormed(x2), NEW k \in 1..(3 * Len(x2.lines)), Stream!Chunk(k)
  PROVE  Stream!StreamInv'
<1> DEFINE lines == x2.lines
           m == x3 \div 3
           n == (x3 + k) \div 3
           new == SubSeq(lines, m + 1, n)
           S == {lines[i] : i \in DOMAIN lines}
<1>1. x6 = "stream" /\ x5 = {} /\ x3 + k <= 3 * Len(lines) /\ x1 = "chat" /\ x8 = "none"
  BY DEF Stream!StreamInv, Stream!Chunk, Stream!Reading
<1>2. lines \in Seq(S) /\ Len(lines) \in Nat /\ x3 \in Nat /\ k \in Nat
  BY DEF Stream!StreamInv, Stream!WellFormed
<1>3. CASE \E i \in DOMAIN new : Stream!Unreadable(new[i])
  <2>1. Stream!Throws(Stream!Invalid)
    BY <1>3 DEF Stream!Chunk
  <2> QED BY <1>1, <2>1, ThrowStep DEF Stream!Invalid
<1>4. CASE ~\E i \in DOMAIN new : Stream!Unreadable(new[i])
  <2>1. /\ x3' = x3 + k /\ x4' = Stream!HandleAll(x2.wire, x4, new)
        /\ UNCHANGED <<x1, x2, x5, x6, x7, x8>>
    BY <1>4 DEF Stream!Chunk
  <2>2. m \in 0..Len(lines) /\ n \in m..Len(lines)
    <3> HIDE DEF S, lines
    <3> QED BY <1>1, <1>2
  <2>3. x4 = Stream!AfterLines(m) /\ ~Stream!EndsWell /\ ~Stream!EndsWell'
    BY <1>1, <2>1 DEF Stream!StreamInv, Stream!EndsWell
  <2>4. Stream!HandleAll(x2.wire, Stream!AfterLines(m), new) = Stream!AfterLines(n)
    <3> HIDE DEF S, m, n
    <3> QED BY <1>2, <2>2, HandledInParts DEF Stream!AfterLines
  <2>5. x4' = Stream!HandleAll(x2.wire, Stream!NoAnswer, SubSeq(x2.lines, 1, (x3 + k) \div 3))
    BY <2>1, <2>3, <2>4 DEF Stream!AfterLines
  <2>6. x4' = Stream!HandleAll(x2'.wire, Stream!NoAnswer, SubSeq(x2'.lines, 1, x3' \div 3))
    BY <2>1, <2>5
  <2>7. x3' \in 0..(3 * Len(x2.lines))
    BY <1>1, <1>2, <2>1
  <2> HIDE DEF m, n, new, lines, S
  <2> QED BY <1>1, <2>1, <2>3, <2>6, <2>7 DEF Stream!StreamInv, Stream!AbortIsAbort, Stream!AfterLines
<1> QED BY <1>3, <1>4

LEMMA EndOfStreamStep ==
  ASSUME Stream!StreamInv, Stream!WellFormed(x2), Stream!StreamEnds
  PROVE  Stream!StreamInv'
<1> DEFINE lines == x2.lines
           a == Stream!HandleAll(x2.wire, x4, Stream!Rest)
           m == x3 \div 3
           n == (x3 + 1) \div 3
           S == {lines[i] : i \in DOMAIN lines}
<1>1. x6 = "stream" /\ x5 = {} /\ x1 = "chat" /\ x8 = "none"
  BY DEF Stream!StreamInv, Stream!StreamEnds, Stream!Reading
<1>2. CASE Stream!Throws(Stream!Invalid)
  BY <1>1, <1>2, ThrowStep DEF Stream!Invalid
<1>3. CASE ~Stream!Throws(Stream!Invalid)
  <2>1. /\ \A i \in DOMAIN a.calls : Stream!Parses(a.calls[i].args)
        /\ x4' = a /\ x6' = "ended" /\ x8' = "ok"
        /\ UNCHANGED <<x1, x2, x3, x5, x7>>
    BY <1>3 DEF Stream!StreamEnds
  <2>2. lines \in Seq(S) /\ Len(lines) \in Nat /\ x3 \in Nat /\ x3 <= 3 * Len(lines)
    BY DEF Stream!StreamInv, Stream!WellFormed
  <2>3. x4 = Stream!AfterLines(m) /\ Stream!EndsWell'
    BY <1>1, <2>1 DEF Stream!StreamInv, Stream!EndsWell
  <2>4. m \in 0..Len(lines) /\ n \in m..Len(lines) /\ Stream!Rest = SubSeq(lines, m + 1, n)
    <3>1. CASE x3 % 3 = 2
      <4>1. n = m + 1 /\ m \in 0..Len(lines) /\ n \in m..Len(lines) /\ n \in 1..Len(lines)
        <5> HIDE DEF S, lines
        <5> QED BY <2>2, <3>1
      <4>2. Stream!Rest = <<lines[n]>>
        <5> HIDE DEF S
        <5> QED BY <3>1, <4>1 DEF Stream!Rest
      <4>3. SubSeq(lines, n, n) = <<lines[n]>>
        <5> HIDE DEF S, n, m
        <5>1. n \in Int /\ Len(SubSeq(lines, n, n)) = 1 /\ SubSeq(lines, n, n)[1] = lines[n]
          BY <2>2, <4>1
        <5>2. SubSeq(lines, n, n) \in Seq(S) /\ <<lines[n]>> \in Seq(S)
          BY <2>2, <4>1
        <5> DEFINE s == SubSeq(lines, n, n)
                   t == <<lines[n]>>
        <5>3. Len(t) = 1 /\ t[1] = lines[n]
          OBVIOUS
        <5> HIDE DEF lines
        <5>4. Len(s) = Len(t) /\ \A i \in 1..Len(s) : s[i] = t[i]
          BY <5>1, <5>3
        <5>5. s \in Seq(S) /\ t \in Seq(S)
          BY <5>2
        <5> HIDE DEF s, t
        <5>6. s = t
          BY <5>4, <5>5, SeqEqual
        <5> QED BY <5>6 DEF s, t
      <4> HIDE DEF S, n, m, lines
      <4> QED BY <4>1, <4>2, <4>3
    <3>2. CASE x3 % 3 # 2
      <4>1. n = m /\ m \in 0..Len(lines) /\ n \in m..Len(lines) /\ m \in Int /\ m < m + 1
        <5> HIDE DEF S, lines
        <5> QED BY <2>2, <3>2
      <4>2. Stream!Rest = <<>>
        BY <3>2 DEF Stream!Rest
      <4> HIDE DEF S, n, m, lines
      <4>3. SubSeq(lines, m + 1, n) = <<>>
        BY <4>1, SubSeqEmpty
      <4> QED BY <4>1, <4>2, <4>3
    <3> QED BY <3>1, <3>2
  <2>5. a = Stream!AfterLines(n)
    <3> HIDE DEF S, m, n
    <3> QED BY <2>2, <2>3, <2>4, HandledInParts DEF Stream!AfterLines
  <2>6. \A i : Stream!AfterLines(i)' = Stream!AfterLines(i)
    BY <2>1 DEF Stream!AfterLines
  <2>7. x4' = Stream!AfterLines((x3 + 1) \div 3)'
    BY <2>1, <2>5, <2>6
  <2> HIDE DEF m, n, a, lines, S
  <2>8. \A i \in DOMAIN x4'.calls : Stream!Parses(x4'.calls[i].args)
    BY <2>1
  <2> QED BY <1>1, <2>1, <2>3, <2>7, <2>8 DEF Stream!StreamInv, Stream!AbortIsAbort, Stream!Parses
<1> QED BY <1>2, <1>3

LEMMA StreamKept ==
  ASSUME Stream!StreamInv, [Stream!StreamNext]_(Stream!streamVars), \A b \in Bodies : Stream!WellFormed(b)
  PROVE  Stream!StreamInv'
<1>1. Stream!WellFormed(x2)
  BY DEF Stream!StreamInv
<1>2. CASE UNCHANGED Stream!streamVars
  <2>1. \A n : Stream!AfterLines(n)' = Stream!AfterLines(n)
    BY <1>2 DEF Stream!streamVars, Stream!AfterLines
  <2> QED BY <1>2, <2>1 DEF Stream!streamVars, Stream!StreamInv, Stream!EndsWell, Stream!AbortIsAbort, Stream!Parses
<1>3. CASE Stream!StreamNext
  BY <1>1, <1>3, AbortStep, RejectStep, CancelStep, HeaderStep, TextStep, FailureStep,
     EndOfStreamStep, ChunkStep DEF Stream!StreamNext
<1> QED BY <1>2, <1>3

LEMMA StreamIsTheBody ==
  ASSUME Stream!StreamInv, \A b \in Bodies : Stream!WellFormed(b)
  PROVE  Stream!AnswerIsTheBody
<1>1. Stream!AnswerIsWhatArrived
  BY DEF Stream!StreamInv, Stream!EndsWell, Stream!AnswerIsWhatArrived, Stream!AfterLines
<1>2. Stream!ArgumentsAreTheCalls
  <2>1. CASE Stream!EndsWell
    <3> DEFINE n == (x3 + 1) \div 3
    <3>1. x4 = Stream!AfterLines(n) /\ n \in 0..Len(x2.lines) /\ Stream!WellFormed(x2)
      <4>0. Stream!WellFormed(x2) /\ x3 \in 0..(3 * Len(x2.lines))
        BY DEF Stream!StreamInv
      <4>1. Len(x2.lines) \in Nat
        BY <4>0 DEF Stream!WellFormed
      <4>2. n \in 0..Len(x2.lines)
        BY <4>0, <4>1
      <4>3. x4 = Stream!AfterLines((IF Stream!EndsWell THEN x3 + 1 ELSE x3) \div 3)
        BY <2>1 DEF Stream!StreamInv, Stream!EndsWell
      <4> QED BY <2>1, <4>0, <4>2, <4>3
    <3>2. PICK owner : CallsApart(x4, owner)
      <4> HIDE DEF n
      <4> QED BY <3>1, LinesKeepCallsApart
    <3> QED BY <2>1, <3>2, ParsedAreTheCalls DEF Stream!StreamInv, Stream!ArgumentsAreTheCalls
  <2>2. CASE x8 = "ok" /\ x1 # "chat"
    BY <2>2 DEF Stream!StreamInv, Stream!ArgumentsAreTheCalls, Stream!NoAnswer
  <2> QED BY <2>1, <2>2 DEF Stream!EndsWell, Stream!ArgumentsAreTheCalls
<1> QED BY <1>1, <1>2 DEF Stream!StreamInv, Stream!AnswerIsTheBody

StreamPart == part = "stream" => Stream!StreamInv

LEMMA StreamAlone == part = "stream" /\ [Next]_all => [Stream!StreamNext]_(Stream!streamVars)
BY DEF Next, all, Stream!streamVars, KeepAfter8

\* However the network cuts an answer and whoever aborts it, the caller of a
\* model gets what the lines that arrived say, every call with its own arguments
\* or with none, and a request the user has aborted ends as aborted
\* (openaiProvider.ts, ollamaProvider.ts, providerUtils.ts).
THEOREM AnswersAlwaysTheBody == Spec => []AnswerIsTheBody
<1>1. Init => StreamPart
  BY StreamInitially, StreamConstants DEF Init, StreamPart
<1>2. StreamPart /\ [Next]_all => StreamPart'
  BY PartStays, StreamAlone, StreamKept, StreamConstants DEF StreamPart
<1>3. StreamPart => AnswerIsTheBody
  BY StreamIsTheBody, StreamConstants DEF StreamPart, AnswerIsTheBody
<1> QED BY <1>1, <1>2, <1>3, PTL DEF Spec

-----------------------------------------------------------------------------
(* The conversations: x1 sessionOf, x2 phase, x3 aborted, x4 registered,    *)
(* x5 pending, x6 news, x7 told, x8 stored, x9 scopes, x10 tasks,           *)
(* x11 deletion, x12 app, x13 channel, x14 lost, x15 excused, x16 faults,   *)
(* x17 screen, x18 listed, x19 active, x20 watchdog, x21 doomed, x22 card,  *)
(* x23 replies, x24 overtaken, x25 moves.                                   *)

LEMMA ChatCardinality == \A S : Chat!Cardinality(S) = Cardinality(S)
BY DEF Cardinality, Chat!Cardinality

LEMMA RunsQuiet ==
  ASSUME Chat!RunsInv, UNCHANGED <<x2, x3, x4, x5, x7, x12>>, x14 \subseteq x14'
  PROVE  Chat!RunsInv'
BY DEF Chat!RunsInv, Chat!Alive

\* A run that waits for nothing goes on.
LEMMA RunMoves ==
  ASSUME Chat!RunsInv, NEW r \in ChatRun, NEW next \in {"reading", "working", "closing", "over"},
         x2[r] # "waiting", x2' = [x2 EXCEPT ![r] = next],
         UNCHANGED <<x3, x5, x12>>, x14 \subseteq x14',
         x4' = IF next = "over" \/ x12 # "up" THEN x4 \ {r} ELSE x4 \cup {r},
         x7' \in [ChatRun -> 0..1], \A o \in ChatRun \ {r} : x7'[o] = x7[o],
         IF next \in {"closing", "over"} THEN x12 = "up" => x7'[r] = 1 \/ r \in x14' ELSE x7'[r] = 0,
         x12 # "up" => next = "over" \/ r \in x3
  PROVE  Chat!RunsInv'
<1>1. /\ x2' \in [ChatRun -> {"unborn", "reading", "working", "waiting", "closing", "over"}]
      /\ x2'[r] = next /\ \A o \in ChatRun \ {r} : x2'[o] = x2[o]
  BY DEF Chat!RunsInv
<1>2. \A o \in ChatRun : x2'[o] = "waiting" <=> x2[o] = "waiting"
  BY <1>1
<1>3. \A o \in ChatRun : x2'[o] = "waiting" <=> \E q \in x5' : q.run = o
  BY <1>2 DEF Chat!RunsInv
<1>4. x4' = IF x12' = "up" THEN {o \in ChatRun : Chat!Alive(o)'} ELSE {}
  <2>1. CASE x12 = "up"
    <3>1. \A o \in ChatRun \ {r} : Chat!Alive(o)' <=> o \in x4
      BY <1>1, <2>1 DEF Chat!RunsInv, Chat!Alive
    <3>2. Chat!Alive(r)' <=> next # "over"
      BY <1>1 DEF Chat!Alive
    <3>3. x4 \subseteq ChatRun
      BY <2>1 DEF Chat!RunsInv
    <3> QED BY <2>1, <3>1, <3>2, <3>3
  <2>2. CASE x12 # "up"
    BY <2>2 DEF Chat!RunsInv
  <2> QED BY <2>1, <2>2
<1>5. x12' # "up" => x5' = {} /\ \A o \in ChatRun : Chat!Alive(o)' => o \in x3'
  BY <1>1 DEF Chat!RunsInv, Chat!Alive
<1>6. \A o \in ChatRun : IF x2'[o] \in {"closing", "over"} THEN x12' = "up" => x7'[o] = 1 \/ o \in x14'
                     ELSE x7'[o] = 0
  BY <1>1 DEF Chat!RunsInv
<1> QED BY <1>1, <1>3, <1>4, <1>5, <1>6 DEF Chat!RunsInv

\* What is settled lets the runs that waited for it go on.
LEMMA ResumedRuns ==
  ASSUME Chat!RunsInv, NEW Q \in SUBSET x5
  PROVE  /\ Chat!Resumed(Q) \in [ChatRun -> {"unborn", "reading", "working", "waiting", "closing", "over"}]
         /\ \A r \in ChatRun : \/ Chat!Resumed(Q)[r] = "working" /\ x2[r] = "waiting" /\ \E q \in Q : q.run = r
                               \/ Chat!Resumed(Q)[r] = x2[r] /\ \A q \in Q : q.run # r
BY DEF Chat!RunsInv, Chat!Resumed

LEMMA RequestsSettled ==
  ASSUME Chat!RunsInv, NEW Q \in SUBSET x5, x5' = x5 \ Q, x2' = Chat!Resumed(Q),
         UNCHANGED <<x7, x14>>, x3 \subseteq x3', x3' \subseteq ChatRun,
         \A q \in x5 \ Q : q.run \notin x3',
         \/ x12' = x12 /\ x4' = x4
         \/ x12' = "quitting" /\ x4' = {} /\ x12 = "up" /\ Q = x5 /\ x3' = x3 \cup x4
  PROVE  Chat!RunsInv' /\ \A r \in ChatRun : (Chat!Alive(r)' <=> Chat!Alive(r)) /\ (x2'[r] = "unborn" => x2[r] = "unborn")
<1>1. /\ x2' \in [ChatRun -> {"unborn", "reading", "working", "waiting", "closing", "over"}]
      /\ \A r \in ChatRun : \/ x2'[r] = "working" /\ x2[r] = "waiting" /\ \E q \in Q : q.run = r
                            \/ x2'[r] = x2[r] /\ \A q \in Q : q.run # r
  BY ResumedRuns
<1>2. \A r \in ChatRun : (Chat!Alive(r)' <=> Chat!Alive(r)) /\ (x2'[r] = "unborn" => x2[r] = "unborn")
  BY <1>1 DEF Chat!Alive
<1>3. ASSUME NEW r \in ChatRun PROVE x2'[r] = "waiting" <=> \E q \in x5' : q.run = r
  <2>1. CASE \E q \in Q : q.run = r
    <3>1. x2'[r] = "working"
      BY <1>1, <2>1
    <3>2. \A q \in x5' : q.run # r
      BY <2>1 DEF Chat!RunsInv
    <3> QED BY <3>1, <3>2
  <2>2. CASE \A q \in Q : q.run # r
    <3>1. x2'[r] = x2[r]
      BY <1>1, <2>2
    <3>2. (\E q \in x5' : q.run = r) <=> (\E q \in x5 : q.run = r)
      BY <2>2
    <3> QED BY <3>1, <3>2 DEF Chat!RunsInv
  <2> QED BY <2>1, <2>2
<1>4. x4' = IF x12' = "up" THEN {r \in ChatRun : Chat!Alive(r)'} ELSE {}
  <2>1. {r \in ChatRun : Chat!Alive(r)'} = {r \in ChatRun : Chat!Alive(r)}
    BY <1>2
  <2> QED BY <2>1 DEF Chat!RunsInv
<1>5. x12' # "up" => x5' = {} /\ \A r \in ChatRun : Chat!Alive(r)' => r \in x3'
  BY <1>2 DEF Chat!RunsInv
<1>6. \A r \in ChatRun : IF x2'[r] \in {"closing", "over"} THEN x12' = "up" => x7'[r] = 1 \/ r \in x14'
                     ELSE x7'[r] = 0
  BY <1>1 DEF Chat!RunsInv
<1>7. \A q \in x5' : q.run \in ChatRun \ x3'
  BY DEF Chat!RunsInv
<1> QED BY <1>1, <1>2, <1>3, <1>4, <1>5, <1>6, <1>7 DEF Chat!RunsInv

LEMMA AbortedRuns ==
  ASSUME Chat!RunsInv, NEW R, R \subseteq x4, x12 = "up", Chat!Aborted(R), UNCHANGED <<x7, x14>>,
         \/ x12' = x12 /\ x4' = x4
         \/ x12' = "quitting" /\ x4' = {} /\ R = x4
  PROVE  Chat!RunsInv' /\ \A r \in ChatRun : (Chat!Alive(r)' <=> Chat!Alive(r)) /\ (x2'[r] = "unborn" => x2[r] = "unborn")
<1> DEFINE Q == {q \in x5 : q.run \in R}
<1>1. x5' = x5 \ Q /\ x2' = Chat!Resumed(Q) /\ x3' = x3 \cup R /\ Q \subseteq x5
  BY DEF Chat!Aborted
<1>2. x4 = {r \in ChatRun : Chat!Alive(r)}
  BY DEF Chat!RunsInv
<1>3. x3' \subseteq ChatRun
  BY <1>1, <1>2 DEF Chat!RunsInv
<1>4. \A q \in x5 \ Q : q.run \notin x3'
  BY <1>1 DEF Chat!RunsInv
<1>5. R = x4 => Q = x5
  <2> SUFFICES ASSUME R = x4, NEW q \in x5 PROVE q.run \in R
    OBVIOUS
  <2>1. q.run \in ChatRun /\ x2[q.run] = "waiting"
    BY DEF Chat!RunsInv
  <2> QED BY <1>2, <2>1 DEF Chat!Alive
<1> HIDE DEF Q
<1> QED BY <1>1, <1>3, <1>4, <1>5, RequestsSettled

LEMMA AnswerRuns ==
  ASSUME Chat!RunsInv, NEW q, Chat!Answer(q)
  PROVE  Chat!RunsInv' /\ (\A r \in ChatRun : (Chat!Alive(r)' <=> Chat!Alive(r)) /\ (x2'[r] = "unborn" => x2[r] = "unborn")) /\ UNCHANGED <<x1, Chat!dataVars, x12>>
<1>1. {q} \cap x5 \in SUBSET x5 /\ x5' = x5 \ ({q} \cap x5)
      /\ x2' = Chat!Resumed({q} \cap x5) /\ UNCHANGED <<x7, x14, x3, x12, x4, x1, Chat!dataVars>>
  BY DEF Chat!Answer, Chat!Silent
<1>2. x3' \subseteq ChatRun /\ \A p \in x5 : p.run \notin x3'
  BY <1>1 DEF Chat!RunsInv
<1> QED BY <1>1, <1>2, RequestsSettled

LEMMA EmitKeeps ==
  ASSUME NEW e, NEW delivered \in BOOLEAN, Chat!Emit(e, delivered)
  PROVE  /\ x14 \subseteq x14' /\ (~delivered => e.run \in x14')
BY DEF Chat!Emit

LEMMA TellOnce ==
  ASSUME Chat!RunsInv, NEW r \in ChatRun, NEW kind, x2[r] \notin {"closing", "over"}, Chat!Tell(r, kind)
  PROVE  /\ x7' \in [ChatRun -> 0..1] /\ (\A o \in ChatRun \ {r} : x7'[o] = x7[o]) /\ x14 \subseteq x14'
         /\ x7'[r] = 1 \/ r \in x14'
<1>1. PICK delivered \in BOOLEAN :
        /\ Chat!Emit(Chat!Event(kind, r, 0), delivered)
        /\ x7' = IF delivered THEN [x7 EXCEPT ![r] = @ + 1] ELSE x7
  BY DEF Chat!Tell
<1>2. x7 \in [ChatRun -> 0..1] /\ x7[r] = 0
  BY DEF Chat!RunsInv
<1>3. Chat!Event(kind, r, 0).run = r
  BY DEF Chat!Event
<1>4. x14 \subseteq x14' /\ (~delivered => r \in x14')
  BY <1>1, <1>3, EmitKeeps
<1>5. CASE delivered
  BY <1>1, <1>2, <1>4, <1>5
<1>6. CASE ~delivered
  BY <1>1, <1>2, <1>4, <1>6
<1> QED BY <1>5, <1>6

LEMMA AskRuns ==
  ASSUME Chat!RunsInv, NEW r \in ChatRun, x12 # "gone", NEW kind \in {"question", "approval"}, Chat!Ask(r, kind)
  PROVE  Chat!RunsInv'
<1>1. PICK q : /\ x5' = x5 \cup {q} /\ q.run = r /\ x2[r] = "working" /\ r \notin x3
               /\ \A p \in x5 : p.run # r
               /\ x2' = [x2 EXCEPT ![r] = "waiting"] /\ UNCHANGED <<x3, x4, x7, x12>>
               /\ x14 \subseteq x14'
  <2>1. Chat!Request(kind, r).run = r
    BY DEF Chat!Request
  <2>2. x14 \subseteq x14'
    BY EmitKeeps DEF Chat!Ask
  <2> QED BY <2>1, <2>2 DEF Chat!Ask, Chat!Goto
<1>2. x12 = "up"
  BY <1>1 DEF Chat!RunsInv, Chat!Alive
<1>3. /\ x2' \in [ChatRun -> {"unborn", "reading", "working", "waiting", "closing", "over"}]
      /\ x2'[r] = "waiting" /\ \A o \in ChatRun \ {r} : x2'[o] = x2[o]
  BY <1>1 DEF Chat!RunsInv
<1>4. \A o \in ChatRun : x2'[o] = "waiting" <=> \E p \in x5' : p.run = o
  <2>1. ASSUME NEW o \in ChatRun \ {r} PROVE x2'[o] = "waiting" <=> \E p \in x5' : p.run = o
    BY <1>1, <1>3 DEF Chat!RunsInv
  <2>2. x2'[r] = "waiting" /\ \E p \in x5' : p.run = r
    BY <1>1, <1>3
  <2> QED BY <2>1, <2>2
<1>5. \A x, y \in x5' : x.run = y.run => x = y
  BY <1>1 DEF Chat!RunsInv
<1>6. {o \in ChatRun : Chat!Alive(o)'} = {o \in ChatRun : Chat!Alive(o)}
  BY <1>1, <1>3 DEF Chat!Alive
<1>7. \A x \in x5' : x.run \in ChatRun \ x3'
  BY <1>1 DEF Chat!RunsInv
<1>8. \A o \in ChatRun : IF x2'[o] \in {"closing", "over"} THEN x12' = "up" => x7'[o] = 1 \/ o \in x14'
                     ELSE x7'[o] = 0
  BY <1>1, <1>3 DEF Chat!RunsInv
<1> QED BY <1>1, <1>2, <1>3, <1>4, <1>5, <1>6, <1>7, <1>8 DEF Chat!RunsInv

\* The steps of a run, and what they leave alone.
LEMMA RunSteps ==
  ASSUME Chat!RunsInv, NEW r \in ChatRun, x12 # "gone", Chat!RunStep(r)
  PROVE  /\ Chat!RunsInv' /\ UNCHANGED <<x1, x8, x9, x11, x15, x12>>
         /\ \A o \in ChatRun : (Chat!Alive(o)' => Chat!Alive(o)) /\ (x2'[o] = "unborn" => x2[o] = "unborn")
         /\ x10' = x10 \/ (x10' = x10 \cup {r} /\ Chat!Alive(r))
<1>0. /\ x7 \in [ChatRun -> 0..1] /\ x4 \subseteq ChatRun /\ x2 \in [ChatRun -> {"unborn", "reading", "working", "waiting", "closing", "over"}]
      /\ (x12 = "up" /\ Chat!Alive(r)) => r \in x4
      /\ x12 # "up" => x4 = {} /\ (Chat!Alive(r) => r \in x3)
  BY DEF Chat!RunsInv
<1> DEFINE Kept == UNCHANGED <<x1, x8, x9, x11, x15, x12, x10>>
<1>1. ASSUME NEW next \in {"working", "waiting", "closing", "over"}, x2' = [x2 EXCEPT ![r] = next], Chat!Alive(r)
      PROVE  \A o \in ChatRun : (Chat!Alive(o)' => Chat!Alive(o)) /\ (x2'[o] = "unborn" => x2[o] = "unborn")
  <2>1. x2'[r] = next /\ \A o \in ChatRun \ {r} : x2'[o] = x2[o]
    BY <1>0, <1>1
  <2> QED BY <1>1, <2>1 DEF Chat!Alive
<1>2. CASE Chat!Prepared(r)
  <2>1. /\ x2[r] = "reading" /\ r \notin x3 /\ x2' = [x2 EXCEPT ![r] = "working"]
        /\ UNCHANGED <<x3, x4, x5, x7, x14>> /\ Kept
    BY <1>2 DEF Chat!Prepared, Chat!Goto, Chat!Silent, Chat!dataVars
  <2>2. Chat!Alive(r) /\ x7[r] = 0
    BY <2>1 DEF Chat!RunsInv, Chat!Alive
  <2>3. Chat!RunsInv'
    BY <1>0, <2>1, <2>2, RunMoves
  <2> QED BY <1>1, <2>1, <2>2, <2>3
<1>3. CASE Chat!Stream(r)
  <2>1. Chat!Emit(Chat!Event("chunk", r, 0), x12 = "up") /\ UNCHANGED <<x2, x3, x4, x5, x7>> /\ Kept
    BY <1>3 DEF Chat!Stream, Chat!dataVars
  <2>2. x14 \subseteq x14'
    BY <2>1, EmitKeeps
  <2> QED BY <2>1, <2>2, RunsQuiet DEF Chat!Alive
<1>4. CASE Chat!CreateTask(r)
  <2>1. /\ x2[r] = "working" /\ x10' = x10 \cup {r}
        /\ UNCHANGED <<x1, x2, x3, x4, x5, x7, x14, x8, x9, x11, x15, x12>>
    BY <1>4 DEF Chat!CreateTask, Chat!Silent, Chat!runVars
  <2> QED BY <2>1, RunsQuiet DEF Chat!Alive
<1>5. ASSUME NEW kind \in {"question", "approval"}, Chat!Ask(r, kind)
      PROVE  Chat!RunsInv' /\ Kept /\ \A o \in ChatRun : (Chat!Alive(o)' => Chat!Alive(o)) /\ (x2'[o] = "unborn" => x2[o] = "unborn")
  <2>1. x2[r] = "working" /\ x2' = [x2 EXCEPT ![r] = "waiting"] /\ Kept
    BY <1>5 DEF Chat!Ask, Chat!Goto, Chat!dataVars
  <2>2. Chat!Alive(r)
    BY <2>1 DEF Chat!Alive
  <2> QED BY <1>1, <1>5, <2>1, <2>2, AskRuns
<1>6. CASE Chat!Done(r) \/ Chat!Fail(r)
  <2>1. /\ x2[r] \in {"reading", "working"} /\ x2' = [x2 EXCEPT ![r] = "closing"]
        /\ UNCHANGED <<x3, x4, x5>> /\ Kept
    BY <1>6 DEF Chat!Done, Chat!Fail, Chat!Goto, Chat!dataVars
  <2>2. PICK kind \in {"done", "error"} : Chat!Tell(r, kind)
    BY <1>6 DEF Chat!Done, Chat!Fail
  <2>3. /\ x7' \in [ChatRun -> 0..1] /\ (\A o \in ChatRun \ {r} : x7'[o] = x7[o]) /\ x14 \subseteq x14'
        /\ x7'[r] = 1 \/ r \in x14'
    BY <2>1, <2>2, TellOnce
  <2>4. Chat!Alive(r)
    BY <2>1 DEF Chat!Alive
  <2>5. x4' = IF x12 # "up" THEN x4 \ {r} ELSE x4 \cup {r}
    BY <1>0, <2>1, <2>4
  <2>6. Chat!RunsInv'
    BY <1>0, <2>1, <2>3, <2>4, <2>5, RunMoves
  <2> QED BY <1>1, <2>1, <2>4, <2>6
<1>7. CASE Chat!Settle(r)
  <2>1. /\ x2[r] = "closing" /\ x2' = [x2 EXCEPT ![r] = "over"] /\ x4' = x4 \ {r}
        /\ UNCHANGED <<x3, x5, x7, x14>> /\ Kept
    BY <1>7 DEF Chat!Settle, Chat!Goto, Chat!Silent, Chat!dataVars
  <2>2. x12 = "up" => x7'[r] = 1 \/ r \in x14'
    BY <2>1 DEF Chat!RunsInv
  <2>3. Chat!Alive(r)
    BY <2>1 DEF Chat!Alive
  <2>4. Chat!RunsInv'
    BY <1>0, <2>1, <2>2, RunMoves
  <2> QED BY <1>1, <2>1, <2>3, <2>4
<1> QED BY <1>2, <1>3, <1>4, <1>5, <1>6, <1>7 DEF Chat!RunStep

LEMMA StartRuns ==
  ASSUME Chat!RunsInv, NEW r \in ChatRun, NEW s, Chat!Start(r, s)
  PROVE  /\ Chat!RunsInv' /\ x12 = "up" /\ x12' = "up" /\ x2[r] = "unborn" /\ x2'[r] = "reading"
         /\ \A o \in ChatRun \ {r} : x2'[o] = x2[o]
<1>1. /\ x2[r] = "unborn" /\ x2' = [x2 EXCEPT ![r] = "reading"] /\ x4' = x4 \cup {r}
      /\ x12 = "up" /\ UNCHANGED <<x3, x5, x7, x14, x12>>
  BY DEF Chat!Start, Chat!Goto
<1>2. x2 \in [ChatRun -> {"unborn", "reading", "working", "waiting", "closing", "over"}] /\ x7 \in [ChatRun -> 0..1] /\ x7[r] = 0
  BY <1>1 DEF Chat!RunsInv
<1>3. Chat!RunsInv'
  BY <1>1, <1>2, RunMoves
<1> QED BY <1>1, <1>2, <1>3

LEMMA QuitRuns ==
  ASSUME Chat!RunsInv, Chat!Quit
  PROVE  /\ Chat!RunsInv' /\ (\A r \in ChatRun : (Chat!Alive(r)' <=> Chat!Alive(r)) /\ (x2'[r] = "unborn" => x2[r] = "unborn")) /\ x12' # "up"
         /\ UNCHANGED <<x1, x8, x9, x10, x11, x15>>
<1>1. /\ x12 = "up" /\ x12' = "quitting" /\ Chat!Aborted(x4) /\ x4' = {}
      /\ UNCHANGED <<x1, x7, x14, x8, x9, x10, x11, x15>>
  BY DEF Chat!Quit, Chat!dataVars
<1>2. Chat!RunsInv' /\ \A r \in ChatRun : (Chat!Alive(r)' <=> Chat!Alive(r)) /\ (x2'[r] = "unborn" => x2[r] = "unborn")
  BY <1>1, AbortedRuns
<1> QED BY <1>1, <1>2

LEMMA ExitRuns ==
  ASSUME Chat!RunsInv, Chat!Exit
  PROVE  Chat!RunsInv' /\ \A r \in ChatRun : ~Chat!Alive(r)' /\ (x2'[r] = "unborn" => x2[r] = "unborn")
<1>1. /\ x12 = "quitting" /\ x12' = "gone" /\ UNCHANGED <<x3, x4, x5, x7, x14>>
      /\ x2' = [r \in ChatRun |-> IF x2[r] = "unborn" THEN "unborn" ELSE "over"]
  BY DEF Chat!Exit, Chat!Silent
<1>2. /\ x2' \in [ChatRun -> {"unborn", "reading", "working", "waiting", "closing", "over"}]
      /\ \A r \in ChatRun : x2'[r] = IF x2[r] = "unborn" THEN "unborn" ELSE "over"
  BY <1>1
<1>3. \A r \in ChatRun : ~Chat!Alive(r)' /\ (x2'[r] = "unborn" => x2[r] = "unborn") /\ x2'[r] # "waiting"
  BY <1>2 DEF Chat!Alive
<1>4. x5' = {}
  BY <1>1 DEF Chat!RunsInv
<1>5. x4' = {} /\ \A r \in ChatRun : IF x2'[r] \in {"closing", "over"} THEN TRUE ELSE x7'[r] = 0
  BY <1>1, <1>2 DEF Chat!RunsInv
<1>6. x7' \in [ChatRun -> 0..1] /\ x3' \subseteq ChatRun
  BY <1>1 DEF Chat!RunsInv
<1> QED BY <1>1, <1>2, <1>3, <1>4, <1>5, <1>6 DEF Chat!RunsInv

-----------------------------------------------------------------------------
(* What is left of a session.                                              *)

\* Steps that start nothing and take nothing apart.
LEMMA RestKept ==
  ASSUME Chat!DeletionInv, Chat!RestInv, UNCHANGED <<x1, x8, x9, x11, x15>>,
         x12' = x12 \/ x12' # "up",
         \A r \in ChatRun : (Chat!Alive(r)' => Chat!Alive(r)) /\ (x2'[r] = "unborn" => x2[r] = "unborn"),
         NEW T \in SUBSET ChatRun, x10' = x10 \cup T, \A r \in T : Chat!Alive(r),
         x17' \in x18 \cup {x17, NoSession}, x18' \subseteq x18
  PROVE  Chat!DeletionInv' /\ Chat!RestInv'
<1>1. Chat!Rest' = Chat!Rest
  BY DEF Chat!Rest
<1>2. \A P : Chat!PastWait(P)' => Chat!PastWait(P)
  BY DEF Chat!PastWait
<1>3. \A s : s \notin Chat!Rest \/ (Chat!PastWait({"deleted"}) /\ s = x11.session) => Chat!TasksOf(s)' = Chat!TasksOf(s)
  <2> SUFFICES ASSUME NEW s, s \notin Chat!Rest \/ (Chat!PastWait({"deleted"}) /\ s = x11.session)
               PROVE  Chat!TasksOf(s)' = Chat!TasksOf(s)
    OBVIOUS
  <2>1. \A r \in T : x1[r] # s
    BY DEF Chat!RestInv, Chat!DeletionInv, Chat!PastWait
  <2> QED BY <2>1 DEF Chat!TasksOf
<1>4. Chat!DeletionInv'
  BY <1>2, <1>3 DEF Chat!DeletionInv
<1>5. Chat!NothingLeftBehind'
  BY <1>3 DEF Chat!RestInv, Chat!NothingLeftBehind, Chat!Rest
<1>6. \A r \in x10' : r \in ChatRun /\ x2'[r] # "unborn"
  BY DEF Chat!RestInv, Chat!Alive
<1>7. x17' \in (Chat!Rest' \cap Session) \cup {NoSession} /\ x18' \subseteq Chat!Rest' \cap Session /\ x8' \subseteq Session
  BY <1>1 DEF Chat!RestInv
<1> QED BY <1>1, <1>4, <1>5, <1>6, <1>7 DEF Chat!RestInv
\* A run starts in the session on the screen, of which a deletion is not on.
LEMMA SendKeepsRest ==
  ASSUME Chat!RunsInv, Chat!DeletionInv, Chat!RestInv, NEW r \in ChatRun, Chat!Send(r)
  PROVE  Chat!RunsInv' /\ Chat!DeletionInv' /\ Chat!RestInv'
<1>1. /\ x17 # NoSession /\ x11.phase = "none" /\ Chat!Start(r, x17)
      /\ UNCHANGED <<x17, x18, x8, x11, x15, x10>>
      /\ x1' = [x1 EXCEPT ![r] = x17] /\ x9' = x9 \cup {x17}
  BY DEF Chat!Send, Chat!Unlocked, Chat!Start
<1>2. /\ Chat!RunsInv' /\ x12 = "up" /\ x12' = "up" /\ x2[r] = "unborn" /\ x2'[r] = "reading"
      /\ \A o \in ChatRun \ {r} : x2'[o] = x2[o]
  BY <1>1, StartRuns
<1>3. x17 \in Session /\ x17 \in x8 \cup x15 \cup {x11.session}
  BY <1>1 DEF Chat!RestInv, Chat!Rest
<1>4. x11.session = NoSession
  BY <1>1 DEF Chat!DeletionInv
<1>5. x17 \in x8 \cup x15
  BY <1>3, <1>4, RunsConstants
<1>6. /\ x1' \in [ChatRun -> Session \cup {NoSession}] /\ x1'[r] = x17
      /\ \A o \in ChatRun \ {r} : x1'[o] = x1[o]
  BY <1>1, <1>3 DEF Chat!RestInv
<1>7. Chat!DeletionInv'
  BY <1>1 DEF Chat!DeletionInv, Chat!PastWait
<1>8. Chat!Rest' = Chat!Rest /\ x17 \in Chat!Rest
  BY <1>1, <1>3 DEF Chat!Rest
<1>9. \A o \in ChatRun : Chat!Alive(o)' => x1'[o] \in Chat!Rest' \cap Session
  BY <1>2, <1>3, <1>6, <1>8 DEF Chat!RestInv, Chat!Alive
<1>10. \A o \in x10 : o \in ChatRun \ {r} /\ x2'[o] # "unborn"
  BY <1>2 DEF Chat!RestInv
<1>11. \A s : Chat!TasksOf(s)' = Chat!TasksOf(s)
  BY <1>1, <1>6, <1>10 DEF Chat!TasksOf
<1>12. Chat!NothingLeftBehind'
  BY <1>1, <1>5, <1>11 DEF Chat!RestInv, Chat!NothingLeftBehind
<1> QED BY <1>1, <1>2, <1>6, <1>7, <1>8, <1>9, <1>10, <1>12 DEF Chat!RestInv

LEMMA DeleteKeepsRest ==
  ASSUME Chat!RunsInv, Chat!DeletionInv, Chat!RestInv, Chat!ConfirmDelete
  PROVE  Chat!RunsInv' /\ Chat!DeletionInv' /\ Chat!RestInv'
<1>1. PICK s \in x18 : Chat!Delete(s) /\ x11.phase = "none" /\ UNCHANGED <<x17, x18>>
  BY DEF Chat!ConfirmDelete, Chat!Unlocked
<1> DEFINE runs == Chat!RunsOf(s, ChatRun)
<1>2. /\ x12 = "up" /\ Chat!Aborted(runs) /\ UNCHANGED <<x1, x4, x7, x8, x9, x10, x15, x12, x14>>
      /\ x11' = [session |-> s, phase |-> IF runs = {} THEN "deleting" ELSE "waiting", waits |-> runs]
  BY <1>1 DEF Chat!Delete, Chat!Deletion, Chat!Silent
<1>3. x4 = {r \in ChatRun : Chat!Alive(r)} /\ runs = {r \in x4 : x1[r] = s} /\ runs \subseteq x4
  BY <1>2 DEF Chat!RunsInv, Chat!RunsOf
<1>4. Chat!RunsInv' /\ \A r \in ChatRun : (Chat!Alive(r)' <=> Chat!Alive(r)) /\ (x2'[r] = "unborn" => x2[r] = "unborn")
  BY <1>2, <1>3, AbortedRuns
<1>5. s \in Session /\ s \in Chat!Rest /\ x11.session = NoSession
  BY <1>1 DEF Chat!RestInv, Chat!DeletionInv
<1>6. s \in x8 \cup x15
  BY <1>5, RunsConstants DEF Chat!Rest
<1>7. runs \subseteq ChatRun /\ \A r \in ChatRun : Chat!Alive(r) /\ x1[r] = s => r \in runs
  BY <1>3
<1> HIDE DEF runs
<1>8. /\ x11' \in Chat!DeletionRecord
      /\ x11'.session = s /\ x11'.waits = runs
      /\ x11'.phase = IF runs = {} THEN "deleting" ELSE "waiting"
  BY <1>2, <1>5, <1>7 DEF Chat!DeletionRecord
<1>9. Chat!DeletionInv'
  <2>1. CASE runs = {}
    BY <1>2, <1>4, <1>7, <1>8, <2>1 DEF Chat!DeletionInv, Chat!PastWait
  <2>2. CASE runs # {}
    BY <1>2, <1>4, <1>7, <1>8, <2>2 DEF Chat!DeletionInv, Chat!PastWait
  <2> QED BY <2>1, <2>2
<1>10. Chat!Rest \cap Session \subseteq Chat!Rest' \cap Session
  BY <1>2, <1>5, RunsConstants DEF Chat!Rest
<1>11. x1 \in [ChatRun -> Session \cup {NoSession}] /\ \A r \in ChatRun : Chat!Alive(r) => x1[r] \in Chat!Rest' \cap Session
  BY <1>10 DEF Chat!RestInv
<1>12. Chat!NothingLeftBehind'
  <2>1. \A x : Chat!TasksOf(x)' = Chat!TasksOf(x)
    BY <1>2 DEF Chat!TasksOf
  <2>2. \A x \in Session : x11.session # x
    BY <1>5, RunsConstants
  <2> QED BY <1>2, <2>1, <2>2 DEF Chat!RestInv, Chat!NothingLeftBehind
<1>13. \A r \in x10' : r \in ChatRun /\ x2'[r] # "unborn"
  BY <1>2, <1>4 DEF Chat!RestInv
<1> QED BY <1>1, <1>2, <1>4, <1>9, <1>10, <1>11, <1>12, <1>13 DEF Chat!RestInv
\* A deletion that goes on takes apart what its session has, and nothing else.
LEMMA RestShrinks ==
  ASSUME Chat!RestInv, UNCHANGED <<x1, x2, x17, x18>>, x11'.session = x11.session,
         x8 \ {x11.session} \subseteq x8', x8' \subseteq x8, x15 \subseteq x15',
         x9' \subseteq x9, x10' \subseteq x10
  PROVE  Chat!RestInv'
<1>1. Chat!Rest \subseteq Chat!Rest'
  BY DEF Chat!Rest
<1>2. \A s : Chat!TasksOf(s)' \subseteq Chat!TasksOf(s)
  BY DEF Chat!TasksOf
<1>3. Chat!NothingLeftBehind'
  <2> SUFFICES ASSUME NEW s \in Session, s \notin x8' \cup x15', x11.session # s
               PROVE  s \notin x9' /\ Chat!TasksOf(s)' = {}
    BY DEF Chat!NothingLeftBehind
  <2>1. s \notin x8 \cup x15
    OBVIOUS
  <2>2. s \notin x9 /\ Chat!TasksOf(s) = {}
    BY <2>1 DEF Chat!RestInv, Chat!NothingLeftBehind
  <2> QED BY <1>2, <2>2
<1>4. \A r \in ChatRun : Chat!Alive(r)' => x1'[r] \in Chat!Rest' \cap Session
  BY <1>1 DEF Chat!RestInv, Chat!Alive
<1> QED BY <1>1, <1>3, <1>4 DEF Chat!RestInv

LEMMA DeletionKeepsRest ==
  ASSUME Chat!RunsInv, Chat!DeletionInv, Chat!RestInv, Chat!DeletionStep, UNCHANGED <<x17, x18>>
  PROVE  Chat!RunsInv' /\ Chat!DeletionInv' /\ Chat!RestInv'
<1> DEFINE Goes(next) ==
      x11' = [x11 EXCEPT !.phase = next]
<1>1. UNCHANGED <<Chat!runVars, x12, x14>>
  BY DEF Chat!DeletionStep, Chat!RunsSettled, Chat!WaitTimesOut, Chat!RowDeleted, Chat!TasksDropped, Chat!DeletionFails, Chat!Silent
<1>2. UNCHANGED <<x1, x2, x3, x4, x5, x7, x12>> /\ x14 \subseteq x14'
  BY <1>1 DEF Chat!runVars
<1>3. Chat!RunsInv' /\ \A r \in ChatRun : Chat!Alive(r)' <=> Chat!Alive(r)
  BY <1>2, RunsQuiet DEF Chat!Alive
<1>4. ASSUME NEW next \in {"deleting", "dropping", "deleted", "failed"}, Goes(next)
      PROVE  /\ x11' \in Chat!DeletionRecord
             /\ x11'.phase = next /\ x11'.session = x11.session
  BY <1>4 DEF Chat!DeletionInv, Chat!DeletionRecord
<1>5. x12 = "up" => x4 = {r \in ChatRun : Chat!Alive(r)}
  BY DEF Chat!RunsInv
<1>6. CASE Chat!RunsSettled
  <2>1. /\ x11.phase = "waiting" /\ x11.waits \cap x4 = {} /\ Goes("deleting")
        /\ UNCHANGED <<x8, x9, x10, x15>>
    BY <1>6 DEF Chat!RunsSettled, Chat!DeletionAt, Chat!Proceed
  <2>2. x12 = "up" => \A r \in ChatRun : Chat!Alive(r) => x1[r] # x11.session
    BY <1>5, <2>1 DEF Chat!DeletionInv
  <2>3. Chat!DeletionInv'
    BY <1>2, <1>3, <1>4, <2>1, <2>2 DEF Chat!DeletionInv, Chat!PastWait
  <2> QED BY <1>2, <1>3, <1>4, <2>1, <2>3, RestShrinks
<1>7. CASE Chat!WaitTimesOut
  <2>1. /\ Goes("deleting") /\ x15' = x15 \cup {x11.session} /\ UNCHANGED <<x8, x9, x10>>
    BY <1>7 DEF Chat!WaitTimesOut, Chat!DeletionAt, Chat!Proceed
  <2>2. Chat!DeletionInv'
    BY <1>4, <2>1 DEF Chat!DeletionInv, Chat!PastWait
  <2> QED BY <1>2, <1>3, <1>4, <2>1, <2>2, RestShrinks
<1>8. CASE Chat!RowDeleted
  <2>1. /\ x11.phase = "deleting" /\ Goes("dropping") /\ x8' = x8 \ {x11.session}
        /\ x9' = x9 \ {x11.session} /\ UNCHANGED <<x10, x15>>
    BY <1>8 DEF Chat!RowDeleted, Chat!DeletionAt, Chat!Proceed
  <2>2. Chat!DeletionInv'
    BY <1>2, <1>3, <1>4, <2>1 DEF Chat!DeletionInv, Chat!PastWait
  <2> QED BY <1>2, <1>3, <1>4, <2>1, <2>2, RestShrinks
<1>9. CASE Chat!TasksDropped
  <2>1. /\ x11.phase = "dropping" /\ Goes("deleted") /\ x10' = x10 \ Chat!TasksOf(x11.session)
        /\ UNCHANGED <<x8, x9, x15>>
    BY <1>9 DEF Chat!TasksDropped, Chat!DeletionAt, Chat!Proceed
  <2>2. {r \in x10' : x1'[r] = x11'.session} = {}
    BY <1>2, <1>4, <2>1 DEF Chat!TasksOf
  <2>3. Chat!DeletionInv'
    <3>1. Chat!TasksOf(x11.session)' = {}
      BY <2>2 DEF Chat!TasksOf
    <3> QED BY <1>2, <1>3, <1>4, <2>1, <3>1 DEF Chat!DeletionInv, Chat!PastWait
  <2> QED BY <1>2, <1>3, <1>4, <2>1, <2>3, RestShrinks
<1>10. CASE Chat!DeletionFails
  <2>1. /\ Goes("failed") /\ x15' = x15 \cup {x11.session} /\ UNCHANGED <<x8, x9>>
        /\ x10' \subseteq x10
    BY <1>10 DEF Chat!DeletionFails, Chat!Proceed
  <2>2. Chat!DeletionInv'
    BY <1>4, <2>1 DEF Chat!DeletionInv, Chat!PastWait
  <2> QED BY <1>2, <1>3, <1>4, <2>1, <2>2, RestShrinks
<1> QED BY <1>6, <1>7, <1>8, <1>9, <1>10 DEF Chat!DeletionStep

LEMMA AnsweredKeepsRest ==
  ASSUME Chat!RunsInv, Chat!DeletionInv, Chat!RestInv, Chat!DeletionAnswered
  PROVE  Chat!RunsInv' /\ Chat!DeletionInv' /\ Chat!RestInv'
<1>1. /\ x12 = "up" /\ x11.phase \in {"deleted", "failed"} /\ x11' = Chat!NoDeletion
      /\ UNCHANGED <<x1, x2, x3, x4, x5, x7, x12, x14, x8, x9, x10, x15>>
      /\ IF x11.phase = "deleted"
         THEN x18' = x18 \ {x11.session} /\ x17' = IF x17 = x11.session THEN NoSession ELSE x17
         ELSE x18' = x8 /\ x17' = x17
  BY DEF Chat!DeletionAnswered, Chat!Answered, Chat!Silent, Chat!runVars
<1>2. Chat!RunsInv' /\ \A r \in ChatRun : Chat!Alive(r)' <=> Chat!Alive(r)
  BY <1>1, RunsQuiet DEF Chat!Alive
<1>3. Chat!NoDeletion.phase = "none" /\ Chat!NoDeletion.session = NoSession /\ Chat!NoDeletion.waits = {}
      /\ Chat!NoDeletion \in Chat!DeletionRecord
  BY DEF Chat!NoDeletion, Chat!DeletionRecord
<1>4. Chat!DeletionInv'
  BY <1>1, <1>3 DEF Chat!DeletionInv, Chat!PastWait
<1>5. x11.session \in x15 \/ (x11.phase = "deleted" /\ Chat!PastWait({"deleting", "dropping", "deleted"})
        /\ Chat!PastWait({"dropping", "deleted"}) /\ Chat!PastWait({"deleted"}))
  BY <1>1 DEF Chat!DeletionInv, Chat!PastWait
<1>6. Chat!Rest' = x8 \cup x15 \cup {NoSession}
  BY <1>1, <1>3 DEF Chat!Rest
<1>7. Chat!Rest \ {x11.session} \subseteq Chat!Rest' /\ (x11.session \in x15 => Chat!Rest \subseteq Chat!Rest')
  BY <1>6 DEF Chat!Rest
<1>8. \A r \in ChatRun : Chat!Alive(r)' => x1'[r] \in Chat!Rest' \cap Session
  BY <1>1, <1>2, <1>5, <1>7 DEF Chat!RestInv, Chat!DeletionInv
<1>9. x17' \in (Chat!Rest' \cap Session) \cup {NoSession} /\ x18' \subseteq Chat!Rest' \cap Session
  BY <1>1, <1>5, <1>6, <1>7 DEF Chat!RestInv
<1>10. Chat!NothingLeftBehind'
  <2> SUFFICES ASSUME NEW s \in Session, s \notin x8 \cup x15
               PROVE  s \notin x9 /\ Chat!TasksOf(s) = {}
    BY <1>1 DEF Chat!NothingLeftBehind, Chat!TasksOf
  <2>1. CASE s = x11.session
    BY <1>5, <2>1 DEF Chat!DeletionInv
  <2>2. CASE s # x11.session
    BY <2>2 DEF Chat!RestInv, Chat!NothingLeftBehind
  <2> QED BY <2>1, <2>2
<1> QED BY <1>1, <1>2, <1>4, <1>8, <1>9, <1>10 DEF Chat!RestInv

LEMMA ExitKeepsRest ==
  ASSUME Chat!RunsInv, Chat!DeletionInv, Chat!RestInv, Chat!Exit, Chat!WindowGone
  PROVE  Chat!RunsInv' /\ Chat!DeletionInv' /\ Chat!RestInv'
<1>1. /\ x12' = "gone" /\ x11' = Chat!NoDeletion /\ x9' = {} /\ x17' = NoSession /\ x18' = {}
      /\ x15' = x15 \cup ({x11.session} \cap Session) /\ UNCHANGED <<x1, x8, x10>>
  BY DEF Chat!Exit, Chat!WindowGone
<1>2. Chat!RunsInv' /\ \A r \in ChatRun : ~Chat!Alive(r)' /\ (x2'[r] = "unborn" => x2[r] = "unborn")
  BY ExitRuns
<1>3. Chat!NoDeletion.phase = "none" /\ Chat!NoDeletion.session = NoSession
      /\ Chat!NoDeletion \in Chat!DeletionRecord
  BY DEF Chat!NoDeletion, Chat!DeletionRecord
<1>4. Chat!DeletionInv'
  BY <1>1, <1>3 DEF Chat!DeletionInv, Chat!PastWait
<1>5. Chat!NothingLeftBehind'
  <2> SUFFICES ASSUME NEW s \in Session, s \notin x8 \cup x15 \cup {x11.session}
               PROVE  Chat!TasksOf(s) = {}
    BY <1>1 DEF Chat!NothingLeftBehind, Chat!TasksOf
  <2> QED BY DEF Chat!RestInv, Chat!NothingLeftBehind
<1> QED BY <1>1, <1>2, <1>4, <1>5 DEF Chat!RestInv
\* What the user does, what arrives and what the timer does starts no run and
\* ends none.
LEMMA WindowKeepsRest ==
  ASSUME Chat!RunsInv, Chat!DeletionInv, Chat!RestInv,
         \/ Chat!Stop \/ (\E kind \in {"question", "approval"} : Chat!AnswerCard(kind))
         \/ (\E s \in Session : Chat!Select(s) \/ Chat!RequestDelete(s))
         \/ (Chat!ArrivalStep /\ ~Chat!DeletionAnswered) \/ Chat!WatchdogFires \/ UNCHANGED Chat!vars
         \/ (Chat!Quit /\ Chat!WindowGone)
  PROVE  Chat!RunsInv' /\ Chat!DeletionInv' /\ Chat!RestInv'
<1> DEFINE Same == UNCHANGED <<x1, x8, x9, x11, x15, x10>>
           Lives == \A r \in ChatRun : (Chat!Alive(r)' => Chat!Alive(r)) /\ (x2'[r] = "unborn" => x2[r] = "unborn")
<1>1. ASSUME UNCHANGED <<Chat!runVars, Chat!dataVars, x12, x14>> PROVE Chat!RunsInv' /\ Same /\ Lives
  <2>1. UNCHANGED <<x2, x3, x4, x5, x7, x12>> /\ x14 \subseteq x14' /\ Same
    BY <1>1 DEF Chat!runVars, Chat!dataVars
  <2> QED BY <2>1, RunsQuiet DEF Chat!Alive
<1>2. ASSUME Chat!RunsInv', Same, Lives, x12' = x12 \/ x12' # "up",
             x17' \in x18 \cup {x17, NoSession}, x18' \subseteq x18
      PROVE  Chat!DeletionInv' /\ Chat!RestInv'
  <2>1. {} \in SUBSET ChatRun /\ x10' = x10 \cup {} /\ \A r \in {} : Chat!Alive(r)
    BY <1>2
  <2> HIDE DEF Same
  <2> QED BY <1>2, <2>1, RestKept DEF Same
<1>3. CASE Chat!Stop
  <2>1. PICK R \in SUBSET x4 : Chat!Aborted(R)
    <3>1. Chat!RunsOf(x17, IF x19.turn = NoRun THEN ChatRun ELSE {x19.turn}) \subseteq x4
      BY DEF Chat!RunsOf
    <3> QED BY <1>3, <3>1 DEF Chat!Stop, Chat!Abort
  <2>2. /\ x12 = "up" /\ UNCHANGED <<x4, x7, x14, x12, x17, x18>> /\ Same
    BY <1>3 DEF Chat!Stop, Chat!Abort, Chat!dataVars
  <2>3. Chat!RunsInv' /\ Lives
    BY <2>1, <2>2, AbortedRuns
  <2> QED BY <1>2, <2>2, <2>3
<1>4. ASSUME NEW kind \in {"question", "approval"}, Chat!AnswerCard(kind) PROVE Chat!RunsInv' /\ Chat!DeletionInv' /\ Chat!RestInv'
  <2>1. PICK q : Chat!Answer(q) /\ UNCHANGED <<x17, x18>>
    BY <1>4 DEF Chat!AnswerCard
  <2>2. Chat!RunsInv' /\ Lives /\ Same /\ x12' = x12
    BY <2>1, AnswerRuns DEF Chat!dataVars
  <2> QED BY <1>2, <2>1, <2>2
<1>5. ASSUME NEW s \in Session, Chat!Select(s) \/ Chat!RequestDelete(s) PROVE Chat!RunsInv' /\ Chat!DeletionInv' /\ Chat!RestInv'
  <2>1. UNCHANGED <<Chat!runVars, Chat!dataVars, x12, x14, x18>> /\ x17' \in x18 \cup {x17}
    BY <1>5 DEF Chat!Select, Chat!RequestDelete, Chat!chatVars
  <2> QED BY <1>1, <1>2, <2>1
<1>6. CASE (Chat!ArrivalStep /\ ~Chat!DeletionAnswered) \/ Chat!WatchdogFires \/ UNCHANGED Chat!vars
  <2>1. UNCHANGED <<Chat!runVars, Chat!dataVars, x12, x14, x18, x17>>
    BY <1>6 DEF Chat!ArrivalStep, Chat!StartedArrives, Chat!ChunkArrives, Chat!TerminalArrives, Chat!RequestArrives, Chat!StoppedArrives,
                Chat!ListedArrives, Chat!Taken, Chat!WatchdogFires, Chat!vars, Chat!chatVars, Chat!windowVars
  <2> QED BY <1>1, <1>2, <2>1
<1>7. CASE Chat!Quit /\ Chat!WindowGone
  <2>1. Chat!RunsInv' /\ Lives /\ Same /\ x12' # "up"
    BY <1>7, QuitRuns
  <2>2. x17' = NoSession /\ x18' = {}
    BY <1>7 DEF Chat!WindowGone
  <2> QED BY <1>2, <2>1, <2>2
<1> QED BY <1>3, <1>4, <1>5, <1>6, <1>7

LEMMA ChatKept == Chat!ChatInv /\ [Chat!Next]_(Chat!vars) => Chat!ChatInv'
<1> SUFFICES ASSUME Chat!RunsInv, Chat!DeletionInv, Chat!RestInv, [Chat!Next]_(Chat!vars)
             PROVE  Chat!RunsInv' /\ Chat!DeletionInv' /\ Chat!RestInv'
  BY DEF Chat!ChatInv
<1>1. ASSUME NEW r \in ChatRun, x12 # "gone", Chat!RunStep(r), UNCHANGED Chat!windowVars
      PROVE  Chat!RunsInv' /\ Chat!DeletionInv' /\ Chat!RestInv'
  <2>1. /\ Chat!RunsInv' /\ UNCHANGED <<x1, x8, x9, x11, x15, x12>>
        /\ \A o \in ChatRun : (Chat!Alive(o)' => Chat!Alive(o)) /\ (x2'[o] = "unborn" => x2[o] = "unborn")
        /\ x10' = x10 \/ (x10' = x10 \cup {r} /\ Chat!Alive(r))
    BY <1>1, RunSteps
  <2>2. UNCHANGED <<x17, x18>>
    BY <1>1 DEF Chat!windowVars
  <2>3. PICK T \in SUBSET ChatRun : x10' = x10 \cup T /\ \A o \in T : Chat!Alive(o)
    <3>1. CASE x10' = x10
      <4>1. {} \in SUBSET ChatRun /\ x10' = x10 \cup {} /\ \A o \in {} : Chat!Alive(o)
        BY <3>1
      <4> QED BY <4>1
    <3>2. CASE x10' = x10 \cup {r} /\ Chat!Alive(r)
      <4>1. {r} \in SUBSET ChatRun /\ \A o \in {r} : Chat!Alive(o)
        BY <3>2
      <4> QED BY <3>2, <4>1
    <3> QED BY <2>1, <3>1, <3>2
  <2> QED BY <2>1, <2>2, <2>3, RestKept
<1>2. CASE Chat!DeletionStep /\ UNCHANGED Chat!windowVars
  <2>1. UNCHANGED <<x17, x18>>
    BY <1>2 DEF Chat!windowVars
  <2> QED BY <1>2, <2>1, DeletionKeepsRest
<1>3. ASSUME NEW r \in ChatRun, Chat!Send(r) PROVE Chat!RunsInv' /\ Chat!DeletionInv' /\ Chat!RestInv'
  BY <1>3, SendKeepsRest
<1> QED BY <1>1, <1>2, <1>3, WindowKeepsRest, DeleteKeepsRest, AnsweredKeepsRest, ExitKeepsRest
        DEF Chat!Next, Chat!MainStep, Chat!AppStep, Chat!UserStep, Chat!ArrivalStep

LEMMA ChatInitially == Chat!Init => Chat!ChatInv
<1> SUFFICES ASSUME Chat!Init PROVE Chat!ChatInv
  OBVIOUS
<1>1. x17 \in Session /\ x18 = Session
  BY RunsConstants DEF Chat!Init
<1>2. /\ x1 = [r \in ChatRun |-> NoSession] /\ x2 = [r \in ChatRun |-> "unborn"] /\ x7 = [r \in ChatRun |-> 0]
      /\ x3 = {} /\ x4 = {} /\ x5 = {} /\ x8 = Session /\ x9 = {} /\ x10 = {}
      /\ x11 = Chat!NoDeletion /\ x12 = "up"
  BY DEF Chat!Init, Chat!ChatInit
<1>3. \A r \in ChatRun : ~Chat!Alive(r)
  BY <1>2 DEF Chat!Alive
<1>4. Chat!RunsInv
  BY <1>2, <1>3 DEF Chat!RunsInv
<1>5. Chat!DeletionInv
  BY <1>2 DEF Chat!DeletionInv, Chat!NoDeletion, Chat!PastWait, Chat!DeletionRecord
<1>6. Chat!RestInv
  BY <1>1, <1>2, <1>3 DEF Chat!RestInv, Chat!Rest, Chat!NothingLeftBehind
<1> QED BY <1>4, <1>5, <1>6 DEF Chat!ChatInv

LEMMA InvAnswersOnce == Chat!ChatInv => Chat!RunsAnswerOnce
<1> SUFFICES ASSUME Chat!ChatInv PROVE Chat!RunsAnswerOnce
  OBVIOUS
<1>1. Chat!RunsInv /\ Chat!NothingLeftBehind
  BY DEF Chat!ChatInv, Chat!RestInv
<1>2. Chat!ToldExactlyOnce
  BY <1>1 DEF Chat!RunsInv, Chat!ToldExactlyOnce, Chat!Alive
<1>3. Chat!SuspendedOnce
  <2> SUFFICES ASSUME NEW r \in ChatRun
               PROVE  /\ x2[r] = "waiting" <=> Chat!Cardinality({q \in x5 : q.run = r}) = 1
                      /\ r \in x3 => \A q \in x5 : q.run # r
    BY DEF Chat!SuspendedOnce
  <2>1. r \in x3 => \A q \in x5 : q.run # r
    BY <1>1 DEF Chat!RunsInv
  <2>2. CASE x2[r] = "waiting"
    <3>1. PICK q \in x5 : q.run = r
      BY <1>1, <2>2 DEF Chat!RunsInv
    <3>2. {p \in x5 : p.run = r} = {q}
      BY <1>1, <3>1 DEF Chat!RunsInv
    <3>3. Chat!Cardinality({q}) = 1
      BY ChatCardinality, FS_Singleton
    <3> QED BY <2>1, <2>2, <3>2, <3>3
  <2>3. CASE x2[r] # "waiting"
    <3>1. {p \in x5 : p.run = r} = {}
      BY <1>1, <2>3 DEF Chat!RunsInv
    <3>2. Chat!Cardinality({}) = 0
      BY ChatCardinality, FS_EmptySet
    <3> QED BY <2>1, <2>3, <3>1, <3>2
  <2> QED BY <2>2, <2>3
<1> QED BY <1>1, <1>2, <1>3 DEF Chat!RunsAnswerOnce

-----------------------------------------------------------------------------
(* What the window shows.                                                  *)

LEMMA Sent ==
  ASSUME NEW M, NEW c \in Seq(M), NEW e \in M
  PROVE  /\ Append(c, e) \in Seq(M) /\ Len(Append(c, e)) = Len(c) + 1 /\ Len(c) \in Nat
         /\ DOMAIN c = 1..Len(c) /\ DOMAIN Append(c, e) = 1..(Len(c) + 1)
         /\ \A i \in 1..Len(c) : Append(c, e)[i] = c[i]
         /\ Append(c, e)[Len(c) + 1] = e
OBVIOUS

LEMMA TakenOff ==
  ASSUME NEW M, NEW c \in Seq(M), c # <<>>
  PROVE  /\ Tail(c) \in Seq(M) /\ Len(c) \in Nat \ {0} /\ Head(c) = c[1] /\ c[1] \in M
         /\ DOMAIN c = 1..Len(c) /\ DOMAIN Tail(c) = 1..(Len(c) - 1)
         /\ \A i \in 1..(Len(c) - 1) : Tail(c)[i] = c[i + 1]
<1>1. Len(c) \in Nat \ {0} /\ Len(Tail(c)) = Len(c) - 1 /\ DOMAIN c = 1..Len(c)
  OBVIOUS
<1>2. Tail(c) \in Seq(M) /\ c[1] \in M /\ Head(c) = c[1]
  BY <1>1
<1>3. \A i \in 1..(Len(c) - 1) : Tail(c)[i] = c[i + 1]
  BY <1>1
<1> QED BY <1>1, <1>2, <1>3

LEMMA MessagesTyped ==
  ASSUME NEW e \in Chat!Messages
  PROVE  /\ e.kind \in {"started", "chunk", "done", "error", "question", "approval", "listed", "stopped"}
         /\ e.kind \notin {"listed", "stopped"} => e.run \in ChatRun
         /\ e.kind \in {"question", "approval"} => e \in Chat!Requests
         /\ e.kind \in {"listed", "stopped"} => e.session \in Session
         /\ e.kind = "listed" => e.questions \subseteq Chat!Requests
BY DEF Chat!Messages, Chat!Requests

NotOvertaken == x12 = "up" /\ ~x24

\* No run begins, comes back, or forgets that it was born.
NoneBegins ==
  /\ \A r \in ChatRun : (Chat!Underway(r)' => Chat!Underway(r)) /\ (x2'[r] = "unborn" <=> x2[r] = "unborn")
  /\ UNCHANGED <<x1, x12>>

LEMMA TypedKept ==
  ASSUME Chat!WindowTyped, NoneBegins, x13' \in Seq(Chat!Messages),
         \A i \in DOMAIN x13' : \A r \in ChatRun :
           x13'[i].kind \notin {"listed", "stopped"} /\ x13'[i].run = r => x2[r] # "unborn",
         x19' \in [session : Session, turn : ChatRun \cup {NoRun}] \cup {Chat!NoActive},
         DOMAIN x22' = {"question", "approval"},
         x23' \in [Session -> Seq(Chat!Replies)],
         x5' \subseteq Chat!Requests, x6' \in [ChatRun -> Nat]
  PROVE  Chat!WindowTyped'
BY DEF Chat!WindowTyped, NoneBegins

\* What changes nothing of what was sent or is seen.
LEMMA FollowQuiet ==
  ASSUME Chat!FollowInv, Chat!WindowTyped', NoneBegins, UNCHANGED <<x13, x19, x23, x22>>,
         NotOvertaken' => NotOvertaken, x14 \subseteq x14', \A q \in x5' : q \in x5 \/ q.run \in x14'
  PROVE  Chat!FollowInv'
<1> SUFFICES ASSUME NotOvertaken'
             PROVE  /\ \A r \in ChatRun : Chat!Heard(r)' => Chat!Shown(r)'
                    /\ \A q, r \in ChatRun : Chat!Heard(q)' /\ Chat!Heard(r)' => q = r
                    /\ Chat!InOrder' /\ Chat!OwnMessages'
                    /\ \A q \in x5' : q.run \in x14' \/ Chat!CardComes(q)'
  BY DEF Chat!FollowInv, NotOvertaken
<1>1. /\ \A r \in ChatRun : Chat!Heard(r) => Chat!Shown(r)
      /\ \A q, r \in ChatRun : Chat!Heard(q) /\ Chat!Heard(r) => q = r
      /\ Chat!InOrder /\ Chat!OwnMessages
      /\ \A q \in x5 : q.run \in x14 \/ Chat!CardComes(q)
  BY DEF Chat!FollowInv, NotOvertaken
<1>2. \A r \in ChatRun : Chat!Heard(r)' => Chat!Heard(r)
  BY DEF Chat!Heard, Chat!Tells, NoneBegins
<1>3. \A r \in ChatRun : Chat!Shown(r) => Chat!Shown(r)'
  BY DEF Chat!Shown, Chat!LastReply, NoneBegins
<1>4. Chat!InOrder'
  <2>1. \A i \in DOMAIN x13 : x13[i].kind \in {"done", "error"} => x13[i].run \in ChatRun
    <3>1. x13 \in Seq(Chat!Messages)
      BY DEF Chat!FollowInv, Chat!WindowTyped
    <3>2. \A i \in DOMAIN x13 : x13[i] \in Chat!Messages
      BY <3>1
    <3> QED BY <3>2, MessagesTyped
  <2> QED BY <1>1, <2>1 DEF Chat!InOrder, Chat!Tells, NoneBegins
<1>5. Chat!OwnMessages'
  BY <1>1 DEF Chat!OwnMessages
<1>6. \A q : Chat!CardComes(q) => Chat!CardComes(q)'
  BY DEF Chat!CardComes, Chat!Spoils, NoneBegins
<1> QED BY <1>1, <1>2, <1>3, <1>4, <1>5, <1>6

LEMMA FollowSends ==
  ASSUME Chat!FollowInv, Chat!WindowTyped', NoneBegins, UNCHANGED <<x19, x23, x22>>,
         NEW e \in Chat!Messages, x13' = Append(x13, e),
         \A r \in ChatRun : Chat!Tells(e, r) => Chat!Underway(r),
         e.kind \in {"done", "error"} => ~Chat!Underway(e.run)',
         NotOvertaken' => NotOvertaken, x14 \subseteq x14',
         NotOvertaken => \A q \in x5' : (q \in x5 /\ ~Chat!Spoils(e, q)) \/ q = e \/ q.run \in x14'
  PROVE  Chat!FollowInv'
<1> SUFFICES ASSUME NotOvertaken'
             PROVE  /\ \A r \in ChatRun : Chat!Heard(r)' => Chat!Shown(r)'
                    /\ \A q, r \in ChatRun : Chat!Heard(q)' /\ Chat!Heard(r)' => q = r
                    /\ Chat!InOrder' /\ Chat!OwnMessages'
                    /\ \A q \in x5' : q.run \in x14' \/ Chat!CardComes(q)'
  BY DEF Chat!FollowInv, NotOvertaken
<1>1. /\ \A r \in ChatRun : Chat!Heard(r) => Chat!Shown(r)
      /\ \A q, r \in ChatRun : Chat!Heard(q) /\ Chat!Heard(r) => q = r
      /\ Chat!InOrder /\ Chat!OwnMessages
      /\ \A q \in x5 : q.run \in x14 \/ Chat!CardComes(q)
  BY DEF Chat!FollowInv, NotOvertaken
<1>2. x13 \in Seq(Chat!Messages)
  BY DEF Chat!FollowInv, Chat!WindowTyped
<1> DEFINE n == Len(x13)
<1>3. /\ n \in Nat /\ DOMAIN x13 = 1..n /\ DOMAIN x13' = 1..(n + 1)
      /\ \A i \in 1..n : x13'[i] = x13[i]
      /\ x13'[n + 1] = e
  BY <1>2, Sent
<1> HIDE DEF n
<1>4. \A i \in DOMAIN x13' : (i \in DOMAIN x13 /\ x13'[i] = x13[i]) \/ (i = n + 1 /\ x13'[i] = e)
  BY <1>3
<1>5. \A i \in DOMAIN x13 : x13[i].kind \in {"done", "error"} => x13[i].run \in ChatRun
  <2>1. \A i \in DOMAIN x13 : x13[i] \in Chat!Messages
    BY <1>2
  <2> QED BY <2>1, MessagesTyped
<1>6. \A r \in ChatRun : Chat!Heard(r)' => Chat!Heard(r)
  <2> SUFFICES ASSUME NEW r \in ChatRun, NEW i \in DOMAIN x13', Chat!Tells(x13'[i], r) PROVE Chat!Heard(r)
    BY DEF Chat!Heard, NoneBegins, Chat!Tells
  <2> QED BY <1>4 DEF Chat!Heard
<1>7. \A r \in ChatRun : Chat!Shown(r) => Chat!Shown(r)'
  BY DEF Chat!Shown, Chat!LastReply, NoneBegins
<1>8. Chat!InOrder'
  <2> SUFFICES ASSUME NEW i \in DOMAIN x13', NEW m, m = x13'[i], m.kind \in {"done", "error"}
               PROVE  /\ ~Chat!Underway(m.run)'
                      /\ \A j \in DOMAIN x13' : Chat!Tells(x13'[j], m.run) => j <= i
    BY DEF Chat!InOrder, Chat!Tells, Chat!Underway
  <2>1. CASE i = n + 1
    BY <1>3, <2>1
  <2>2. CASE i \in DOMAIN x13
    <3>1. m = x13[i] /\ m.run \in ChatRun
      BY <1>3, <1>5, <2>2
    <3>2. ~Chat!Underway(m.run) /\ \A j \in DOMAIN x13 : Chat!Tells(x13[j], m.run) => j <= i
      BY <1>1, <2>2, <3>1 DEF Chat!InOrder
    <3>3. ~Chat!Underway(m.run)'
      BY <3>1, <3>2 DEF NoneBegins
    <3>4. \A j \in DOMAIN x13' : Chat!Tells(x13'[j], m.run) => j \in DOMAIN x13 /\ x13'[j] = x13[j]
      BY <1>4, <3>1, <3>2
    <3> QED BY <3>2, <3>3, <3>4
  <2> QED BY <1>4, <2>1, <2>2
<1>9. Chat!OwnMessages'
  BY <1>1 DEF Chat!OwnMessages
<1>10. \A m, q : Chat!Spoils(m, q)' <=> Chat!Spoils(m, q)
  BY DEF Chat!Spoils, NoneBegins
<1>11. ASSUME NEW q \in x5', q.run \notin x14' PROVE Chat!CardComes(q)'
  <2>1. CASE q = e
    <3>1. n + 1 \in DOMAIN x13' /\ x13'[n + 1] = q /\ \A j \in DOMAIN x13' : ~(j > n + 1)
      BY <1>3, <2>1
    <3> QED BY <3>1 DEF Chat!CardComes
  <2>2. CASE q \in x5 /\ ~Chat!Spoils(e, q)
    <3>1. Chat!CardComes(q)
      BY <1>1, <1>11, <2>2
    <3>2. \A j \in DOMAIN x13' : (j \in DOMAIN x13 /\ x13'[j] = x13[j]) \/ ~Chat!Spoils(x13'[j], q)
      BY <1>4, <2>2
    <3>3. CASE x22[q.kind] = q /\ \A j \in DOMAIN x13 : ~Chat!Spoils(x13[j], q)
      <4>1. \A j \in DOMAIN x13' : \A m : m = x13'[j] => ~Chat!Spoils(m, q)'
        BY <1>10, <3>2, <3>3
      <4>2. x22'[q.kind] = q
        BY <3>3
      <4> QED BY <4>1, <4>2 DEF Chat!CardComes, Chat!Spoils
    <3>4. ASSUME NEW i \in DOMAIN x13, x13[i] = q, \A j \in DOMAIN x13 : j > i => ~Chat!Spoils(x13[j], q)
          PROVE  Chat!CardComes(q)'
      <4>1. \A j \in DOMAIN x13' : j > i => \A m : m = x13'[j] => ~Chat!Spoils(m, q)'
        BY <1>10, <3>2, <3>4
      <4>2. i \in DOMAIN x13' /\ x13'[i] = q
        BY <1>3, <3>4
      <4> QED BY <4>1, <4>2 DEF Chat!CardComes, Chat!Spoils
    <3> QED BY <3>1, <3>3, <3>4 DEF Chat!CardComes
  <2> QED BY <1>11, <2>1, <2>2 DEF NotOvertaken, NoneBegins
<1> QED BY <1>1, <1>6, <1>7, <1>8, <1>9, <1>11

LEMMA TakenHeard ==
  ASSUME x13 \in Seq(Chat!Messages), x13 # <<>>, x13' = Tail(x13), UNCHANGED x2
  PROVE  /\ \A r \in ChatRun : Chat!Heard(r)' => Chat!Heard(r)
         /\ \A r \in ChatRun : Chat!Tells(Head(x13), r) => Chat!Heard(r)
         /\ \A r \in ChatRun : Chat!InOrder /\ Chat!Tells(Head(x13), r) /\ Head(x13).kind \in {"done", "error"}
              => ~Chat!Underway(r) /\ ~Chat!Heard(r)'
<1> DEFINE n == Len(x13)
<1>1. /\ n \in Nat \ {0} /\ Head(x13) = x13[1] /\ DOMAIN x13 = 1..n /\ DOMAIN x13' = 1..(n - 1)
      /\ \A i \in 1..(n - 1) : x13'[i] = x13[i + 1]
  BY TakenOff
<1> HIDE DEF n
<1>2. \A i \in DOMAIN x13' : i + 1 \in DOMAIN x13 /\ x13'[i] = x13[i + 1] /\ ~(i + 1 <= 1)
  BY <1>1
<1>3. \A r : Chat!Underway(r)' <=> Chat!Underway(r)
  BY DEF Chat!Underway
<1>4. \A r \in ChatRun : Chat!Heard(r)' => Chat!Heard(r)
  <2> SUFFICES ASSUME NEW r \in ChatRun, NEW i \in DOMAIN x13', Chat!Tells(x13'[i], r) PROVE Chat!Heard(r)
    BY <1>3 DEF Chat!Heard, Chat!Tells
  <2> QED BY <1>2 DEF Chat!Heard
<1>5. 1 \in DOMAIN x13 /\ Head(x13) = x13[1]
  BY <1>1
<1>6. ASSUME NEW r \in ChatRun, Chat!InOrder, Chat!Tells(x13[1], r), x13[1].kind \in {"done", "error"}
      PROVE  ~Chat!Underway(r) /\ ~Chat!Heard(r)'
  <2>1. ~Chat!Underway(r) /\ \A j \in DOMAIN x13 : Chat!Tells(x13[j], r) => j <= 1
    BY <1>5, <1>6 DEF Chat!InOrder, Chat!Tells
  <2>2. \A i \in DOMAIN x13' : ~Chat!Tells(x13'[i], r)
    BY <1>2, <2>1
  <2> QED BY <1>3, <2>1, <2>2 DEF Chat!Heard, Chat!Tells
<1> QED BY <1>4, <1>5, <1>6 DEF Chat!Heard

LEMMA FollowTakes ==
  ASSUME Chat!FollowInv, Chat!WindowTyped', x13 # <<>>, x13' = Tail(x13),
         UNCHANGED <<x2, x1, x12, x5, x14, x24>>,
         NotOvertaken => \A r \in ChatRun : Chat!Heard(r)' => Chat!Shown(r)',
         NotOvertaken => Chat!OwnMessages',
         NotOvertaken => \A q \in x5 :
           (x22[q.kind] = q /\ ~Chat!Spoils(Head(x13), q)) \/ Head(x13) = q => x22'[q.kind] = q
  PROVE  Chat!FollowInv'
<1> SUFFICES ASSUME NotOvertaken'
             PROVE  /\ \A r \in ChatRun : Chat!Heard(r)' => Chat!Shown(r)'
                    /\ \A q, r \in ChatRun : Chat!Heard(q)' /\ Chat!Heard(r)' => q = r
                    /\ Chat!InOrder' /\ Chat!OwnMessages'
                    /\ \A q \in x5' : q.run \in x14' \/ Chat!CardComes(q)'
  BY DEF Chat!FollowInv, NotOvertaken
<1>0. NotOvertaken
  BY DEF NotOvertaken
<1>1. /\ \A q, r \in ChatRun : Chat!Heard(q) /\ Chat!Heard(r) => q = r
      /\ Chat!InOrder
      /\ \A q \in x5 : q.run \in x14 \/ Chat!CardComes(q)
  BY <1>0 DEF Chat!FollowInv, NotOvertaken
<1>2. x13 \in Seq(Chat!Messages)
  BY DEF Chat!FollowInv, Chat!WindowTyped
<1> DEFINE n == Len(x13)
<1>3. /\ n \in Nat \ {0} /\ Head(x13) = x13[1] /\ DOMAIN x13 = 1..n /\ DOMAIN x13' = 1..(n - 1)
      /\ \A i \in 1..(n - 1) : x13'[i] = x13[i + 1]
  BY <1>2, TakenOff
<1> HIDE DEF n
<1>4. \A i \in DOMAIN x13' : i + 1 \in DOMAIN x13 /\ x13'[i] = x13[i + 1] /\ i \in Int
  BY <1>3
<1>5. \A i \in DOMAIN x13 : i = 1 \/ (i - 1 \in DOMAIN x13' /\ x13'[i - 1] = x13[i] /\ i \in Int)
  BY <1>3
<1>6. \A r \in ChatRun : Chat!Heard(r)' => Chat!Heard(r)
  BY <1>2, TakenHeard
<1>7. Chat!InOrder'
  <2> SUFFICES ASSUME NEW i \in DOMAIN x13', NEW m, m = x13'[i], m.kind \in {"done", "error"},
                      NEW j \in DOMAIN x13', Chat!Tells(x13'[j], m.run)
               PROVE  ~Chat!Underway(m.run)' /\ j <= i
    <3>1. \A i \in DOMAIN x13' : \A m : m = x13'[i] /\ m.kind \in {"done", "error"} => Chat!Tells(x13'[i], m.run)
      BY DEF Chat!Tells
    <3> QED BY <3>1 DEF Chat!InOrder, Chat!Tells, Chat!Underway
  <2>1. i + 1 \in DOMAIN x13 /\ x13[i + 1] = m /\ j + 1 \in DOMAIN x13 /\ Chat!Tells(x13[j + 1], m.run)
    BY <1>4
  <2>2. ~Chat!Underway(m.run) /\ j + 1 <= i + 1
    BY <1>1, <2>1 DEF Chat!InOrder
  <2> QED BY <1>4, <2>2 DEF Chat!Underway
<1>8. \A m, q : Chat!Spoils(m, q)' <=> Chat!Spoils(m, q)
  BY DEF Chat!Spoils
<1>9. ASSUME NEW q \in x5, q.run \notin x14 PROVE Chat!CardComes(q)'
  <2>1. Chat!CardComes(q)
    BY <1>1, <1>9
  <2>2. CASE x22[q.kind] = q /\ \A j \in DOMAIN x13 : ~Chat!Spoils(x13[j], q)
    <3>1. 1 \in DOMAIN x13
      BY <1>3
    <3>2. x22'[q.kind] = q
      BY <1>0, <1>3, <2>2, <3>1
    <3>3. \A j \in DOMAIN x13' : \A m : m = x13'[j] => ~Chat!Spoils(m, q)'
      BY <1>4, <1>8, <2>2
    <3> QED BY <3>2, <3>3 DEF Chat!CardComes, Chat!Spoils
  <2>3. ASSUME NEW i \in DOMAIN x13, x13[i] = q, \A j \in DOMAIN x13 : j > i => ~Chat!Spoils(x13[j], q)
        PROVE  Chat!CardComes(q)'
    <3>1. CASE i = 1
      <4>1. x22'[q.kind] = q
        BY <1>0, <1>3, <2>3, <3>1
      <4>2. \A j \in DOMAIN x13' : \A m : m = x13'[j] => ~Chat!Spoils(m, q)'
        <5>1. \A j \in DOMAIN x13' : j + 1 > 1
          BY <1>3
        <5> QED BY <1>4, <1>8, <2>3, <3>1, <5>1
      <4> QED BY <4>1, <4>2 DEF Chat!CardComes, Chat!Spoils
    <3>2. CASE i # 1
      <4>1. i - 1 \in DOMAIN x13' /\ x13'[i - 1] = q /\ i \in Int
        BY <1>5, <2>3, <3>2
      <4>2. \A j \in DOMAIN x13' : j > i - 1 => \A m : m = x13'[j] => ~Chat!Spoils(m, q)'
        BY <1>4, <1>8, <2>3, <4>1
      <4> QED BY <4>1, <4>2 DEF Chat!CardComes, Chat!Spoils
    <3> QED BY <3>1, <3>2
  <2> QED BY <2>1, <2>2, <2>3 DEF Chat!CardComes
<1> QED BY <1>0, <1>1, <1>6, <1>7, <1>9

\* The last message that is open, or none.
LEMMA LastOpen ==
  ASSUME NEW q \in Seq(Chat!Replies)
  PROVE  /\ Chat!SelectLastInSeq(q, LAMBDA m : m.open) \in 0..Len(q)
         /\ Len(q) # 0 /\ q[Len(q)].open => Chat!SelectLastInSeq(q, LAMBDA m : m.open) = Len(q)
<1> DEFINE I == {i \in 1..Len(q) : q[i].open}
           n == Len(q)
<1>1. Chat!SelectLastInSeq(q, LAMBDA m : m.open) = IF I # {} THEN Chat!Max(I) ELSE 0
  BY DEF Chat!SelectLastInSeq
<1>2. n \in Nat /\ I \subseteq 1..n /\ (n # 0 /\ q[n].open => n \in I)
  OBVIOUS
<1> HIDE DEF I, n
<1>3. ASSUME I # {} PROVE Chat!Max(I) \in I /\ \A i \in I : Chat!Max(I) >= i
  <2> DEFINE T == {k \in Nat : n - k \in I}
  <2>1. T \subseteq Nat /\ \A i \in I : n - i \in T
    BY <1>2
  <2>2. T # {}
    BY <1>3, <2>1
  <2> HIDE DEF T
  <2>3. PICK k \in T : \A m \in T : k <= m
    BY <2>1, <2>2, Least
  <2>4. n - k \in I /\ k \in Nat
    BY DEF T
  <2>5. \A i \in I : n - k >= i
    BY <1>2, <2>1, <2>3, <2>4
  <2> QED BY <2>4, <2>5 DEF Chat!Max
<1>4. CASE I = {}
  BY <1>1, <1>2, <1>4 DEF n
<1>5. CASE I # {}
  <2>1. Chat!Max(I) \in I /\ \A i \in I : Chat!Max(I) >= i
    BY <1>3, <1>5
  <2> DEFINE x == Chat!Max(I)
  <2> HIDE DEF x
  <2>2. x \in I /\ \A i \in I : x >= i
    BY <2>1 DEF x
  <2>3. x \in 1..n /\ (n \in I => x = n)
    BY <1>2, <2>2
  <2> QED BY <1>1, <1>2, <1>5, <2>3 DEF n, x
<1> QED BY <1>4, <1>5

LEMMA Updated ==
  ASSUME x23 \in [Session -> Seq(Chat!Replies)], NEW s \in Session, NEW r \in ChatRun, NEW open \in BOOLEAN
  PROVE  /\ Chat!Update(s, r, open) \in [Session -> Seq(Chat!Replies)]
         /\ \A o \in Session \ {s} : Chat!Update(s, r, open)[o] = x23[o]
         /\ x23[s] # <<>> /\ Chat!LastReply(s).open =>
              LET new == Chat!Update(s, r, open)[s]
                  last == Len(x23[s])
              IN /\ Len(new) = last /\ last \in Nat \ {0}
                 /\ \A i \in 1..(last - 1) : new[i] = x23[s][i]
                 /\ new[last].turn = Chat!LastReply(s).turn /\ new[last].from = Chat!LastReply(s).from \cup {r}
                 /\ open => new[last].open
<1> DEFINE q == x23[s]
           at == Chat!SelectLastInSeq(q, LAMBDA m : m.open)
           m == [q[at] EXCEPT !.from = q[at].from \cup {r}, !.open = open]
<1>1. q \in Seq(Chat!Replies) /\ Len(q) \in Nat
  OBVIOUS
<1>2. at \in 0..Len(q) /\ (Len(q) # 0 /\ q[Len(q)].open => at = Len(q))
  BY <1>1, LastOpen
<1>3. Chat!Update(s, r, open) = IF at = 0 THEN x23 ELSE [x23 EXCEPT ![s] = [q EXCEPT ![at] = m]]
  BY DEF Chat!Update
<1>4. at # 0 => q[at] \in Chat!Replies
  BY <1>1, <1>2
<1>5. at # 0 => m \in Chat!Replies
  BY <1>4 DEF Chat!Replies
<1>6. at # 0 => m.turn = q[at].turn /\ m.from = q[at].from \cup {r} /\ m.open = open
  BY <1>4 DEF Chat!Replies
<1> HIDE DEF q, at, m
<1>7. at # 0 => /\ [q EXCEPT ![at] = m] \in Seq(Chat!Replies) /\ Len([q EXCEPT ![at] = m]) = Len(q)
                /\ [q EXCEPT ![at] = m][at] = m /\ \A i \in 1..Len(q) : i # at => [q EXCEPT ![at] = m][i] = q[i]
  BY <1>1, <1>2, <1>5
<1>8. Chat!Update(s, r, open) \in [Session -> Seq(Chat!Replies)]
  BY <1>3, <1>7
<1>9. \A o \in Session \ {s} : Chat!Update(s, r, open)[o] = x23[o]
  BY <1>3
<1>10. ASSUME x23[s] # <<>>, Chat!LastReply(s).open
       PROVE  /\ at = Len(q) /\ at # 0 /\ Chat!LastReply(s) = q[at]
              /\ Chat!Update(s, r, open)[s] = [q EXCEPT ![at] = m]
  <2>1. q # <<>> /\ Chat!LastReply(s) = q[Len(q)] /\ q[Len(q)].open
    BY <1>10 DEF q, Chat!LastReply
  <2>2. Len(q) # 0
    BY <1>1, <2>1
  <2> QED BY <1>1, <1>2, <1>3, <2>1, <2>2
<1> QED BY <1>1, <1>6, <1>7, <1>8, <1>9, <1>10 DEF q

LEMMA TakenTyped ==
  ASSUME Chat!WindowTyped, x13 # <<>>, x13' = Tail(x13), UNCHANGED <<x2, x1, x12, x5, x6>>,
         x19' \in [session : Session, turn : ChatRun \cup {NoRun}] \cup {Chat!NoActive},
         DOMAIN x22' = {"question", "approval"}, x23' \in [Session -> Seq(Chat!Replies)]
  PROVE  Chat!WindowTyped'
<1>1. x13 \in Seq(Chat!Messages)
  BY DEF Chat!WindowTyped
<1>2. x13' \in Seq(Chat!Messages)
  BY <1>1, TakenOff
<1>3. \A i \in DOMAIN x13' : i + 1 \in DOMAIN x13 /\ x13'[i] = x13[i + 1]
  BY <1>1, TakenOff
<1>4. ASSUME NEW i \in DOMAIN x13', NEW r \in ChatRun, x13'[i].kind \notin {"listed", "stopped"}, x13'[i].run = r
      PROVE  x2[r] # "unborn"
  <2>1. i + 1 \in DOMAIN x13 /\ x13[i + 1].kind \notin {"listed", "stopped"} /\ x13[i + 1].run = r
    BY <1>3, <1>4
  <2> QED BY <2>1 DEF Chat!WindowTyped
<1>5. NoneBegins
  BY DEF NoneBegins, Chat!Underway
<1> QED BY <1>2, <1>4, <1>5, TypedKept DEF Chat!WindowTyped

\* What is at the head of the channel, and of whom it tells.
LEMMA HeadTells ==
  ASSUME Chat!FollowInv, x13 # <<>>, NEW e, e = Head(x13)
  PROVE  /\ e \in Chat!Messages /\ x13 \in Seq(Chat!Messages)
         /\ e.kind \notin {"listed", "stopped"} => e.run \in ChatRun /\ x1[e.run] \in Session
         /\ NotOvertaken /\ e.kind \in {"started", "chunk", "done", "error"} =>
              /\ Chat!Heard(e.run) /\ Chat!Shown(e.run) /\ \A r \in ChatRun : Chat!Heard(r) => r = e.run
<1>1. x13 \in Seq(Chat!Messages)
  BY DEF Chat!FollowInv, Chat!WindowTyped
<1>2. e \in Chat!Messages /\ e = x13[1] /\ 1 \in DOMAIN x13
  BY <1>1, TakenOff
<1>3. e.kind \notin {"listed", "stopped"} => e.run \in ChatRun
  BY <1>2, MessagesTyped
<1>4. e.kind \notin {"listed", "stopped"} => x1[e.run] \in Session
  BY <1>2, <1>3 DEF Chat!FollowInv, Chat!WindowTyped
<1>5. e.kind \in {"started", "chunk", "done", "error"} => Chat!Heard(e.run)
  BY <1>2 DEF Chat!Heard, Chat!Tells
<1> QED BY <1>1, <1>2, <1>3, <1>4, <1>5 DEF Chat!FollowInv, NotOvertaken

LEMMA StartedFollows ==
  ASSUME Chat!FollowInv, Chat!StartedArrives
  PROVE  Chat!FollowInv'
<1> SUFFICES ASSUME NEW e, e = Head(x13), NEW r, r = e.run PROVE Chat!FollowInv'
  OBVIOUS
<1>1. /\ x13 # <<>> /\ e.kind = "started" /\ x13' = Tail(x13)
      /\ UNCHANGED <<x2, x1, x12, x5, x6, x14, x24, x22, x23>>
      /\ x19' = IF x19.session = x1[r] THEN [x19 EXCEPT !.turn = r] ELSE x19
  BY DEF Chat!StartedArrives, Chat!Arrives, Chat!Taken, Chat!runVars
<1>2. /\ r \in ChatRun /\ x1[r] \in Session /\ x13 \in Seq(Chat!Messages)
      /\ NotOvertaken => Chat!Heard(r) /\ Chat!Shown(r) /\ \A o \in ChatRun : Chat!Heard(o) => o = r
  BY <1>1, HeadTells
<1>3. x19 \in [session : Session, turn : ChatRun \cup {NoRun}] \cup {Chat!NoActive} /\ Chat!NoActive.session = NoSession
  BY DEF Chat!FollowInv, Chat!WindowTyped, Chat!NoActive
<1>4. /\ x19' \in [session : Session, turn : ChatRun \cup {NoRun}] \cup {Chat!NoActive}
      /\ x19'.session = x19.session
      /\ x19'.turn = r \/ x19' = x19
  <2>1. CASE x19.session = x1[r]
    <3>1. x19 \in [session : Session, turn : ChatRun \cup {NoRun}]
      BY <1>2, <1>3, <2>1, RunsConstants
    <3> QED BY <1>1, <1>2, <2>1, <3>1
  <2>2. CASE x19.session # x1[r]
    BY <1>1, <1>3, <2>2
  <2> QED BY <2>1, <2>2
<1>5. Chat!WindowTyped'
  BY <1>1, <1>4, TakenTyped DEF Chat!FollowInv, Chat!WindowTyped
<1>6. \A o \in ChatRun : Chat!Heard(o)' => Chat!Heard(o)
  BY <1>1, <1>2, TakenHeard
<1>7. NotOvertaken => Chat!Shown(r)'
  BY <1>1, <1>2, <1>4 DEF Chat!Shown, Chat!LastReply
<1>8. NotOvertaken => Chat!OwnMessages'
  BY <1>1 DEF Chat!FollowInv, NotOvertaken, Chat!OwnMessages
<1>9. NotOvertaken => \A o \in ChatRun : Chat!Heard(o)' => Chat!Shown(o)'
  BY <1>2, <1>6, <1>7
<1>10. \A q \in x5 : (x22[q.kind] = q /\ ~Chat!Spoils(e, q)) \/ e = q => x22'[q.kind] = q
  <2>1. \A q \in x5 : q.kind \in {"question", "approval"}
    BY DEF Chat!FollowInv, Chat!WindowTyped, Chat!Requests
  <2> QED BY <1>1, <2>1
<1> QED BY <1>1, <1>5, <1>8, <1>9, <1>10, FollowTakes

\* What a run sends goes to its own message.
LEMMA OwnUpdate ==
  ASSUME x23 \in [Session -> Seq(Chat!Replies)], NEW s \in Session, NEW r \in ChatRun, NEW open \in BOOLEAN,
         x23' = Chat!Update(s, r, open), Chat!OwnMessages,
         x23[s] # <<>>, Chat!LastReply(s).open, Chat!LastReply(s).turn = r
  PROVE  /\ Chat!OwnMessages'
         /\ open => x23'[s] # <<>> /\ Chat!LastReply(s)'.turn = r /\ Chat!LastReply(s)'.open
<1> SUFFICES ASSUME NEW last, last = Len(x23[s]), NEW new, new = x23'[s]
             PROVE  /\ Chat!OwnMessages'
                    /\ open => x23'[s] # <<>> /\ Chat!LastReply(s)'.turn = r /\ Chat!LastReply(s)'.open
  OBVIOUS
<1>1. /\ x23' \in [Session -> Seq(Chat!Replies)]
      /\ \A o \in Session \ {s} : x23'[o] = x23[o]
      /\ Len(new) = last /\ last \in Nat \ {0}
      /\ \A i \in 1..(last - 1) : new[i] = x23[s][i]
      /\ new[last].turn = r /\ new[last].from = Chat!LastReply(s).from \cup {r}
      /\ open => new[last].open
  BY Updated
<1>2. new \in Seq(Chat!Replies) /\ DOMAIN new = 1..last /\ DOMAIN x23[s] = 1..last
  BY <1>1
<1>3. new # <<>> /\ Chat!LastReply(s)' = new[last] /\ Chat!LastReply(s) = x23[s][last]
  BY <1>1, <1>2 DEF Chat!LastReply
<1>4. \A i \in 1..last : x23[s][i].from \subseteq {x23[s][i].turn}
  BY <1>2 DEF Chat!OwnMessages
<1>5. new[last].from \subseteq {new[last].turn}
  <2>1. last \in 1..last
    BY <1>1
  <2> QED BY <1>1, <1>3, <1>4, <2>1
<1>6. \A i \in DOMAIN new : new[i].from \subseteq {new[i].turn}
  <2> SUFFICES ASSUME NEW i \in 1..last PROVE new[i].from \subseteq {new[i].turn}
    BY <1>2
  <2>1. CASE i = last
    BY <1>5, <2>1
  <2>2. CASE i # last
    <3>1. i \in 1..(last - 1)
      BY <1>1, <2>2
    <3>2. new[i] = x23[s][i]
      BY <1>1, <3>1
    <3> QED BY <1>4, <3>2
  <2> QED BY <2>1, <2>2
<1>7. Chat!OwnMessages'
  <2> SUFFICES ASSUME NEW o \in Session, NEW i \in DOMAIN x23'[o]
               PROVE  x23'[o][i].from \subseteq {x23'[o][i].turn}
    BY DEF Chat!OwnMessages
  <2>1. CASE o = s
    BY <1>6, <2>1
  <2>2. CASE o # s
    BY <1>1, <2>2 DEF Chat!OwnMessages
  <2> QED BY <2>1, <2>2
<1> QED BY <1>1, <1>3, <1>7

LEMMA ChunkFollows ==
  ASSUME Chat!FollowInv, Chat!ChunkArrives
  PROVE  Chat!FollowInv'
<1> SUFFICES ASSUME NEW e, e = Head(x13), NEW r, r = e.run, NEW s, s = x1[r] PROVE Chat!FollowInv'
  OBVIOUS
<1>1. /\ x13 # <<>> /\ e.kind = "chunk" /\ x13' = Tail(x13)
      /\ UNCHANGED <<x2, x1, x12, x5, x6, x14, x24, x22, x19>>
      /\ x23' = Chat!Update(s, r, TRUE)
  BY DEF Chat!ChunkArrives, Chat!Arrives, Chat!Taken, Chat!runVars
<1>2. /\ r \in ChatRun /\ s \in Session /\ x13 \in Seq(Chat!Messages)
      /\ NotOvertaken => Chat!Heard(r) /\ Chat!Shown(r) /\ \A o \in ChatRun : Chat!Heard(o) => o = r
  BY <1>1, HeadTells
<1>3. x23 \in [Session -> Seq(Chat!Replies)]
  BY DEF Chat!FollowInv, Chat!WindowTyped
<1>4. /\ x23' \in [Session -> Seq(Chat!Replies)]
      /\ NotOvertaken => Chat!OwnMessages' /\ x23'[s] # <<>> /\ Chat!LastReply(s)'.turn = r /\ Chat!LastReply(s)'.open
  <2>1. NotOvertaken => Chat!OwnMessages /\ x23[s] # <<>> /\ Chat!LastReply(s).open /\ Chat!LastReply(s).turn = r
    BY <1>2 DEF Chat!Shown, Chat!FollowInv, NotOvertaken
  <2>2. TRUE \in BOOLEAN
    OBVIOUS
  <2>3. x23' \in [Session -> Seq(Chat!Replies)]
    BY <1>1, <1>2, <1>3, <2>2, Updated
  <2> QED BY <1>1, <1>2, <1>3, <2>1, <2>2, <2>3, OwnUpdate
<1>5. Chat!WindowTyped'
  BY <1>1, <1>4, TakenTyped DEF Chat!FollowInv, Chat!WindowTyped
<1>6. \A o \in ChatRun : Chat!Heard(o)' => Chat!Heard(o)
  BY <1>1, <1>2, TakenHeard
<1>7. NotOvertaken => Chat!Shown(r)'
  BY <1>1, <1>2, <1>4 DEF Chat!Shown
<1>8. NotOvertaken => Chat!OwnMessages'
  BY <1>4
<1>9. NotOvertaken => \A o \in ChatRun : Chat!Heard(o)' => Chat!Shown(o)'
  BY <1>2, <1>6, <1>7
<1>10. \A q \in x5 : (x22[q.kind] = q /\ ~Chat!Spoils(e, q)) \/ e = q => x22'[q.kind] = q
  <2>1. \A q \in x5 : q.kind \in {"question", "approval"}
    BY DEF Chat!FollowInv, Chat!WindowTyped, Chat!Requests
  <2> QED BY <1>1, <2>1
<1> QED BY <1>1, <1>5, <1>8, <1>9, <1>10, FollowTakes

LEMMA TerminalFollows ==
  ASSUME Chat!FollowInv, Chat!TerminalArrives
  PROVE  Chat!FollowInv'
<1> SUFFICES ASSUME NEW e, e = Head(x13), NEW r, r = e.run, NEW s, s = x1[r] PROVE Chat!FollowInv'
  OBVIOUS
<1>1. /\ x13 # <<>> /\ e.kind \in {"done", "error"} /\ x13' = Tail(x13)
      /\ UNCHANGED <<x2, x1, x12, x5, x6, x14, x24>>
      /\ x19' = IF x19.session = s THEN Chat!NoActive ELSE x19
      /\ x22' = Chat!Cleared({"question", "approval"}, s)
      /\ x23' = Chat!Update(s, r, FALSE)
  BY DEF Chat!TerminalArrives, Chat!Arrives, Chat!Taken, Chat!runVars
<1>2. /\ r \in ChatRun /\ s \in Session /\ x13 \in Seq(Chat!Messages)
      /\ NotOvertaken => Chat!Heard(r) /\ Chat!Shown(r) /\ \A o \in ChatRun : Chat!Heard(o) => o = r
  BY <1>1, HeadTells
<1>3. x23 \in [Session -> Seq(Chat!Replies)] /\ DOMAIN x22 = {"question", "approval"}
  BY DEF Chat!FollowInv, Chat!WindowTyped
<1>4. /\ x23' \in [Session -> Seq(Chat!Replies)]
      /\ NotOvertaken => Chat!OwnMessages'
  <2>1. NotOvertaken => Chat!OwnMessages /\ x23[s] # <<>> /\ Chat!LastReply(s).open /\ Chat!LastReply(s).turn = r
    BY <1>2 DEF Chat!Shown, Chat!FollowInv, NotOvertaken
  <2>2. FALSE \in BOOLEAN
    OBVIOUS
  <2>3. x23' \in [Session -> Seq(Chat!Replies)]
    BY <1>1, <1>2, <1>3, <2>2, Updated
  <2> QED BY <1>1, <1>2, <1>3, <2>1, <2>2, <2>3, OwnUpdate
<1>5. DOMAIN x22' = {"question", "approval"}
  BY <1>1, <1>3 DEF Chat!Cleared
<1>6. Chat!WindowTyped'
  BY <1>1, <1>4, <1>5, TakenTyped DEF Chat!FollowInv, Chat!WindowTyped
<1>7. NotOvertaken => \A o \in ChatRun : ~Chat!Heard(o)'
  <2>1. NotOvertaken => Chat!InOrder
    BY DEF Chat!FollowInv, NotOvertaken
  <2>2. Chat!Tells(e, r)
    BY <1>1 DEF Chat!Tells
  <2>3. \A o \in ChatRun : Chat!Heard(o)' => Chat!Heard(o)
    BY <1>1, <1>2, TakenHeard
  <2>4. NotOvertaken => ~Chat!Heard(r)'
    BY <1>1, <1>2, <2>1, <2>2, TakenHeard
  <2> QED BY <1>2, <2>3, <2>4
<1>8. \A q \in x5 : (x22[q.kind] = q /\ ~Chat!Spoils(e, q)) \/ e = q => x22'[q.kind] = q
  <2>1. \A q \in x5 : q.kind \in {"question", "approval"}
    BY DEF Chat!FollowInv, Chat!WindowTyped, Chat!Requests
  <2> QED BY <1>1, <1>3, <2>1 DEF Chat!Cleared, Chat!Spoils
<1> QED BY <1>1, <1>4, <1>6, <1>7, <1>8, FollowTakes

\* What arrives of other things than the text of a run.
LEMMA CardTaken ==
  ASSUME Chat!FollowInv, x13 # <<>>, x13' = Tail(x13),
         UNCHANGED <<x2, x1, x12, x5, x6, x14, x24, x19, x23>>,
         DOMAIN x22' = {"question", "approval"},
         \A q \in x5 : q.kind \in {"question", "approval"} =>
           ((x22[q.kind] = q /\ ~Chat!Spoils(Head(x13), q)) \/ Head(x13) = q => x22'[q.kind] = q)
  PROVE  Chat!FollowInv'
<1>1. x13 \in Seq(Chat!Messages)
  BY DEF Chat!FollowInv, Chat!WindowTyped
<1>2. Chat!WindowTyped'
  BY TakenTyped DEF Chat!FollowInv, Chat!WindowTyped
<1>3. NotOvertaken => \A r \in ChatRun : Chat!Heard(r)' => Chat!Shown(r)'
  <2>1. \A r \in ChatRun : Chat!Heard(r)' => Chat!Heard(r)
    BY <1>1, TakenHeard
  <2>2. \A r \in ChatRun : Chat!Shown(r) => Chat!Shown(r)'
    BY DEF Chat!Shown, Chat!LastReply
  <2> QED BY <2>1, <2>2 DEF Chat!FollowInv, NotOvertaken
<1>4. NotOvertaken => Chat!OwnMessages'
  BY DEF Chat!FollowInv, NotOvertaken, Chat!OwnMessages
<1>5. \A q \in x5 : q.kind \in {"question", "approval"}
  BY DEF Chat!FollowInv, Chat!WindowTyped, Chat!Requests
<1> QED BY <1>2, <1>3, <1>4, <1>5, FollowTakes

LEMMA RequestFollows ==
  ASSUME Chat!FollowInv, Chat!RequestArrives
  PROVE  Chat!FollowInv'
<1> SUFFICES ASSUME NEW e, e = Head(x13) PROVE Chat!FollowInv'
  OBVIOUS
<1>1. /\ x13 # <<>> /\ e.kind \in {"question", "approval"} /\ x13' = Tail(x13)
      /\ UNCHANGED <<x2, x1, x12, x5, x6, x14, x24, x19, x23>>
      /\ x22' = [x22 EXCEPT ![e.kind] = e]
  BY DEF Chat!RequestArrives, Chat!Arrives, Chat!Taken, Chat!runVars
<1>2. DOMAIN x22 = {"question", "approval"}
  BY DEF Chat!FollowInv, Chat!WindowTyped
<1>3. DOMAIN x22' = {"question", "approval"}
  BY <1>1, <1>2
<1>4. \A q \in x5 : q.kind \in {"question", "approval"} =>
        ((x22[q.kind] = q /\ ~Chat!Spoils(e, q)) \/ e = q => x22'[q.kind] = q)
  BY <1>1, <1>2 DEF Chat!Spoils
<1> QED BY <1>1, <1>3, <1>4, CardTaken

LEMMA StoppedFollows ==
  ASSUME Chat!FollowInv, Chat!StoppedArrives
  PROVE  Chat!FollowInv'
<1> SUFFICES ASSUME NEW e, e = Head(x13) PROVE Chat!FollowInv'
  OBVIOUS
<1>1. /\ x13 # <<>> /\ e.kind = "stopped" /\ x13' = Tail(x13)
      /\ UNCHANGED <<x2, x1, x12, x5, x6, x14, x24, x19, x23>>
      /\ x22' = Chat!Cleared({"question"}, e.session)
  BY DEF Chat!StoppedArrives, Chat!Arrives, Chat!Taken, Chat!runVars
<1>2. DOMAIN x22 = {"question", "approval"}
  BY DEF Chat!FollowInv, Chat!WindowTyped
<1>3. DOMAIN x22' = {"question", "approval"}
  BY <1>1, <1>2 DEF Chat!Cleared
<1>4. \A q \in x5 : q.kind \in {"question", "approval"} =>
        ((x22[q.kind] = q /\ ~Chat!Spoils(e, q)) \/ e = q => x22'[q.kind] = q)
  BY <1>1, <1>2 DEF Chat!Spoils, Chat!Cleared
<1> QED BY <1>1, <1>3, <1>4, CardTaken

LEMMA ListedFollows ==
  ASSUME Chat!FollowInv, Chat!ListedArrives
  PROVE  Chat!FollowInv'
<1> SUFFICES ASSUME NEW e, e = Head(x13) PROVE Chat!FollowInv'
  OBVIOUS
<1>1. /\ x13 # <<>> /\ e.kind = "listed" /\ x13' = Tail(x13)
      /\ UNCHANGED <<x2, x1, x12, x5, x6, x14, x24, x19, x23>>
      /\ x22' = IF e.session # x17 THEN x22
                 ELSE IF e.questions = {} THEN Chat!Cleared({"question"}, x17)
                 ELSE [x22 EXCEPT !.question = CHOOSE q \in e.questions : TRUE]
  BY DEF Chat!ListedArrives, Chat!Arrives, Chat!Taken, Chat!runVars
<1>2. DOMAIN x22 = {"question", "approval"}
  BY DEF Chat!FollowInv, Chat!WindowTyped
<1>3. DOMAIN x22' = {"question", "approval"}
  BY <1>1, <1>2 DEF Chat!Cleared
<1>4. ASSUME NEW q \in x5, q.kind \in {"question", "approval"}, (x22[q.kind] = q /\ ~Chat!Spoils(e, q)) \/ e = q
      PROVE  x22'[q.kind] = q
  <2>1. x22[q.kind] = q /\ ~Chat!Spoils(e, q)
    BY <1>1, <1>4
  <2>2. CASE e.session # x17
    BY <1>1, <2>1, <2>2
  <2>3. CASE e.session = x17 /\ e.questions = {}
    BY <1>1, <1>2, <1>4, <2>1, <2>3 DEF Chat!Cleared, Chat!Spoils
  <2>4. CASE e.session = x17 /\ e.questions # {}
    <3>1. CASE q.kind = "question"
      <4>1. e.questions = {q}
        BY <1>1, <2>1, <2>4, <3>1 DEF Chat!Spoils
      <4>2. (CHOOSE p \in e.questions : TRUE) = q
        BY <4>1
      <4> QED BY <1>1, <1>2, <2>4, <3>1, <4>2
    <3>2. CASE q.kind = "approval"
      BY <1>1, <1>2, <2>1, <2>4, <3>2
    <3> QED BY <1>4, <3>1, <3>2
  <2> QED BY <2>2, <2>3, <2>4
<1> QED BY <1>1, <1>3, <1>4, CardTaken

-----------------------------------------------------------------------------
(* What is sent.                                                           *)

LEMMA PendingUnderway ==
  ASSUME Chat!RunsInv, NEW q \in x5
  PROVE  q.run \in ChatRun /\ x2[q.run] = "waiting" /\ Chat!Underway(q.run) /\ Chat!Heard(q.run)
BY DEF Chat!RunsInv, Chat!Underway, Chat!Heard

\* A step that moves the runs R on to next, born as they are.
LEMMA MovesOn ==
  ASSUME NEW r \in ChatRun, NEW next \in {"working", "waiting", "closing", "over"},
         x2[r] # "unborn", next \in {"working", "waiting"} => Chat!Underway(r),
         x2 \in [ChatRun -> {"unborn", "reading", "working", "waiting", "closing", "over"}],
         x2' = [x2 EXCEPT ![r] = next], UNCHANGED <<x1, x12>>
  PROVE  NoneBegins /\ x2'[r] = next
BY DEF NoneBegins, Chat!Underway

LEMMA QuietTyped ==
  ASSUME Chat!WindowTyped, NoneBegins, UNCHANGED <<x13, x19, x23>>, DOMAIN x22' = DOMAIN x22,
         x5' \subseteq x5, x6' = x6
  PROVE  Chat!WindowTyped'
<1>1. x5' \subseteq Chat!Requests /\ DOMAIN x22' = {"question", "approval"}
  BY DEF Chat!WindowTyped
<1> QED BY <1>1, TypedKept DEF Chat!WindowTyped

LEMMA SendsTyped ==
  ASSUME Chat!WindowTyped, NoneBegins, UNCHANGED <<x19, x22, x23>>, NEW e \in Chat!Messages, x13' = Append(x13, e),
         \A r \in ChatRun : e.kind \notin {"listed", "stopped"} /\ e.run = r => x2[r] # "unborn",
         x5' \subseteq Chat!Requests, x6' \in [ChatRun -> Nat]
  PROVE  Chat!WindowTyped'
<1>1. x13 \in Seq(Chat!Messages)
  BY DEF Chat!WindowTyped
<1>2. x13' \in Seq(Chat!Messages) /\ \A i \in DOMAIN x13' : (i \in DOMAIN x13 /\ x13'[i] = x13[i]) \/ x13'[i] = e
  BY <1>1, Sent
<1>3. ASSUME NEW i \in DOMAIN x13', NEW r \in ChatRun, x13'[i].kind \notin {"listed", "stopped"}, x13'[i].run = r
      PROVE  x2[r] # "unborn"
  <2>1. CASE i \in DOMAIN x13 /\ x13'[i] = x13[i]
    BY <1>3, <2>1 DEF Chat!WindowTyped
  <2>2. CASE x13'[i] = e
    BY <1>3, <2>2
  <2> QED BY <1>2, <2>1, <2>2
<1> QED BY <1>2, <1>3, TypedKept DEF Chat!WindowTyped

\* A request that was settled, or whose session is being deleted, is missed by
\* nobody.
LEMMA FollowSettles ==
  ASSUME Chat!FollowInv, NoneBegins, UNCHANGED <<x13, x19, x23, x22, x6, x24, x14>>, x5' \subseteq x5
  PROVE  Chat!FollowInv'
<1>1. Chat!WindowTyped'
  BY QuietTyped DEF Chat!FollowInv
<1>2. NotOvertaken' => NotOvertaken
  BY DEF NotOvertaken, NoneBegins
<1> QED BY <1>1, <1>2, FollowQuiet

LEMMA TellFollows ==
  ASSUME Chat!RunsInv, Chat!FollowInv, NEW r \in ChatRun, Chat!Done(r) \/ Chat!Fail(r), UNCHANGED Chat!windowVars
  PROVE  Chat!FollowInv'
<1>1. /\ x2[r] \in {"reading", "working"} /\ x2' = [x2 EXCEPT ![r] = "closing"]
      /\ UNCHANGED <<x1, x5, x6, x12, x19, x23, x22, x24>>
  BY DEF Chat!Done, Chat!Fail, Chat!Goto, Chat!dataVars, Chat!windowVars
<1>2. PICK kind \in {"done", "error"}, delivered \in BOOLEAN : Chat!Emit(Chat!Event(kind, r, 0), delivered)
  BY DEF Chat!Done, Chat!Fail, Chat!Tell
<1>3. x2 \in [ChatRun -> {"unborn", "reading", "working", "waiting", "closing", "over"}]
  BY DEF Chat!RunsInv
<1>4. NoneBegins /\ x2'[r] = "closing"
  BY <1>1, <1>3, MovesOn
<1>5. NotOvertaken' => NotOvertaken
  BY <1>1 DEF NotOvertaken
<1>6. CASE ~delivered
  <2>1. x13' = x13 /\ x14 \subseteq x14'
    BY <1>2, <1>6 DEF Chat!Emit
  <2>2. Chat!WindowTyped'
    BY <1>1, <1>4, <2>1, QuietTyped DEF Chat!FollowInv
  <2> QED BY <1>1, <1>4, <1>5, <2>1, <2>2, FollowQuiet
<1>7. CASE delivered
  <2> SUFFICES ASSUME NEW e, e = Chat!Event(kind, r, 0) PROVE Chat!FollowInv'
    OBVIOUS
  <2>1. x13' = Append(x13, e) /\ x14' = x14
    BY <1>2, <1>7 DEF Chat!Emit
  <2>2. /\ e.kind \in {"done", "error"} /\ e.run = r
    BY DEF Chat!Event
  <2>3. e \in Chat!Messages
    BY DEF Chat!Event, Chat!Messages
  <2>4. Chat!WindowTyped'
    <3>1. \A o \in ChatRun : e.kind \notin {"listed", "stopped"} /\ e.run = o => x2[o] # "unborn"
      BY <1>1, <2>2
    <3> QED BY <1>1, <1>4, <2>1, <2>3, <3>1, SendsTyped DEF Chat!FollowInv, Chat!WindowTyped
  <2>5. NotOvertaken => x5 = {}
    <3> SUFFICES ASSUME NotOvertaken, NEW q \in x5 PROVE FALSE
      OBVIOUS
    <3>1. q.run \in ChatRun /\ x2[q.run] = "waiting" /\ Chat!Heard(q.run)
      BY PendingUnderway
    <3>2. Chat!Heard(r)
      BY <1>1 DEF Chat!Heard, Chat!Underway
    <3>3. q.run = r
      BY <3>1, <3>2 DEF Chat!FollowInv, NotOvertaken
    <3> QED BY <1>1, <3>1, <3>3
  <2>6. (\A o \in ChatRun : Chat!Tells(e, o) => Chat!Underway(o)) /\ ~Chat!Underway(e.run)'
    BY <1>1, <1>4, <2>2 DEF Chat!Tells, Chat!Underway
  <2> QED BY <1>1, <1>4, <1>5, <2>1, <2>3, <2>4, <2>5, <2>6, FollowSends
<1> QED BY <1>6, <1>7

LEMMA StreamFollows ==
  ASSUME Chat!RunsInv, Chat!FollowInv, NEW r \in ChatRun, Chat!Stream(r), UNCHANGED Chat!windowVars
  PROVE  Chat!FollowInv'
<1>1. /\ x2[r] = "working" /\ x6' = [x6 EXCEPT ![r] = @ + 1] /\ Chat!Emit(Chat!Event("chunk", r, 0), x12 = "up")
      /\ UNCHANGED <<x1, x2, x5, x12, x19, x23, x22, x24>>
  BY DEF Chat!Stream, Chat!dataVars, Chat!windowVars
<1>2. x6 \in [ChatRun -> Nat] /\ x5 \subseteq Chat!Requests
  BY DEF Chat!FollowInv, Chat!WindowTyped
<1>3. x6' \in [ChatRun -> Nat]
  BY <1>1, <1>2
<1>4. NoneBegins
  BY <1>1 DEF NoneBegins, Chat!Underway
<1>5. NotOvertaken' => NotOvertaken
  BY <1>1 DEF NotOvertaken
<1>6. CASE x12 # "up"
  <2>1. x13' = x13 /\ x14 \subseteq x14'
    BY <1>1, <1>6 DEF Chat!Emit
  <2>2. Chat!WindowTyped'
    BY <1>1, <1>2, <1>3, <1>4, <2>1, TypedKept DEF Chat!FollowInv, Chat!WindowTyped
  <2> QED BY <1>1, <1>4, <1>5, <2>1, <2>2, FollowQuiet
<1>7. CASE x12 = "up"
  <2> SUFFICES ASSUME NEW e, e = Chat!Event("chunk", r, 0) PROVE Chat!FollowInv'
    OBVIOUS
  <2>1. x13' = Append(x13, e) /\ x14' = x14
    BY <1>1, <1>7 DEF Chat!Emit
  <2>2. e.kind = "chunk" /\ e.run = r
    BY DEF Chat!Event
  <2>3. e \in Chat!Messages
    BY DEF Chat!Event, Chat!Messages
  <2>4. Chat!WindowTyped'
    <3>1. \A o \in ChatRun : e.kind \notin {"listed", "stopped"} /\ e.run = o => x2[o] # "unborn"
      BY <1>1, <2>2
    <3> QED BY <1>1, <1>2, <1>3, <1>4, <2>1, <2>3, <3>1, SendsTyped DEF Chat!FollowInv
  <2>5. \A q \in x5 : ~Chat!Spoils(e, q)
    BY <1>2, <2>2 DEF Chat!Spoils, Chat!Requests
  <2>6. \A o \in ChatRun : Chat!Tells(e, o) => Chat!Underway(o)
    BY <1>1, <2>2 DEF Chat!Tells, Chat!Underway
  <2> QED BY <1>1, <1>4, <1>5, <2>1, <2>2, <2>3, <2>4, <2>5, <2>6, FollowSends
<1> QED BY <1>6, <1>7

LEMMA AskFollows ==
  ASSUME Chat!RunsInv, Chat!FollowInv, NEW r \in ChatRun, NEW kind \in {"question", "approval"}, Chat!Ask(r, kind), UNCHANGED Chat!windowVars
  PROVE  Chat!FollowInv'
<1> SUFFICES ASSUME NEW e, e = Chat!Request(kind, r) PROVE Chat!FollowInv'
  OBVIOUS
<1>1. /\ x2[r] = "working" /\ x6' = [x6 EXCEPT ![r] = @ + 1] /\ x2' = [x2 EXCEPT ![r] = "waiting"]
      /\ x5' = x5 \cup {e}
      /\ UNCHANGED <<x1, x12, x19, x23, x22, x24>>
  BY DEF Chat!Ask, Chat!Goto, Chat!dataVars, Chat!windowVars
<1>2. PICK delivered \in BOOLEAN : Chat!Emit(e, delivered)
  BY DEF Chat!Ask
<1>3. x6 \in [ChatRun -> Nat] /\ x5 \subseteq Chat!Requests
  BY DEF Chat!FollowInv, Chat!WindowTyped
<1>4. /\ e \in Chat!Requests /\ e \in Chat!Messages /\ e.run = r /\ e.kind \in {"question", "approval"}
      /\ x6' \in [ChatRun -> Nat] /\ x5' \subseteq Chat!Requests
  BY <1>1, <1>3 DEF Chat!Request, Chat!Requests, Chat!Messages
<1>5. x2 \in [ChatRun -> {"unborn", "reading", "working", "waiting", "closing", "over"}]
  BY DEF Chat!RunsInv
<1>6. NoneBegins
  BY <1>1, <1>5, MovesOn DEF Chat!Underway
<1>7. NotOvertaken' => NotOvertaken
  BY <1>1 DEF NotOvertaken
<1>8. NotOvertaken => x5 = {}
  <2> SUFFICES ASSUME NotOvertaken, NEW q \in x5 PROVE FALSE
    OBVIOUS
  <2>1. q.run \in ChatRun /\ x2[q.run] = "waiting" /\ Chat!Heard(q.run)
    BY PendingUnderway
  <2>2. Chat!Heard(r)
    BY <1>1 DEF Chat!Heard, Chat!Underway
  <2>3. q.run = r
    BY <2>1, <2>2 DEF Chat!FollowInv, NotOvertaken
  <2> QED BY <1>1, <2>1, <2>3
<1>9. CASE ~delivered
  <2>1. x13' = x13 /\ x14 \subseteq x14' /\ e.run \in x14'
    BY <1>2, <1>9 DEF Chat!Emit
  <2>2. Chat!WindowTyped'
    BY <1>1, <1>4, <1>6, <2>1, TypedKept DEF Chat!FollowInv, Chat!WindowTyped
  <2> QED BY <1>1, <1>6, <1>7, <2>1, <2>2, FollowQuiet
<1>10. CASE delivered
  <2>1. x13' = Append(x13, e) /\ x14' = x14
    BY <1>2, <1>10 DEF Chat!Emit
  <2>2. Chat!WindowTyped'
    <3>1. \A o \in ChatRun : e.kind \notin {"listed", "stopped"} /\ e.run = o => x2[o] # "unborn"
      BY <1>1, <1>4
    <3> QED BY <1>1, <1>4, <1>6, <2>1, <3>1, SendsTyped DEF Chat!FollowInv
  <2>3. (\A o \in ChatRun : Chat!Tells(e, o) => Chat!Underway(o)) /\ e.kind \notin {"done", "error"}
    BY <1>4 DEF Chat!Tells
  <2>4. NotOvertaken => \A q \in x5' : q = e
    BY <1>1, <1>8
  <2> QED BY <1>1, <1>4, <1>6, <1>7, <2>1, <2>2, <2>3, <2>4, FollowSends
<1> QED BY <1>9, <1>10

LEMMA RunFollows ==
  ASSUME Chat!RunsInv, Chat!FollowInv, NEW r \in ChatRun, Chat!RunStep(r), UNCHANGED Chat!windowVars
  PROVE  Chat!FollowInv'
<1>1. CASE Chat!Prepared(r) \/ Chat!CreateTask(r) \/ Chat!Settle(r)
  <2>1. UNCHANGED <<x1, x12, x13, x19, x23, x22, x6, x24, x14, x5>>
    BY <1>1 DEF Chat!Prepared, Chat!CreateTask, Chat!Settle, Chat!Silent, Chat!dataVars, Chat!runVars, Chat!windowVars
  <2>2. \/ x2' = x2
        \/ x2[r] = "reading" /\ x2' = [x2 EXCEPT ![r] = "working"]
        \/ x2[r] = "closing" /\ x2' = [x2 EXCEPT ![r] = "over"]
    BY <1>1 DEF Chat!Prepared, Chat!CreateTask, Chat!Settle, Chat!Goto, Chat!runVars
  <2>3. x2 \in [ChatRun -> {"unborn", "reading", "working", "waiting", "closing", "over"}]
    BY DEF Chat!RunsInv
  <2>4. NoneBegins
    BY <2>1, <2>2, <2>3 DEF NoneBegins, Chat!Underway
  <2> QED BY <2>1, <2>4, FollowSettles
<1> QED BY <1>1, StreamFollows, AskFollows, TellFollows DEF Chat!RunStep

\* Runs that are let go on.
LEMMA ResumedBegin ==
  ASSUME Chat!RunsInv, NEW Q \in SUBSET x5, x2' = Chat!Resumed(Q), UNCHANGED <<x1, x12>>
  PROVE  NoneBegins
BY ResumedRuns DEF NoneBegins, Chat!Underway

LEMMA AbortBegins ==
  ASSUME Chat!RunsInv, NEW R, Chat!Aborted(R), UNCHANGED <<x1, x12>>
  PROVE  NoneBegins /\ x5' = {q \in x5 : q.run \notin R}
<1> DEFINE Q == {q \in x5 : q.run \in R}
<1>1. Q \in SUBSET x5 /\ x2' = Chat!Resumed(Q) /\ x5' = x5 \ Q
  BY DEF Chat!Aborted
<1> HIDE DEF Q
<1>2. NoneBegins
  BY <1>1, ResumedBegin
<1> QED BY <1>1, <1>2 DEF Q

LEMMA StopFollows ==
  ASSUME Chat!RunsInv, Chat!FollowInv, Chat!Stop
  PROVE  Chat!FollowInv'
<1> DEFINE turns == IF x19.turn = NoRun THEN ChatRun ELSE {x19.turn}
<1> SUFFICES ASSUME NEW e, e = [kind |-> "stopped", session |-> x17] PROVE Chat!FollowInv'
  OBVIOUS
<1>1. /\ x12 = "up" /\ x19 # Chat!NoActive /\ x19.session = x17
      /\ Chat!Aborted(Chat!RunsOf(x17, turns)) /\ x13' = Append(x13, e)
      /\ UNCHANGED <<x1, x12, x6, x14, x19, x22, x23, x24>>
  BY DEF Chat!Stop, Chat!Abort, Chat!dataVars
<1>2. x19 \in [session : Session, turn : ChatRun \cup {NoRun}] /\ x5 \subseteq Chat!Requests /\ x6 \in [ChatRun -> Nat]
  BY <1>1 DEF Chat!FollowInv, Chat!WindowTyped
<1>3. x17 \in Session /\ e \in Chat!Messages /\ e.kind = "stopped" /\ e.session = x17
  BY <1>1, <1>2 DEF Chat!Messages
<1>4. NoneBegins /\ x5' = {q \in x5 : q.run \notin Chat!RunsOf(x17, turns)}
  BY <1>1, AbortBegins
<1>5. Chat!WindowTyped'
  BY <1>1, <1>2, <1>3, <1>4, SendsTyped DEF Chat!FollowInv
<1>6. NotOvertaken' => NotOvertaken
  BY <1>1 DEF NotOvertaken
<1>7. ASSUME NotOvertaken, NEW q \in x5, Chat!Spoils(e, q) PROVE q \notin x5'
  <2>1. q.run \in ChatRun /\ x2[q.run] = "waiting" /\ Chat!Heard(q.run)
    BY PendingUnderway
  <2>2. x1[q.run] = x17
    BY <1>2, <1>3, <1>7 DEF Chat!Spoils, Chat!Requests
  <2>3. x19.turn \in {q.run, NoRun}
    BY <1>7, <2>1 DEF Chat!FollowInv, NotOvertaken, Chat!Shown
  <2>4. q.run \in x4 /\ q.run \in turns
    BY <1>1, <2>1, <2>3 DEF Chat!RunsInv, Chat!Alive
  <2>5. q.run \in Chat!RunsOf(x17, turns)
    BY <2>2, <2>4 DEF Chat!RunsOf
  <2> QED BY <1>4, <2>5
<1>8. NotOvertaken => \A q \in x5' : q \in x5 /\ ~Chat!Spoils(e, q)
  BY <1>4, <1>7
<1>9. \A r \in ChatRun : ~Chat!Tells(e, r)
  BY <1>3 DEF Chat!Tells
<1> HIDE DEF turns
<1> QED BY <1>1, <1>3, <1>4, <1>5, <1>6, <1>8, <1>9, FollowSends

LEMMA SelectFollows ==
  ASSUME Chat!RunsInv, Chat!RestInv, Chat!FollowInv, NEW s \in Session, Chat!Select(s)
  PROVE  Chat!FollowInv'
<1> DEFINE Q == {q \in x5 : q.kind = "question" /\ x1[q.run] = s}
<1> SUFFICES ASSUME NEW e, e = [kind |-> "listed", session |-> s, questions |-> Q] PROVE Chat!FollowInv'
  OBVIOUS
<1>1. /\ x13' = Append(x13, e)
      /\ UNCHANGED <<x1, x2, x12, x5, x6, x14, x19, x22, x23, x24>>
  BY DEF Chat!Select, Chat!runVars, Chat!dataVars
<1>2. x5 \subseteq Chat!Requests /\ x6 \in [ChatRun -> Nat]
  BY DEF Chat!FollowInv, Chat!WindowTyped
<1>3. e \in Chat!Messages /\ e.kind = "listed" /\ e.session = s /\ e.questions = Q
  BY <1>2 DEF Chat!Messages
<1>4. NoneBegins
  BY <1>1 DEF NoneBegins, Chat!Underway
<1>5. Chat!WindowTyped'
  BY <1>1, <1>2, <1>3, <1>4, SendsTyped DEF Chat!FollowInv
<1>6. NotOvertaken' => NotOvertaken
  BY <1>1 DEF NotOvertaken
<1>7. NotOvertaken => \A p, q \in x5 : p = q
  <2> SUFFICES ASSUME NotOvertaken, NEW p \in x5, NEW q \in x5 PROVE p = q
    OBVIOUS
  <2>1. Chat!Heard(p.run) /\ Chat!Heard(q.run) /\ p.run \in ChatRun /\ q.run \in ChatRun
    BY PendingUnderway
  <2>2. p.run = q.run
    BY <2>1 DEF Chat!FollowInv, NotOvertaken
  <2> QED BY <2>2 DEF Chat!RunsInv
<1>8. NotOvertaken => \A q \in x5 : ~Chat!Spoils(e, q)
  <2> SUFFICES ASSUME NotOvertaken, NEW q \in x5 PROVE ~Chat!Spoils(e, q)
    OBVIOUS
  <2>1. q.kind \in {"question", "approval"}
    BY <1>2 DEF Chat!Requests
  <2>2. q.kind = "question" => Q = IF s = x1[q.run] THEN {q} ELSE {}
    BY <1>7
  <2> HIDE DEF Q
  <2> QED BY <1>3, <2>1, <2>2 DEF Chat!Spoils
<1>9. \A r \in ChatRun : ~Chat!Tells(e, r)
  BY <1>3 DEF Chat!Tells
<1> HIDE DEF Q
<1> QED BY <1>1, <1>3, <1>4, <1>5, <1>6, <1>8, <1>9, FollowSends

LEMMA AnswerFollows ==
  ASSUME Chat!RunsInv, Chat!FollowInv, NEW kind \in {"question", "approval"}, Chat!AnswerCard(kind)
  PROVE  Chat!FollowInv'
<1> SUFFICES ASSUME NEW a, a = x22[kind] PROVE Chat!FollowInv'
  OBVIOUS
<1>1. /\ x5' = x5 \ {a} /\ x2' = Chat!Resumed({a} \cap x5) /\ x22' = [x22 EXCEPT ![kind] = Chat!NoCard]
      /\ UNCHANGED <<x1, x12, x13, x6, x14, x19, x23, x24>>
  BY DEF Chat!AnswerCard, Chat!Answer, Chat!Silent, Chat!dataVars
<1>2. {a} \cap x5 \in SUBSET x5
  OBVIOUS
<1>3. NoneBegins
  BY <1>1, <1>2, ResumedBegin
<1>4. DOMAIN x22 = {"question", "approval"} /\ x5 \subseteq Chat!Requests /\ x13 \in Seq(Chat!Messages)
  BY DEF Chat!FollowInv, Chat!WindowTyped
<1>5. Chat!WindowTyped'
  <2>1. DOMAIN x22' = DOMAIN x22
    BY <1>1
  <2> QED BY <1>1, <1>3, <2>1, QuietTyped DEF Chat!FollowInv
<1> SUFFICES ASSUME NotOvertaken'
             PROVE  /\ \A r \in ChatRun : Chat!Heard(r)' => Chat!Shown(r)'
                    /\ \A q, r \in ChatRun : Chat!Heard(q)' /\ Chat!Heard(r)' => q = r
                    /\ Chat!InOrder' /\ Chat!OwnMessages'
                    /\ \A q \in x5' : q.run \in x14' \/ Chat!CardComes(q)'
  BY <1>5 DEF Chat!FollowInv, NotOvertaken
<1>6. NotOvertaken
  BY <1>1 DEF NotOvertaken
<1>7. \A r \in ChatRun : (Chat!Heard(r)' => Chat!Heard(r)) /\ (Chat!Shown(r) => Chat!Shown(r)')
  BY <1>1, <1>3 DEF Chat!Heard, Chat!Tells, NoneBegins, Chat!Shown, Chat!LastReply
<1>8. Chat!InOrder'
  <2>1. \A i \in DOMAIN x13 : x13[i].kind \in {"done", "error"} => x13[i].run \in ChatRun
    <3>1. \A i \in DOMAIN x13 : x13[i] \in Chat!Messages
      BY <1>4
    <3> QED BY <3>1, MessagesTyped
  <2> QED BY <1>1, <1>3, <1>6, <2>1 DEF Chat!FollowInv, NotOvertaken, Chat!InOrder, Chat!Tells, NoneBegins
<1>9. Chat!OwnMessages'
  BY <1>1, <1>6 DEF Chat!FollowInv, NotOvertaken, Chat!OwnMessages
<1>10. ASSUME NEW q \in x5', q.run \notin x14' PROVE Chat!CardComes(q)'
  <2>1. q \in x5 /\ q # a /\ Chat!CardComes(q) /\ q.kind \in {"question", "approval"}
    BY <1>1, <1>4, <1>6, <1>10 DEF Chat!FollowInv, NotOvertaken, Chat!Requests
  <2>2. x22[q.kind] = q => x22'[q.kind] = q
    BY <1>1, <1>4, <2>1
  <2> QED BY <1>1, <2>1, <2>2 DEF Chat!CardComes, Chat!Spoils
<1> QED BY <1>6, <1>7, <1>8, <1>9, <1>10 DEF Chat!FollowInv, NotOvertaken

LEMMA SendFollows ==
  ASSUME Chat!RunsInv, Chat!RestInv, Chat!FollowInv, NEW r \in ChatRun, Chat!Send(r)
  PROVE  Chat!FollowInv'
<1> SUFFICES ASSUME NEW e, e = Chat!Event("started", r, 0), NEW s, s = x17 PROVE Chat!FollowInv'
  OBVIOUS
<1>1. /\ x19 = Chat!NoActive /\ s # NoSession /\ x19' = [session |-> s, turn |-> NoRun]
      /\ x2[r] = "unborn" /\ x2' = [x2 EXCEPT ![r] = "reading"]
      /\ x1' = [x1 EXCEPT ![r] = s] /\ x13' = Append(x13, e)
      /\ x23' = [x23 EXCEPT ![s] = Append(@, Chat!Reply(r))]
      /\ UNCHANGED <<x5, x6, x14, x22, x24, x12>>
  BY DEF Chat!Send, Chat!Start, Chat!Goto
<1>2. /\ e.kind = "started" /\ e.run = r /\ e \in Chat!Messages
      /\ Chat!Reply(r) \in Chat!Replies /\ Chat!Reply(r).turn = r /\ Chat!Reply(r).open /\ Chat!Reply(r).from = {}
  BY DEF Chat!Event, Chat!Messages, Chat!Reply, Chat!Replies
<1>3. /\ s \in Session /\ x1 \in [ChatRun -> Session \cup {NoSession}]
      /\ x2 \in [ChatRun -> {"unborn", "reading", "working", "waiting", "closing", "over"}]
  BY <1>1 DEF Chat!RestInv, Chat!RunsInv
<1>4. /\ x13 \in Seq(Chat!Messages) /\ x23 \in [Session -> Seq(Chat!Replies)]
      /\ \A o \in ChatRun : x2[o] # "unborn" => x1[o] \in Session
      /\ \A i \in DOMAIN x13 : \A o \in ChatRun :
           x13[i].kind \notin {"listed", "stopped"} /\ x13[i].run = o => x2[o] # "unborn"
  BY DEF Chat!FollowInv, Chat!WindowTyped
<1>5. /\ x1'[r] = s /\ x2'[r] = "reading"
      /\ \A o \in ChatRun \ {r} : x1'[o] = x1[o] /\ x2'[o] = x2[o]
  BY <1>1, <1>3
<1>6. /\ x13' \in Seq(Chat!Messages)
      /\ \A i \in DOMAIN x13' : (i \in DOMAIN x13 /\ x13'[i] = x13[i]) \/ x13'[i] = e
  BY <1>1, <1>2, <1>4, Sent
<1> DEFINE q == x23[s]
<1>7. /\ q \in Seq(Chat!Replies) /\ x23' = [x23 EXCEPT ![s] = Append(q, Chat!Reply(r))]
      /\ Append(q, Chat!Reply(r)) \in Seq(Chat!Replies) /\ Len(Append(q, Chat!Reply(r))) = Len(q) + 1 /\ Len(q) \in Nat
      /\ \A i \in DOMAIN Append(q, Chat!Reply(r)) :
           (i \in DOMAIN q /\ Append(q, Chat!Reply(r))[i] = q[i]) \/ Append(q, Chat!Reply(r))[i] = Chat!Reply(r)
      /\ Append(q, Chat!Reply(r))[Len(q) + 1] = Chat!Reply(r)
  <2>1. q \in Seq(Chat!Replies)
    BY <1>3, <1>4
  <2> HIDE DEF q
  <2>2. /\ Append(q, Chat!Reply(r)) \in Seq(Chat!Replies) /\ Len(Append(q, Chat!Reply(r))) = Len(q) + 1 /\ Len(q) \in Nat
        /\ \A i \in DOMAIN Append(q, Chat!Reply(r)) :
             (i \in DOMAIN q /\ Append(q, Chat!Reply(r))[i] = q[i]) \/ Append(q, Chat!Reply(r))[i] = Chat!Reply(r)
        /\ Append(q, Chat!Reply(r))[Len(q) + 1] = Chat!Reply(r)
    BY <1>2, <2>1, Sent
  <2> QED BY <1>1, <2>1, <2>2 DEF q
<1> SUFFICES ASSUME NEW new, new = Append(q, Chat!Reply(r)) PROVE Chat!FollowInv'
  OBVIOUS
<1>8. /\ x23' \in [Session -> Seq(Chat!Replies)] /\ x23'[s] = new
      /\ \A o \in Session \ {s} : x23'[o] = x23[o]
  BY <1>3, <1>4, <1>7
<1>9. Chat!LastReply(s)' = Chat!Reply(r) /\ x23'[s] # <<>>
  BY <1>7, <1>8 DEF Chat!LastReply
<1>10. Chat!WindowTyped'
  <2>1. x19' \in [session : Session, turn : ChatRun \cup {NoRun}]
    BY <1>1, <1>3
  <2>2. \A o \in ChatRun : x2'[o] # "unborn" => x1'[o] \in Session
    BY <1>3, <1>4, <1>5
  <2>3. ASSUME NEW i \in DOMAIN x13', NEW o \in ChatRun, x13'[i].kind \notin {"listed", "stopped"}, x13'[i].run = o
        PROVE  x2'[o] # "unborn"
    <3>1. CASE i \in DOMAIN x13 /\ x13'[i] = x13[i]
      <4>1. x2[o] # "unborn"
        BY <1>4, <2>3, <3>1
      <4> QED BY <1>1, <1>5, <4>1
    <3>2. CASE x13'[i] = e
      BY <1>2, <1>5, <2>3, <3>2
    <3> QED BY <1>6, <3>1, <3>2
  <2> QED BY <1>1, <1>6, <1>8, <2>1, <2>2, <2>3 DEF Chat!FollowInv, Chat!WindowTyped
<1>11. NotOvertaken => \A o \in ChatRun : ~Chat!Heard(o)
  <2> SUFFICES ASSUME NotOvertaken, NEW o \in ChatRun, Chat!Heard(o) PROVE FALSE
    OBVIOUS
  <2>1. x2[o] # "unborn"
    BY <1>4 DEF Chat!Heard, Chat!Underway, Chat!Tells
  <2>2. x19.session = x1[o]
    BY DEF Chat!FollowInv, NotOvertaken, Chat!Shown
  <2> QED BY <1>1, <1>4, <2>1, <2>2, RunsConstants DEF Chat!NoActive
<1> SUFFICES ASSUME NotOvertaken'
             PROVE  /\ \A o \in ChatRun : Chat!Heard(o)' => Chat!Shown(o)'
                    /\ \A o, p \in ChatRun : Chat!Heard(o)' /\ Chat!Heard(p)' => o = p
                    /\ Chat!InOrder' /\ Chat!OwnMessages'
                    /\ \A p \in x5' : p.run \in x14' \/ Chat!CardComes(p)'
  BY <1>10 DEF Chat!FollowInv, NotOvertaken
<1>12. NotOvertaken
  BY <1>1 DEF NotOvertaken
<1>13. \A o \in ChatRun : Chat!Heard(o)' => o = r
  <2> SUFFICES ASSUME NEW o \in ChatRun \ {r} PROVE ~Chat!Heard(o)'
    OBVIOUS
  <2>1. ~Chat!Underway(o)' /\ \A i \in DOMAIN x13 : ~Chat!Tells(x13[i], o)
    BY <1>5, <1>11, <1>12 DEF Chat!Heard, Chat!Underway
  <2>2. ~Chat!Tells(e, o)
    BY <1>2 DEF Chat!Tells
  <2>3. \A i \in DOMAIN x13' : ~Chat!Tells(x13'[i], o)
    BY <1>6, <2>1, <2>2
  <2> QED BY <2>1, <2>3 DEF Chat!Heard, Chat!Tells
<1>14. Chat!Shown(r)'
  <2>1. x19'.session = s /\ x19'.turn = NoRun
    BY <1>1
  <2> QED BY <1>2, <1>5, <1>9, <2>1 DEF Chat!Shown, Chat!LastReply
<1>15. Chat!InOrder'
  <2>1. \A i \in DOMAIN x13 : x13[i].kind \notin {"done", "error"}
    <3> SUFFICES ASSUME NEW i \in DOMAIN x13, x13[i].kind \in {"done", "error"} PROVE FALSE
      OBVIOUS
    <3>1. x13[i] \in Chat!Messages
      BY <1>4
    <3>2. x13[i].run \in ChatRun
      BY <3>1, MessagesTyped
    <3> QED BY <1>11, <1>12, <3>2 DEF Chat!Heard, Chat!Tells
  <2>2. \A i \in DOMAIN x13' : x13'[i].kind \notin {"done", "error"}
    BY <1>2, <1>6, <2>1
  <2> QED BY <2>2 DEF Chat!InOrder
<1>16. Chat!OwnMessages'
  <2> SUFFICES ASSUME NEW o \in Session, NEW i \in DOMAIN x23'[o]
               PROVE  x23'[o][i].from \subseteq {x23'[o][i].turn}
    BY DEF Chat!OwnMessages
  <2>1. Chat!OwnMessages
    BY <1>12 DEF Chat!FollowInv, NotOvertaken
  <2>2. CASE o # s
    BY <1>8, <2>1, <2>2 DEF Chat!OwnMessages
  <2>3. CASE o = s
    <3>1. CASE i \in DOMAIN q /\ new[i] = q[i]
      BY <1>3, <1>8, <2>1, <2>3, <3>1 DEF Chat!OwnMessages
    <3>2. CASE new[i] = Chat!Reply(r)
      BY <1>2, <1>8, <2>3, <3>2
    <3> QED BY <1>7, <1>8, <2>3, <3>1, <3>2
  <2> QED BY <2>2, <2>3
<1>17. x5' = {}
  BY <1>1, <1>11, <1>12, PendingUnderway
<1> QED BY <1>13, <1>14, <1>15, <1>16, <1>17

LEMMA DeletionFollows ==
  ASSUME Chat!RunsInv, Chat!FollowInv,
         \/ Chat!ConfirmDelete \/ Chat!DeletionAnswered \/ (Chat!DeletionStep /\ UNCHANGED Chat!windowVars)
         \/ (\E s \in Session : Chat!RequestDelete(s)) \/ UNCHANGED Chat!vars
  PROVE  Chat!FollowInv'
<1>1. UNCHANGED <<x1, x12, x13, x6, x14, x24, x19, x23, x22>>
  BY DEF Chat!ConfirmDelete, Chat!Delete, Chat!DeletionAnswered, Chat!Answered, Chat!DeletionStep, Chat!RunsSettled, Chat!WaitTimesOut, Chat!RowDeleted,
         Chat!TasksDropped, Chat!DeletionFails, Chat!RequestDelete, Chat!Silent, Chat!runVars, Chat!dataVars, Chat!chatVars, Chat!windowVars, Chat!vars
<1>2. CASE Chat!ConfirmDelete
  <2>1. PICK R : Chat!Aborted(R)
    BY <1>2 DEF Chat!ConfirmDelete, Chat!Delete
  <2> QED BY <1>1, <2>1, AbortBegins, FollowSettles
<1>3. CASE ~Chat!ConfirmDelete
  <2>1. UNCHANGED <<x2, x5>>
    BY <1>3 DEF Chat!DeletionAnswered, Chat!Answered, Chat!DeletionStep, Chat!RunsSettled, Chat!WaitTimesOut, Chat!RowDeleted,
                Chat!TasksDropped, Chat!DeletionFails, Chat!RequestDelete, Chat!runVars, Chat!chatVars, Chat!vars
  <2>2. NoneBegins
    BY <1>1, <2>1 DEF NoneBegins, Chat!Underway
  <2> QED BY <1>1, <2>1, <2>2, FollowSettles
<1> QED BY <1>2, <1>3

LEMMA WatchdogFollows ==
  ASSUME Chat!RunsInv, Chat!FollowInv, Chat!WatchdogFires
  PROVE  Chat!FollowInv'
<1>1. /\ UNCHANGED <<x1, x2, x12, x13, x6, x14, x23, x22, x5>>
      /\ x19' = IF x19.session = x20 THEN Chat!NoActive ELSE x19
      /\ NotOvertaken' => NotOvertaken /\ \A r \in ChatRun : ~(x1[r] = x20 /\ Chat!Heard(r))
  <2>1. /\ UNCHANGED <<x1, x2, x12, x13, x6, x14, x23, x22, x5>>
        /\ x19' = IF x19.session = x20 THEN Chat!NoActive ELSE x19
    BY DEF Chat!WatchdogFires, Chat!chatVars, Chat!runVars
  <2>2. ~x24' => ~x24 /\ \A r \in ChatRun : ~(x1[r] = x20 /\ Chat!Heard(r))
    BY Zenon DEF Chat!WatchdogFires
  <2> QED BY <2>1, <2>2 DEF NotOvertaken
<1>2. NoneBegins
  BY <1>1 DEF NoneBegins, Chat!Underway
<1>3. Chat!WindowTyped'
  BY <1>1, <1>2, TypedKept DEF Chat!FollowInv, Chat!WindowTyped
<1> SUFFICES ASSUME NotOvertaken'
             PROVE  /\ \A r \in ChatRun : Chat!Heard(r)' => Chat!Shown(r)'
                    /\ \A q, r \in ChatRun : Chat!Heard(q)' /\ Chat!Heard(r)' => q = r
                    /\ Chat!InOrder' /\ Chat!OwnMessages'
                    /\ \A q \in x5' : q.run \in x14' \/ Chat!CardComes(q)'
  BY <1>3 DEF Chat!FollowInv, NotOvertaken
<1>4. \A r \in ChatRun : Chat!Heard(r)' <=> Chat!Heard(r)
  BY <1>1 DEF Chat!Heard, Chat!Underway, Chat!Tells
<1>5. \A r \in ChatRun : Chat!Heard(r) => Chat!Shown(r)'
  <2> SUFFICES ASSUME NEW r \in ChatRun, Chat!Heard(r) PROVE Chat!Shown(r)'
    OBVIOUS
  <2>1. Chat!Shown(r) /\ x1[r] # x20
    BY <1>1 DEF Chat!FollowInv, NotOvertaken
  <2>2. x19' = x19
    BY <1>1, <2>1 DEF Chat!Shown
  <2> QED BY <1>1, <2>1, <2>2 DEF Chat!Shown, Chat!LastReply
<1>6. Chat!InOrder' /\ Chat!OwnMessages'
  BY <1>1 DEF Chat!FollowInv, NotOvertaken, Chat!InOrder, Chat!OwnMessages, Chat!Underway, Chat!Tells
<1>7. \A q \in x5' : q.run \in x14' \/ Chat!CardComes(q)'
  BY <1>1 DEF Chat!FollowInv, NotOvertaken, Chat!CardComes, Chat!Spoils
<1> QED BY <1>1, <1>4, <1>5, <1>6, <1>7 DEF Chat!FollowInv, NotOvertaken

LEMMA CardsEmpty == DOMAIN [question |-> Chat!NoCard, approval |-> Chat!NoCard] = {"question", "approval"}
OBVIOUS

LEMMA NothingShown == [s \in Session |-> <<>>] \in [Session -> Seq(Chat!Replies)]
OBVIOUS

LEMMA GoneFollows ==
  ASSUME Chat!RunsInv, Chat!FollowInv, Chat!AppStep, Chat!WindowGone
  PROVE  Chat!FollowInv'
<1>1. x12' # "up" /\ UNCHANGED <<x1, x6>> /\ (x13' = <<>> \/ x13' = x13)
  BY DEF Chat!AppStep, Chat!Quit, Chat!Exit, Chat!Silent
<1>2. x19' = Chat!NoActive /\ DOMAIN x22' = {"question", "approval"} /\ x23' \in [Session -> Seq(Chat!Replies)]
  BY CardsEmpty, NothingShown DEF Chat!WindowGone
<1>3. x5' \subseteq x5 /\ \A r \in ChatRun : x2'[r] = "unborn" <=> x2[r] = "unborn"
  <2>1. CASE Chat!Quit
    <3>1. {q \in x5 : q.run \in x4} \in SUBSET x5
      OBVIOUS
    <3>2. x5' \subseteq x5 /\ x2' = Chat!Resumed({q \in x5 : q.run \in x4})
      BY <2>1 DEF Chat!Quit, Chat!Aborted
    <3> QED BY <3>1, <3>2, ResumedRuns
  <2>2. CASE Chat!Exit
    BY <2>2 DEF Chat!Exit
  <2> QED BY <2>1, <2>2 DEF Chat!AppStep
<1>4. Chat!WindowTyped'
  <2>1. x5' \subseteq Chat!Requests /\ x6' \in [ChatRun -> Nat]
    BY <1>1, <1>3 DEF Chat!FollowInv, Chat!WindowTyped
  <2>2. \A r \in ChatRun : x2'[r] # "unborn" => x1'[r] \in Session
    BY <1>1, <1>3 DEF Chat!FollowInv, Chat!WindowTyped
  <2>3. x13' \in Seq(Chat!Messages) /\ \A i \in DOMAIN x13' : \A r \in ChatRun :
          x13'[i].kind \notin {"listed", "stopped"} /\ x13'[i].run = r => x2'[r] # "unborn"
    <3>1. CASE x13' = <<>>
      BY <3>1
    <3>2. CASE x13' = x13
      BY <1>3, <3>2 DEF Chat!FollowInv, Chat!WindowTyped
    <3> QED BY <1>1, <3>1, <3>2
  <2> QED BY <1>2, <2>1, <2>2, <2>3 DEF Chat!WindowTyped
<1> QED BY <1>1, <1>4 DEF Chat!FollowInv

LEMMA FollowKept == Chat!ChatInv /\ Chat!FollowInv /\ [Chat!Next]_(Chat!vars) => Chat!FollowInv'
<1> SUFFICES ASSUME Chat!RunsInv, Chat!RestInv, Chat!FollowInv, [Chat!Next]_(Chat!vars) PROVE Chat!FollowInv'
  BY DEF Chat!ChatInv
<1>1. CASE Chat!MainStep /\ UNCHANGED Chat!windowVars
  BY <1>1, RunFollows, DeletionFollows DEF Chat!MainStep
<1>2. CASE Chat!UserStep
  BY <1>2, SendFollows, StopFollows, AnswerFollows, SelectFollows, DeletionFollows DEF Chat!UserStep
<1>3. CASE Chat!ArrivalStep
  BY <1>3, StartedFollows, ChunkFollows, TerminalFollows, RequestFollows, StoppedFollows, ListedFollows,
     DeletionFollows DEF Chat!ArrivalStep
<1> QED BY <1>1, <1>2, <1>3, GoneFollows, WatchdogFollows, DeletionFollows DEF Chat!Next

LEMMA FollowInitially == Chat!Init => Chat!FollowInv
<1> SUFFICES ASSUME Chat!Init PROVE Chat!FollowInv
  OBVIOUS
<1>1. /\ x1 = [r \in ChatRun |-> NoSession] /\ x2 = [r \in ChatRun |-> "unborn"]
      /\ x5 = {} /\ x6 = [r \in ChatRun |-> 0] /\ x13 = <<>>
      /\ x19 = Chat!NoActive /\ x22 = [question |-> Chat!NoCard, approval |-> Chat!NoCard]
      /\ x23 = [s \in Session |-> <<>>]
  BY DEF Chat!Init, Chat!ChatInit
<1>2. x13 \in Seq(Chat!Messages) /\ DOMAIN x13 = {}
  BY <1>1
<1>3. DOMAIN x22 = {"question", "approval"} /\ x23 \in [Session -> Seq(Chat!Replies)]
  BY <1>1, CardsEmpty, NothingShown
<1>4. Chat!WindowTyped
  BY <1>1, <1>2, <1>3 DEF Chat!WindowTyped
<1>5. \A r \in ChatRun : ~Chat!Heard(r)
  BY <1>1, <1>2 DEF Chat!Heard, Chat!Underway
<1>6. Chat!InOrder /\ Chat!OwnMessages
  BY <1>1, <1>2 DEF Chat!InOrder, Chat!OwnMessages
<1> QED BY <1>1, <1>4, <1>5, <1>6 DEF Chat!FollowInv

LEMMA InvFollows == Chat!ChatInv /\ Chat!FollowInv => Chat!WindowFollowsRuns
<1> SUFFICES ASSUME Chat!RunsInv, Chat!FollowInv PROVE Chat!WindowFollowsRuns
  BY DEF Chat!ChatInv
<1>1. Chat!OneRunAtATime
  <2>1. \A r \in ChatRun : Chat!Underway(r) => Chat!Heard(r)
    BY DEF Chat!Heard
  <2> QED BY <2>1 DEF Chat!OneRunAtATime, Chat!FollowInv, Chat!Shown, Chat!OwnMessages
<1>2. Chat!EveryRequestHasItsCard
  <2> SUFFICES ASSUME x12 = "up", x13 = <<>>, ~x24, NEW q \in x5, q.run \notin x14 PROVE x22[q.kind] = q
    BY DEF Chat!EveryRequestHasItsCard
  <2>1. Chat!CardComes(q)
    BY DEF Chat!FollowInv
  <2>2. DOMAIN x13 = {}
    OBVIOUS
  <2> QED BY <2>1, <2>2 DEF Chat!CardComes
<1> QED BY <1>1, <1>2 DEF Chat!WindowFollowsRuns

ChatPart == part = "chat" => Chat!ChatInv

LEMMA ChatAlone == part = "chat" /\ [Next]_all => [Chat!Next]_(Chat!vars)
BY DEF Next, all, Chat!vars, Chat!chatVars, Chat!runVars, Chat!dataVars, Chat!windowVars

\* However a run ends, is stopped, or loses its session or its window, it is
\* suspended on at most one request and on none once aborted, it is told about
\* once, and a deletion that waited for it leaves nothing of it behind
\* (ChatRunRegistry, QuestionService, ToolApprovalRegistry, sessions.delete).
THEOREM RunsAlwaysAnswerOnce == Spec => []RunsAnswerOnce
<1>1. Init => ChatPart
  BY ChatInitially DEF Init, ChatPart
<1>2. ChatPart /\ [Next]_all => ChatPart'
  BY PartStays, ChatAlone, ChatKept DEF ChatPart
<1>3. ChatPart => RunsAnswerOnce
  BY InvAnswersOnce DEF ChatPart, RunsAnswerOnce
<1> QED BY <1>1, <1>2, <1>3, PTL DEF Spec

FollowPart == part = "chat" => Chat!ChatInv /\ Chat!FollowInv

\* Unless the watchdog released a run not heard to the end: at most one run is
\* underway and it is the one the window shows as active, what a run sends ends
\* up in its own message, and once everything sent has arrived the request of a
\* suspended run is on its card, whatever was stopped, answered, selected or
\* deleted meanwhile (App.tsx).
THEOREM WindowAlwaysFollows == Spec => []WindowFollowsRuns
<1>1. Init => FollowPart
  BY ChatInitially, FollowInitially DEF Init, FollowPart
<1>2. FollowPart /\ [Next]_all => FollowPart'
  BY PartStays, ChatAlone, ChatKept, FollowKept DEF FollowPart
<1>3. FollowPart => WindowFollowsRuns
  BY InvFollows DEF FollowPart, WindowFollowsRuns
<1> QED BY <1>1, <1>2, <1>3, PTL DEF Spec
=============================================================================
