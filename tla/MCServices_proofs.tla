------------------------- MODULE MCServices_proofs -------------------------
(***************************************************************************)
(* What the services promise, proved for every value of their constants.   *)
(* Each section is about one part: its lemmas speak of the definitions of  *)
(* the part's module under the name MCServices gives its instance, with    *)
(* x1, x2, ... for its variables; the last theorems say it of Spec, whose  *)
(* behaviours are those of the parts.                                      *)
(***************************************************************************)
EXTENDS MCServices, SequenceTheorems, FiniteSetTheorems, TLAPS

\* A behaviour is one of one part.
LEMMA PartStays == [Next]_all => UNCHANGED part
BY DEF Next, all, KeepAfter6, KeepAfter8, KeepAfter10, KeepAfter11, KeepAfter14, KeepAfter16

-----------------------------------------------------------------------------
(* The repetition guard: x1 results, x2 recoveries, x3 decision, x4 calls,  *)
(* x5 asked, x6 observed.                                                   *)

\* What was executed was not a repetition: two results, of which the call is the
\* third, are not the same.
LEMMA TwoOnly ==
  ASSUME x1 \in Seq(Fingerprint), ~Guard!Repeating, Len(x1) = 2
  PROVE  x1[1] # x1[2]
<1>1. DOMAIN x1 = {1, 2}
  OBVIOUS
<1> QED BY <1>1 DEF Guard!Repeating, Guard!Threshold

LEMMA TwoOrMore == \A n \in Nat : n >= 2 => n = 2 \/ n > 2
OBVIOUS

\* And where the guard steps in first, there are two and they are the same.
LEMMA TwoTheSame ==
  ASSUME x1 \in Seq(Fingerprint), Guard!Repeating, Len(x1) > 2 => x1[1] # x1[2]
  PROVE  Len(x1) = 2 /\ x1[1] = x1[2]
<1>1. Len(x1) >= 2 /\ Len(x1) \in Nat /\ DOMAIN x1 = 1 .. Len(x1)
  BY DEF Guard!Repeating, Guard!Threshold
<1>2. 2 \in DOMAIN x1
  BY <1>1
<1>3. x1[2] = x1[1]
  BY <1>2 DEF Guard!Repeating
<1> QED BY <1>1, <1>3

LEMMA GuardInitially == Guard!GuardInit => Guard!GuardInv
BY DEF Guard!GuardInit, Guard!GuardInv, Guard!RepetitionIsNoticed, Guard!NoticedAtOnce, Guard!AskedOnce

LEMMA ExecuteStep == Guard!GuardInv /\ Guard!Execute => Guard!GuardInv'
<1> SUFFICES ASSUME Guard!GuardInv, Guard!Execute PROVE Guard!GuardInv'
  OBVIOUS
<1> USE DEF Guard!GuardInv
<1>1. Guard!BeforeCall = "execute" /\ UNCHANGED <<x2, x3, x5>>
  BY DEF Guard!Execute, Guard!Called
<1>2. x2 = 0 /\ ~Guard!Repeating /\ x3 = "none"
  <2>1. x3 # "stop" /\ x3 # "replan"
    BY <1>1 DEF Guard!BeforeCall
  <2> QED BY <1>1, <2>1 DEF Guard!BeforeCall
<1>3. x1' \in Seq(Fingerprint)
  BY DEF Guard!Execute
<1>4. Len(x1') > 2 => x1'[1] # x1'[2]
  <2>1. CASE UNCHANGED x1
    BY <2>1 DEF Guard!RepetitionIsNoticed, Guard!NoticedAtOnce
  <2>2. ASSUME NEW f \in Fingerprint, x1' = Append(x1, f), Len(x1') > 2
        PROVE  x1'[1] # x1'[2]
    <3>1. Len(x1) \in Nat /\ Len(x1') = Len(x1) + 1
          /\ \A i \in 1 .. Len(x1) : x1'[i] = x1[i]
      BY <2>2
    <3>2. Len(x1) \in Nat /\ Len(x1) >= 2
      BY <2>2, <3>1
    <3>3. x1'[1] = x1[1] /\ x1'[2] = x1[2]
      BY <3>1, <3>2
    <3>4. x1[1] # x1[2]
      <4>1. CASE Len(x1) = 2
        BY <1>2, <4>1, TwoOnly
      <4>2. CASE Len(x1) > 2
        BY <4>2 DEF Guard!RepetitionIsNoticed, Guard!NoticedAtOnce
      <4>3. Len(x1) = 2 \/ Len(x1) > 2
        BY <3>2, TwoOrMore
      <4> QED BY <4>1, <4>2, <4>3
    <3> QED BY <3>3, <3>4
  <2> QED BY <2>1, <2>2 DEF Guard!Execute
<1> QED BY <1>1, <1>2, <1>3, <1>4 DEF Guard!RepetitionIsNoticed, Guard!NoticedAtOnce, Guard!AskedOnce

LEMMA RecoverStep == Guard!GuardInv /\ Guard!Recover => Guard!GuardInv'
<1> SUFFICES ASSUME Guard!GuardInv, Guard!Recover PROVE Guard!GuardInv'
  OBVIOUS
<1>1. Len(x1) = 2 /\ x1[1] = x1[2]
  <2>1. x2 > 0 \/ Guard!Repeating
    BY DEF Guard!Recover, Guard!Called, Guard!BeforeCall, Guard!GuardInv
  <2> QED BY <2>1, TwoTheSame DEF Guard!GuardInv, Guard!RepetitionIsNoticed, Guard!NoticedAtOnce
<1> QED BY <1>1
    DEF Guard!GuardInv, Guard!Recover, Guard!RepetitionIsNoticed, Guard!NoticedAtOnce, Guard!AskedOnce

LEMMA EscalateStep == Guard!GuardInv /\ Guard!Escalate => Guard!GuardInv'
<1> SUFFICES ASSUME Guard!GuardInv, Guard!Escalate PROVE Guard!GuardInv'
  OBVIOUS
<1>1. x3 = "none" /\ x5 = 0
  <2>1. Guard!BeforeCall = "escalate"
    BY DEF Guard!Escalate, Guard!Called
  <2>2. x3 # "stop" /\ x3 # "replan"
    BY <2>1 DEF Guard!BeforeCall
  <2> QED BY <2>2 DEF Guard!GuardInv
<1>2. x2 > 0
  BY DEF Guard!Escalate, Guard!Called, Guard!BeforeCall
<1> QED BY <1>1, <1>2
    DEF Guard!GuardInv, Guard!Escalate, Guard!RepetitionIsNoticed, Guard!NoticedAtOnce, Guard!AskedOnce

LEMMA TerminateStep == Guard!GuardInv /\ Guard!Terminate => Guard!GuardInv'
BY DEF Guard!GuardInv, Guard!Terminate, Guard!RepetitionIsNoticed, Guard!NoticedAtOnce, Guard!AskedOnce

LEMMA GuardUnchanged == Guard!GuardInv /\ UNCHANGED Guard!guardVars => Guard!GuardInv'
BY DEF Guard!GuardInv, Guard!RepetitionIsNoticed, Guard!NoticedAtOnce, Guard!AskedOnce, Guard!guardVars

LEMMA GuardStep == Guard!GuardInv /\ [Guard!GuardNext]_(Guard!guardVars) => Guard!GuardInv'
BY ExecuteStep, RecoverStep, EscalateStep, TerminateStep, GuardUnchanged DEF Guard!GuardNext

GuardPart == part = "guard" => Guard!GuardInv

\* A call whose first two results are the same is not executed a third time, the
\* guard warns of no other (DoomLoopGuard.beforeCall), and the user is asked about
\* it once.
THEOREM RepetitionAlwaysNoticed == Spec => []RepetitionIsNoticed
<1>1. Init => GuardPart
  BY GuardInitially DEF Init, GuardPart
<1>2. GuardPart /\ [Next]_all => GuardPart'
  <2>1. part = "guard" /\ [Next]_all => [Guard!GuardNext]_(Guard!guardVars)
    BY DEF Next, all, Guard!guardVars, KeepAfter6
  <2> QED BY <2>1, PartStays, GuardStep DEF GuardPart
<1>3. GuardPart => RepetitionIsNoticed
  BY DEF GuardPart, Guard!GuardInv, RepetitionIsNoticed
<1> QED BY <1>1, <1>2, <1>3, PTL DEF Spec

-----------------------------------------------------------------------------
(* The search: x1 object, x2 content, x3 opens, x4 known, x5 identity,      *)
(* x6 minted, x7 generation, x8 cache, x9 sequence, x10 sessions,           *)
(* x11 active, x12 finder, x13 finds, x14 seen, x15 delivered, x16 spoilt,  *)
(* x17 lostAnswers.                                                         *)

LEMMA IdentityInitially == Search!SearchInit => Search!IdentityInv
BY DEF Search!SearchInit, Search!IdentityInv

\* A reset mints an identity nobody has seen, or leaves the document without one.
LEMMA ResetIdentity ==
  ASSUME Search!IdentityInv, Search!Reset
  PROVE  /\ x4' = x1' /\ x6' \in Nat /\ x5' \in Nat /\ x6 <= x6'
         /\ x2' # 0 => x5' = x6' /\ x6' = x6 + 1
         /\ x2' = 0 => x5' = 0 /\ x6' = x6
<1>1. x6 \in Nat
  BY DEF Search!IdentityInv
<1> QED BY <1>1 DEF Search!Reset

LEMMA ExecuteIdentity ==
  ASSUME Search!IdentityInv, Search!Execute
  PROVE  Search!IdentityInv' /\ Search!IdentityOfContent
<1> USE DEF Search!IdentityInv
<1>1. /\ UNCHANGED <<x1, x2, x3>>
      /\ x14' = [identity |-> x5', content |-> x2]
  BY DEF Search!Execute
<1>2. CASE Search!Changed
  <2>1. Search!Reset
    BY <1>2 DEF Search!Execute
  <2>2. /\ x4' = x1' /\ x6' \in Nat /\ x5' \in Nat /\ x6 <= x6'
        /\ x2' # 0 => x5' = x6' /\ x6' = x6 + 1
        /\ x2' = 0 => x5' = 0 /\ x6' = x6
    BY <2>1, ResetIdentity
  <2> QED BY <1>1, <2>2 DEF Search!IdentityOfContent
<1>3. CASE ~Search!Changed
  <2>1. UNCHANGED <<x4, x5, x6>>
    BY <1>3 DEF Search!Execute
  <2>2. (x2 # 0) = (x5 # 0)
    BY <1>3 DEF Search!Changed
  <2> QED BY <1>1, <2>1, <2>2 DEF Search!IdentityOfContent
<1> QED BY <1>2, <1>3

LEMMA OpenIdentity ==
  ASSUME Search!IdentityInv, NEW o \in 1..2, Search!OpenDocument(o)
  PROVE  Search!IdentityInv' /\ Search!IdentityOfContent
<1> USE DEF Search!IdentityInv
<1>1. Search!Reset /\ x2' = 0 /\ x3' = x3 + 1 /\ x14' = x14
  BY DEF Search!OpenDocument
<1>2. x4' = x1' /\ x5' = 0 /\ x6' = x6
  BY <1>1, ResetIdentity
<1> QED BY <1>1, <1>2 DEF Search!IdentityOfContent

\* Calls of a search leave identity and document alone.
LEMMA FinderIdentity ==
  ASSUME Search!IdentityInv, NEW f \in Finder,
         \/ Search!Find(f) \/ Search!SliceFails(f) \/ Search!Slice(f) \/ Search!Built(f)
         \/ \E arrives \in BOOLEAN : Search!Answer(f, arrives)
  PROVE  UNCHANGED <<Search!docVars, x14>>
<1>1. CASE Search!Slice(f)
  BY <1>1 DEF Search!Slice, Search!IdentityInv, Search!docVars
<1>2. CASE Search!Find(f) \/ Search!SliceFails(f) \/ Search!Built(f) \/ \E arrives \in BOOLEAN : Search!Answer(f, arrives)
  BY <1>2 DEF Search!Find, Search!SliceFails, Search!Built, Search!Answer
<1> QED BY <1>1, <1>2

LEMMA IdentityStep ==
  Search!IdentityInv /\ [Search!SearchNext]_(Search!searchVars) => Search!IdentityInv' /\ Search!IdentityOfContent
<1> SUFFICES ASSUME Search!IdentityInv, [Search!SearchNext]_(Search!searchVars)
             PROVE  Search!IdentityInv' /\ Search!IdentityOfContent
  OBVIOUS
<1>1. CASE UNCHANGED <<Search!docVars, x14>>
  BY <1>1 DEF Search!IdentityInv, Search!IdentityOfContent, Search!docVars
<1>2. CASE Search!ModelsArrive
  BY <1>2 DEF Search!ModelsArrive, Search!IdentityInv, Search!IdentityOfContent
<1>3. CASE UNCHANGED Search!searchVars
  BY <1>1, <1>3 DEF Search!searchVars
<1> QED BY <1>1, <1>2, <1>3, OpenIdentity, ExecuteIdentity, FinderIdentity
        DEF Search!SearchNext

-----------------------------------------------------------------------------
(* What a search finds.                                                     *)

LEMMA SearchNumbers == Items \in Nat /\ Named \subseteq 1..Items /\ Valued \subseteq 1..Items /\ Cached \in Nat \ {0}
BY ServicesConstants

LEMMA Replaced ==
  ASSUME NEW S, NEW q \in Seq(S), NEW n \in DOMAIN q, NEW e \in S, NEW r, r = [q EXCEPT ![n] = e]
  PROVE  /\ r \in Seq(S) /\ Len(r) = Len(q) /\ DOMAIN r = DOMAIN q /\ r[n] = e
         /\ \A m \in DOMAIN q \ {n} : r[m] = q[m]
OBVIOUS

LEMMA Appended ==
  ASSUME NEW S, NEW q \in Seq(S), NEW e \in S, NEW r, r = Append(q, e)
  PROVE  /\ r \in Seq(S) /\ Len(r) = Len(q) + 1 /\ Len(q) \in Nat /\ r[Len(q) + 1] = e
         /\ DOMAIN q = 1..Len(q) /\ DOMAIN r = 1..(Len(q) + 1)
         /\ \A m \in DOMAIN q : r[m] = q[m] /\ m # Len(q) + 1
OBVIOUS

LEMMA Removed ==
  ASSUME NEW S, NEW q \in Seq(S), q # <<>>
  PROVE  /\ Tail(q) \in Seq(S)
         /\ \A m \in DOMAIN Tail(q) : \E k \in DOMAIN q : Tail(q)[m] = q[k]
<1>1. Tail(q) \in Seq(S) /\ DOMAIN Tail(q) = 1..(Len(q) - 1) /\ DOMAIN q = 1..Len(q) /\ Len(q) \in Nat /\ Len(q) > 0
  OBVIOUS
<1>2. \A m \in 1..(Len(q) - 1) : Tail(q)[m] = q[m + 1] /\ m + 1 \in 1..Len(q)
  OBVIOUS
<1> QED BY <1>1, <1>2

\* A scan nobody touches stays as it is.
LEMMA SameFound ==
  ASSUME Search!SearchTypeOK, NEW m \in DOMAIN x10, Search!ExactlyFound(m),
         x10'[m] = x10[m], x15'[m] = x15[m],
         x3' \in Nat, x3 <= x3', Search!Running(m)' = {} => Search!Running(m) = {},
         ~x10[m].complete => x11' = m /\ x3' = x3 /\ (x2 # 0 => x2' # 0)
  PROVE  Search!ExactlyFound(m)'
<1>1. PICK s : s = x10[m] /\ s = x10'[m]
  OBVIOUS
<1>2. PICK got : got = x15[m] /\ got = x15'[m]
  OBVIOUS
<1>3. /\ ~s.complete => x11 = m /\ (s.document # 0 => x2 # 0)
      /\ Search!Running(m) = {} /\ (s.full \/ s.complete) => Search!Matched(s) \subseteq got
      /\ \E c \in 0..x3 : Search!Exact(s, got, c) /\ (~s.complete => c = x3)
  BY <1>1, <1>2 DEF Search!ExactlyFound
<1>4. ~s.complete => x11' = m /\ (s.document # 0 => x2' # 0)
  BY <1>1, <1>3
<1>5. Search!Running(m)' = {} /\ (s.full \/ s.complete) => Search!Matched(s) \subseteq got
  BY <1>3
<1>6. \E c \in 0..x3' : Search!Exact(s, got, c) /\ (~s.complete => c = x3')
  <2>1. PICK c \in 0..x3 : Search!Exact(s, got, c) /\ (~s.complete => c = x3)
    BY <1>3
  <2>2. c \in 0..x3' /\ x3 \in Nat
    BY DEF Search!SearchTypeOK
  <2>3. ~s.complete => c = x3'
    BY <1>1, <2>1
  <2> QED BY <2>1, <2>2, <2>3
<1>7. ~x10'[m].complete => x11' = m /\ (x10'[m].document # 0 => x2' # 0)
  BY <1>1, <1>4
<1>8. Search!Running(m)' = {} /\ (x10'[m].full \/ x10'[m].complete) => Search!Matched(x10'[m]) \subseteq x15'[m]
  BY <1>1, <1>2, <1>5
<1>9. \E c \in 0..x3' : Search!Exact(x10'[m], x15'[m], c) /\ (~x10'[m].complete => c = x3')
  BY <1>1, <1>2, <1>6
<1> HIDE DEF Search!Running
<1> QED BY <1>7, <1>8, <1>9 DEF Search!ExactlyFound

LEMMA MatchedPairs ==
  ASSUME NEW s \in Search!SearchRecord
  PROVE  Search!Matched(s) \in SUBSET (Nat \X Nat)
<1>1. s.matches \in Seq(Search!Entry)
  BY DEF Search!SearchRecord
<1>2. \A k \in DOMAIN s.matches : s.matches[k] \in Search!Entry
  BY <1>1
<1>3. \A e \in Search!Entry : e.item \in Nat \X Nat
  BY DEF Search!Entry
<1> QED BY <1>2, <1>3 DEF Search!Matched

LEMMA Discarded ==
  ASSUME NEW s \in Search!SearchRecord
  PROVE  Search!Discard(s) \in Search!SearchRecord /\ Search!Discard(s).matches = s.matches
<1>1. 0 \in 0..Items
  BY SearchNumbers
<1> QED BY <1>1 DEF Search!Discard, Search!SearchRecord

LEMMA Cleared ==
  ASSUME NEW s \in Search!SearchRecord, NEW new, new = [s EXCEPT !.matches = <<>>, !.full = FALSE]
  PROVE  /\ new \in Search!SearchRecord /\ new.matches = <<>> /\ ~new.full /\ new.complete = s.complete
         /\ new.phase = s.phase /\ new.place = s.place /\ new.document = s.document
<1>1. <<>> \in Seq(Search!Entry)
  OBVIOUS
<1>2. new.matches = <<>> /\ new.full = FALSE
  BY DEF Search!SearchRecord
<1>3. /\ new.document = s.document /\ new.phase = s.phase /\ new.place = s.place /\ new.scanned = s.scanned
      /\ new.complete = s.complete /\ new.discarded = s.discarded
  BY DEF Search!SearchRecord
<1>4. new \in Search!SearchRecord
  BY <1>1 DEF Search!SearchRecord
<1> QED BY <1>2, <1>3, <1>4

LEMMA SearchInitially == Search!SearchInit => Search!SearchInv
<1> SUFFICES ASSUME Search!SearchInit PROVE Search!SearchInv
  OBVIOUS
<1>1. /\ x10 = <<>> /\ x8 = <<>> /\ x15 = <<>> /\ x11 = 0 /\ x9 = 0 /\ x7 = 1
      /\ x1 = 1 /\ x2 = 1 /\ x3 = 1 /\ x12 = [f \in Finder |-> Search!Idle]
  BY DEF Search!SearchInit
<1>2. DOMAIN x10 = {} /\ DOMAIN x8 = {} /\ Len(x10) = 0 /\ Len(x15) = 0
  BY <1>1
<1>3. Search!SearchTypeOK
  BY <1>1, <1>2 DEF Search!SearchTypeOK, Search!Idle
<1>4. Search!AloneOrSpoilt
  BY <1>1 DEF Search!AloneOrSpoilt, Search!Idle
<1> QED BY <1>1, <1>2, <1>3, <1>4 DEF Search!SearchInv, Search!IdsIssued, Search!FoundOnce, Search!NoResumeOverReset, Search!IdsNeverRebound

\* Nothing of the searches changes but who waits for them.
LEMMA CallsKeepSearch ==
  ASSUME Search!SearchInv, UNCHANGED <<x1, x3, x7, x8, x9, x10>>,
         x2' \in {0, x3}, x2 # 0 => x2' # 0,
         x11' = x11 \/ x11' = 0,
         x11' # x11 => x11 \in x16' \/ x10[x11].complete,
         x16 \subseteq x16',
         Search!SearchTypeOK', Search!AloneOrSpoilt',
         \A n \in DOMAIN x10 \ x16' :
           \/ Search!ExactlyFound(n)'
           \/ x15'[n] = x15[n] /\ (Search!Running(n)' = {} => Search!Running(n) = {})
  PROVE  Search!SearchInv'
<1>1. Search!SearchTypeOK /\ Search!IdsIssued /\ Search!FoundOnce /\ Search!NoResumeOverReset /\ Search!IdsNeverRebound
      /\ \A n \in DOMAIN x10 \ x16 : Search!ExactlyFound(n)
  BY DEF Search!SearchInv
<1>2. Search!IdsIssued' /\ Search!IdsNeverRebound'
  BY <1>1 DEF Search!IdsIssued, Search!IdsNeverRebound, Search!Issued
<1>3. Search!FoundOnce'
  BY <1>1 DEF Search!FoundOnce
<1>4. Search!NoResumeOverReset'
  BY <1>1 DEF Search!NoResumeOverReset
<1>5. ASSUME NEW n \in DOMAIN x10 \ x16' PROVE Search!ExactlyFound(n)'
  <2>1. CASE x15'[n] = x15[n] /\ (Search!Running(n)' = {} => Search!Running(n) = {})
    <3>1. Search!ExactlyFound(n) /\ n \notin x16
      BY <1>1
    <3>2. ~x10[n].complete => x11' = n
      BY <3>1 DEF Search!ExactlyFound
    <3>3. x3' \in Nat /\ x3 <= x3'
      BY <1>1 DEF Search!SearchTypeOK
    <3> QED BY <1>1, <2>1, <3>1, <3>2, <3>3, SameFound
  <2> QED BY <2>1
<1> QED BY <1>2, <1>3, <1>4, <1>5 DEF Search!SearchInv

LEMMA ArrivalKeepsSearch ==
  ASSUME Search!SearchInv, Search!ModelsArrive \/ (Search!Execute /\ ~Search!Changed) \/ UNCHANGED Search!searchVars
  PROVE  Search!SearchInv'
<1>1. /\ UNCHANGED <<x1, x3, x7, x8, x9, x10, x11, x16, x12, x15>>
      /\ x2' \in {0, x3} /\ (x2 # 0 => x2' # 0)
  BY DEF Search!ModelsArrive, Search!Execute, Search!SearchInv, Search!SearchTypeOK, Search!searchVars, Search!docVars, Search!cacheVars
<1>2. Search!SearchTypeOK' /\ Search!AloneOrSpoilt'
  BY <1>1 DEF Search!SearchInv, Search!SearchTypeOK, Search!AloneOrSpoilt
<1>3. \A n : Search!Running(n)' = Search!Running(n)
  BY <1>1 DEF Search!Running
<1> QED BY <1>1, <1>2, <1>3, CallsKeepSearch

LEMMA BuiltKeepsSearch ==
  ASSUME Search!SearchInv, NEW f \in Finder, Search!Built(f)
  PROVE  Search!SearchInv'
<1>1. Search!SearchTypeOK /\ Search!AloneOrSpoilt
  BY DEF Search!SearchInv
<1>2. PICK n \in DOMAIN x10 :
        /\ n = x12[f].session /\ x12[f].at = "scanning" /\ x12' = [x12 EXCEPT ![f].at = "built"]
        /\ x11' = (IF x10[n].complete /\ x11 = n THEN 0 ELSE x11)
        /\ UNCHANGED <<x1, x2, x3, x7, x8, x9, x10, x15, x16>>
  BY <1>1 DEF Search!Built, Search!FinderIs, Search!SearchTypeOK, Search!docVars, Search!cacheVars
<1>3. \A g \in Finder : /\ x12'[g].session = x12[g].session
                        /\ g # f => x12'[g] = x12[g]
                        /\ x12'[f].at = "built"
  BY <1>1, <1>2 DEF Search!SearchTypeOK
<1>4. \A m : Search!Running(m)' = Search!Running(m)
  BY <1>2, <1>3 DEF Search!Running
<1>5. Search!SearchTypeOK'
  <2>1. x12' \in [Finder -> [at : {"idle", "scanning", "built"}, session : Nat]]
    BY <1>1, <1>2 DEF Search!SearchTypeOK
  <2>2. \A g \in Finder : x12'[g].at # "idle" => x12'[g].session \in DOMAIN x10
    BY <1>1, <1>2, <1>3 DEF Search!SearchTypeOK
  <2> QED BY <1>1, <1>2, <2>1, <2>2 DEF Search!SearchTypeOK
<1>6. Search!AloneOrSpoilt'
  BY <1>1, <1>2, <1>3 DEF Search!AloneOrSpoilt
<1>7. x2' \in {0, x3}
  BY <1>1, <1>2 DEF Search!SearchTypeOK
<1> QED BY <1>2, <1>4, <1>5, <1>6, <1>7, CallsKeepSearch

LEMMA AnswerKeepsSearch ==
  ASSUME Search!SearchInv, NEW f \in Finder, NEW arrives \in BOOLEAN, Search!Answer(f, arrives)
  PROVE  Search!SearchInv'
<1>1. Search!SearchTypeOK /\ Search!AloneOrSpoilt /\ \A m \in DOMAIN x10 \ x16 : Search!ExactlyFound(m)
  BY DEF Search!SearchInv
<1>2. PICK n \in DOMAIN x10 :
        /\ n = x12[f].session /\ x12[f].at = "built" /\ x12' = [x12 EXCEPT ![f] = Search!Idle]
        /\ x15' = IF arrives THEN [x15 EXCEPT ![n] = @ \cup Search!Matched(x10[n])] ELSE x15
        /\ x16' = IF ~arrives /\ (x10[n].full \/ x10[n].complete) THEN x16 \cup {n} ELSE x16
        /\ UNCHANGED <<x1, x2, x3, x7, x8, x9, x10, x11>>
  BY <1>1 DEF Search!Answer, Search!SearchTypeOK, Search!docVars, Search!cacheVars
<1>3. x10[n] \in Search!SearchRecord /\ n \in DOMAIN x15 /\ DOMAIN x15 = DOMAIN x10
  BY <1>1 DEF Search!SearchTypeOK
<1>4. Search!Matched(x10[n]) \in SUBSET (Nat \X Nat)
  BY <1>3, MatchedPairs
<1>5. /\ x15' \in Seq(SUBSET (Nat \X Nat)) /\ Len(x15') = Len(x15)
      /\ x15'[n] = IF arrives THEN x15[n] \cup Search!Matched(x10[n]) ELSE x15[n]
      /\ \A m \in DOMAIN x10 \ {n} : x15'[m] = x15[m]
  <2>1. CASE arrives
    <3>1. x15[n] \cup Search!Matched(x10[n]) \in SUBSET (Nat \X Nat)
      BY <1>1, <1>3, <1>4 DEF Search!SearchTypeOK
    <3>2. x15' = [x15 EXCEPT ![n] = x15[n] \cup Search!Matched(x10[n])]
      BY <1>2, <2>1
    <3> QED BY <1>1, <1>3, <2>1, <3>1, <3>2, Replaced DEF Search!SearchTypeOK
  <2>2. CASE ~arrives
    BY <1>1, <1>2, <2>2 DEF Search!SearchTypeOK
  <2> QED BY <2>1, <2>2
<1>6. \A g \in Finder \ {f} : x12'[g] = x12[g]
  BY <1>1, <1>2 DEF Search!SearchTypeOK
<1>7. x12'[f] = Search!Idle /\ Search!Idle.at = "idle" /\ Search!Idle \in [at : {"idle", "scanning", "built"}, session : Nat]
  BY <1>1, <1>2 DEF Search!SearchTypeOK, Search!Idle
<1>8. Search!SearchTypeOK'
  BY <1>1, <1>2, <1>5, <1>6, <1>7 DEF Search!SearchTypeOK
<1>9. Search!AloneOrSpoilt'
  BY <1>1, <1>2, <1>6, <1>7 DEF Search!AloneOrSpoilt
<1>10. ASSUME NEW m \in DOMAIN x10 \ x16'
       PROVE  Search!ExactlyFound(m)' \/ (x15'[m] = x15[m] /\ (Search!Running(m)' = {} => Search!Running(m) = {}))
  <2>1. CASE m # n
    <3>1. Search!Running(m) \subseteq Search!Running(m)'
      BY <1>2, <1>6, <2>1 DEF Search!Running
    <3> QED BY <1>5, <2>1, <3>1
  <2>2. CASE m = n
    <3>1. m \notin x16 /\ Search!ExactlyFound(m) /\ (~arrives => ~x10[m].full /\ ~x10[m].complete)
      BY <1>1, <1>2, <2>2
    <3>2. PICK s \in Search!SearchRecord : s = x10[m] /\ s = x10'[m]
      BY <1>2, <1>3, <2>2
    <3>3. /\ ~s.complete => x11 = m /\ (s.document # 0 => x2 # 0)
          /\ \E c \in 0..x3 : Search!Exact(s, x15[m], c) /\ (~s.complete => c = x3)
      BY <3>1, <3>2 DEF Search!ExactlyFound
    <3>4. x15'[m] \cup Search!Matched(s) = x15[m] \cup Search!Matched(s)
      BY <1>5, <2>2, <3>2
    <3>5. s.full \/ s.complete => Search!Matched(s) \subseteq x15'[m]
      BY <1>5, <2>2, <3>1, <3>2
    <3>6. /\ ~s.complete => x11' = m /\ (s.document # 0 => x2' # 0)
          /\ \E c \in 0..x3' : Search!Exact(s, x15'[m], c) /\ (~s.complete => c = x3')
      BY <1>2, <3>3, <3>4 DEF Search!Exact
    <3> QED BY <3>2, <3>5, <3>6 DEF Search!ExactlyFound
  <2> QED BY <2>1, <2>2
<1>11. x2' \in {0, x3}
  BY <1>1, <1>2 DEF Search!SearchTypeOK
<1> QED BY <1>2, <1>8, <1>9, <1>10, <1>11, CallsKeepSearch

\* A search cut short is none that anyone relies on.
LEMMA CutKeepsSearch ==
  ASSUME Search!SearchInv, Search!SearchTypeOK', Search!AloneOrSpoilt', NEW n \in 0..Len(x10), x11' \in {0, x11},
         n = 0 \/ n \in x16',
         x16' = x16 \/ x16' = x16 \cup {n}, DOMAIN x10' = DOMAIN x10,
         \A m \in DOMAIN x10 : x10'[m].matches = x10[m].matches,
         \A m \in DOMAIN x10 \ {n} : x10'[m] = x10[m],
         x15' = x15, \A m : m # n => Search!Running(m)' = Search!Running(m), x3 <= x3',
         \/ x11' = 0 /\ n = x11 /\ x7' = x7 + 1 /\ x8' = <<>>
         \/ x11' = (IF x11 = n THEN 0 ELSE x11) /\ UNCHANGED <<x3, x2, x7, x9, x8>>
  PROVE  Search!SearchInv'
<1>1. Search!SearchTypeOK /\ Search!IdsIssued /\ Search!FoundOnce /\ Search!NoResumeOverReset /\ Search!IdsNeverRebound
      /\ \A m \in DOMAIN x10 \ x16 : Search!ExactlyFound(m)
  BY DEF Search!SearchInv
<1>2. Search!IdsIssued' /\ Search!IdsNeverRebound'
  <2>1. CASE x7' = x7 + 1 /\ x8' = <<>>
    <3>1. \A m \in DOMAIN x10 : \A k \in DOMAIN x10[m].matches :
            x10[m].matches[k].id[1] < x7 \/ x10[m].matches[k].id[1] = x7
      BY <1>1 DEF Search!IdsIssued, Search!Issued
    <3>2. \A m \in DOMAIN x10 : \A k \in DOMAIN x10[m].matches : x10[m].matches[k].id[1] \in Nat
      <4> SUFFICES ASSUME NEW m \in DOMAIN x10, NEW k \in DOMAIN x10[m].matches
                   PROVE  x10[m].matches[k].id[1] \in Nat
        OBVIOUS
      <4>1. x10[m] \in Search!SearchRecord
        BY <1>1 DEF Search!SearchTypeOK
      <4>2. x10[m].matches[k] \in Search!Entry
        BY <4>1 DEF Search!SearchRecord
      <4> QED BY <4>2 DEF Search!Entry
    <3>3. x7 \in Nat
      BY <1>1 DEF Search!SearchTypeOK
    <3>4. \A m \in DOMAIN x10 : \A k \in DOMAIN x10[m].matches : x10[m].matches[k].id[1] < x7'
      BY <2>1, <3>1, <3>2, <3>3
    <3> QED BY <2>1, <3>4 DEF Search!IdsIssued, Search!IdsNeverRebound, Search!Issued
  <2>2. CASE UNCHANGED <<x7, x9, x8>>
    BY <1>1, <2>2 DEF Search!IdsIssued, Search!IdsNeverRebound, Search!Issued
  <2> QED BY <2>1, <2>2
<1>3. Search!FoundOnce'
  BY <1>1 DEF Search!FoundOnce
<1>4. Search!NoResumeOverReset'
  <2>1. x11' # 0 => x11' = x11 /\ x3' = x3 /\ x11' \in DOMAIN x10
    BY <1>1 DEF Search!SearchTypeOK
  <2> QED BY <1>1, <2>1 DEF Search!NoResumeOverReset
<1>5. ASSUME NEW m \in DOMAIN x10 \ x16' PROVE Search!ExactlyFound(m)'
  <2>1. m # 0
    BY <1>1 DEF Search!SearchTypeOK
  <2>2. m # n /\ m \notin x16
    BY <1>5, <2>1
  <2>3. Search!ExactlyFound(m) /\ x3 \in Nat /\ x3' \in Nat
    BY <1>1, <2>2 DEF Search!SearchTypeOK
  <2>4. ~x10[m].complete => x11 = m
    BY <2>3 DEF Search!ExactlyFound
  <2> QED BY <1>1, <2>2, <2>3, <2>4, SameFound
<1> QED BY <1>2, <1>3, <1>4, <1>5 DEF Search!SearchInv

LEMMA ResetKeepsSearch ==
  ASSUME Search!SearchInv, Search!Reset, x1' \in 1..2, x3' \in Nat \ {0}, x3 <= x3',
         x2' \in {0, x3'}, UNCHANGED <<x12, x15>>
  PROVE  Search!SearchInv'
<1>1. Search!SearchTypeOK /\ Search!AloneOrSpoilt
  BY DEF Search!SearchInv
<1>2. /\ x8' = <<>> /\ x9' = 0 /\ x7' = x7 + 1 /\ x11' = 0
      /\ x10' = IF x11 = 0 THEN x10 ELSE [x10 EXCEPT ![x11] = Search!Discard(x10[x11])]
      /\ x16' = IF x11 = 0 THEN x16 ELSE x16 \cup {x11}
  BY DEF Search!Reset
<1>3. /\ x10' \in Seq(Search!SearchRecord) /\ DOMAIN x10' = DOMAIN x10 /\ Len(x10') = Len(x10)
      /\ \A m \in DOMAIN x10 : x10'[m].matches = x10[m].matches
      /\ \A m \in DOMAIN x10 \ {x11} : x10'[m] = x10[m]
  <2>1. CASE x11 = 0
    BY <1>1, <1>2, <2>1 DEF Search!SearchTypeOK
  <2>2. CASE x11 # 0
    <3>1. x11 \in DOMAIN x10 /\ x10 \in Seq(Search!SearchRecord) /\ x10[x11] \in Search!SearchRecord
      BY <1>1, <2>2 DEF Search!SearchTypeOK
    <3>2. Search!Discard(x10[x11]) \in Search!SearchRecord /\ Search!Discard(x10[x11]).matches = x10[x11].matches
      BY <3>1, Discarded
    <3> QED BY <1>2, <2>2, <3>1, <3>2, Replaced
  <2> QED BY <2>1, <2>2
<1>4. Search!SearchTypeOK'
  BY <1>1, <1>2, <1>3 DEF Search!SearchTypeOK
<1>5. Search!AloneOrSpoilt'
  BY <1>1, <1>2 DEF Search!AloneOrSpoilt
<1>6. \A m : Search!Running(m)' = Search!Running(m)
  BY DEF Search!Running
<1>7. x11 \in 0..Len(x10)
  BY <1>1 DEF Search!SearchTypeOK
<1> QED BY <1>2, <1>3, <1>4, <1>5, <1>6, <1>7, CutKeepsSearch

LEMMA DocumentKeepsSearch ==
  ASSUME Search!SearchInv, (\E o \in 1..2 : Search!OpenDocument(o)) \/ Search!ModelsArrive \/ Search!Execute
  PROVE  Search!SearchInv'
<1>1. Search!SearchTypeOK
  BY DEF Search!SearchInv
<1>2. ASSUME NEW o \in 1..2, Search!OpenDocument(o) PROVE Search!SearchInv'
  <2>1. /\ Search!Reset /\ x1' = o /\ x2' = 0 /\ x3' = x3 + 1 /\ UNCHANGED <<x12, x15>>
    BY <1>2 DEF Search!OpenDocument
  <2>2. x3' \in Nat \ {0} /\ x3 <= x3'
    BY <1>1, <2>1 DEF Search!SearchTypeOK
  <2> QED BY <2>1, <2>2, ResetKeepsSearch
<1>3. CASE Search!Execute /\ Search!Changed
  <2>1. Search!Reset /\ UNCHANGED <<x1, x2, x3, x12, x15>>
    BY <1>3 DEF Search!Execute
  <2>2. x1' \in 1..2 /\ x3' \in Nat \ {0} /\ x3 <= x3' /\ x2' \in {0, x3'}
    BY <1>1, <2>1 DEF Search!SearchTypeOK
  <2> QED BY <2>1, <2>2, ResetKeepsSearch
<1>4. CASE Search!ModelsArrive \/ (Search!Execute /\ ~Search!Changed)
  BY <1>4, ArrivalKeepsSearch
<1> QED BY <1>2, <1>3, <1>4

LEMMA FailureKeepsSearch ==
  ASSUME Search!SearchInv, NEW f \in Finder, Search!SliceFails(f)
  PROVE  Search!SearchInv'
<1>1. Search!SearchTypeOK /\ Search!AloneOrSpoilt
  BY DEF Search!SearchInv
<1>2. PICK n \in DOMAIN x10 :
        /\ n = x12[f].session /\ x12' = [x12 EXCEPT ![f] = Search!Idle]
        /\ x10' = [x10 EXCEPT ![n] = Search!Discard(x10[n])]
        /\ x11' = (IF x11 = n THEN 0 ELSE x11) /\ x16' = x16 \cup {n}
        /\ UNCHANGED <<x1, x2, x3, x7, x8, x9, x15>>
  BY <1>1 DEF Search!SliceFails, Search!Goes, Search!SearchTypeOK, Search!docVars, Search!cacheVars
<1>3. x10 \in Seq(Search!SearchRecord) /\ x10[n] \in Search!SearchRecord /\ n \in 0..Len(x10) /\ x3 <= x3'
  BY <1>1, <1>2 DEF Search!SearchTypeOK
<1>4. Search!Discard(x10[n]) \in Search!SearchRecord /\ Search!Discard(x10[n]).matches = x10[n].matches
  BY <1>3, Discarded
<1>5. /\ x10' \in Seq(Search!SearchRecord) /\ DOMAIN x10' = DOMAIN x10 /\ Len(x10') = Len(x10)
      /\ \A m \in DOMAIN x10 \ {n} : x10'[m] = x10[m]
      /\ x10'[n].matches = x10[n].matches
  BY <1>2, <1>3, <1>4, Replaced
<1>6. /\ \A g \in Finder \ {f} : x12'[g] = x12[g]
      /\ x12'[f] = Search!Idle /\ Search!Idle.at = "idle" /\ Search!Idle \in [at : {"idle", "scanning", "built"}, session : Nat]
  BY <1>1, <1>2 DEF Search!SearchTypeOK, Search!Idle
<1>7. Search!SearchTypeOK'
  <2>1. x12' \in [Finder -> [at : {"idle", "scanning", "built"}, session : Nat]]
    BY <1>1, <1>2, <1>6 DEF Search!SearchTypeOK
  <2>2. \A g \in Finder : x12'[g].at # "idle" => x12'[g].session \in DOMAIN x10'
    BY <1>1, <1>5, <1>6 DEF Search!SearchTypeOK
  <2> QED BY <1>1, <1>2, <1>5, <2>1, <2>2 DEF Search!SearchTypeOK
<1>8. Search!AloneOrSpoilt'
  BY <1>1, <1>2, <1>6 DEF Search!AloneOrSpoilt
<1>9. \A m : m # n => Search!Running(m)' = Search!Running(m)
  BY <1>2, <1>6 DEF Search!Running
<1> QED BY <1>2, <1>3, <1>5, <1>7, <1>8, <1>9, CutKeepsSearch

LEMMA FindKeepsSearch ==
  ASSUME Search!SearchInv, NEW f \in Finder, Search!Find(f)
  PROVE  Search!SearchInv'
<1>1. Search!SearchTypeOK /\ Search!AloneOrSpoilt /\ Search!IdsIssued /\ Search!FoundOnce /\ Search!NoResumeOverReset /\ Search!IdsNeverRebound
      /\ \A m \in DOMAIN x10 \ x16 : Search!ExactlyFound(m)
  BY DEF Search!SearchInv
<1>2. PICK n \in Nat :
        /\ n = (IF x11 # 0 THEN x11 ELSE Len(x10) + 1)
        /\ x12[f].at = "idle" /\ x12' = [x12 EXCEPT ![f] = [at |-> "scanning", session |-> n]]
        /\ x11' = n
        /\ x11 = 0 => x10' = Append(x10, Search!NewSession) /\ x15' = Append(x15, {})
        /\ x11 # 0 => x10' = IF x10[n].full
                                     THEN [x10 EXCEPT ![n].matches = <<>>, ![n].full = FALSE] ELSE x10
        /\ x11 # 0 => x15' = x15
        /\ x16' = (IF Search!Running(n) # {} THEN x16 \cup {n} ELSE x16)
        /\ UNCHANGED <<x1, x2, x3, x7, x8, x9>>
  <2> DEFINE next == IF x11 # 0 THEN x11 ELSE Len(x10) + 1
  <2>1. next \in Nat
    BY <1>1 DEF Search!SearchTypeOK
  <2>2. /\ x12[f].at = "idle" /\ x12' = [x12 EXCEPT ![f] = [at |-> "scanning", session |-> next]]
        /\ x11' = next
    BY DEF Search!Find, Search!Resumable
  <2>3. x11 = 0 => x10' = Append(x10, Search!NewSession) /\ x15' = Append(x15, {})
    BY DEF Search!Find, Search!Resumable
  <2>4. /\ x11 # 0 => x10' = IF x10[next].full
                                     THEN [x10 EXCEPT ![next].matches = <<>>, ![next].full = FALSE] ELSE x10
        /\ x11 # 0 => x15' = x15
    <3>1. ASSUME x11 # 0
          PROVE  /\ x10' = IF x10[x11].full
                                THEN [x10 EXCEPT ![x11].matches = <<>>, ![x11].full = FALSE] ELSE x10
                 /\ x15' = x15 /\ next = x11
      BY <3>1 DEF Search!Find, Search!Resumable, Search!Restarts
    <3> QED BY <3>1
  <2>5. /\ x16' = (IF Search!Running(next) # {} THEN x16 \cup {next} ELSE x16)
        /\ UNCHANGED <<x1, x2, x3, x7, x8, x9>>
    BY DEF Search!Find, Search!Resumable, Search!docVars, Search!cacheVars
  <2> HIDE DEF next
  <2>6. next = (IF x11 # 0 THEN x11 ELSE Len(x10) + 1)
    BY DEF next
  <2> QED BY <2>1, <2>2, <2>3, <2>4, <2>5, <2>6
<1>3. /\ \A g \in Finder \ {f} : x12'[g] = x12[g]
      /\ x12'[f].at = "scanning" /\ x12'[f].session = n
  BY <1>1, <1>2 DEF Search!SearchTypeOK
<1>4. x12' \in [Finder -> [at : {"idle", "scanning", "built"}, session : Nat]]
  BY <1>1, <1>2 DEF Search!SearchTypeOK
<1>5. (\A m : m # n => Search!Running(m)' = Search!Running(m)) /\ f \in Search!Running(n)'
  BY <1>2, <1>3 DEF Search!Running
<1>6. Search!AloneOrSpoilt'
  <2>1. ASSUME NEW g \in Finder \ {f}, x12[g].at # "idle", x12[g].session = n PROVE n \in x16'
    <3>1. g \in Search!Running(n)
      BY <1>1, <2>1 DEF Search!Running, Search!SearchTypeOK
    <3> QED BY <1>2, <3>1
  <2> QED BY <1>1, <1>2, <1>3, <2>1 DEF Search!AloneOrSpoilt
<1>7. /\ x10 \in Seq(Search!SearchRecord) /\ DOMAIN x10 = 1..Len(x10) /\ Len(x10) \in Nat
      /\ x15 \in Seq(SUBSET (Nat \X Nat)) /\ Len(x15) = Len(x10) /\ DOMAIN x15 = DOMAIN x10
      /\ x3' \in Nat /\ x3 <= x3'
  BY <1>1, <1>2 DEF Search!SearchTypeOK
\* The next call of a search that goes on.
<1>8. ASSUME x11 # 0 PROVE Search!SearchInv'
  <2>1. n \in DOMAIN x10 /\ n = x11 /\ n # 0
    <3>1. n = x11 /\ x11 \in 0..Len(x10)
      BY <1>1, <1>2, <1>8 DEF Search!SearchTypeOK
    <3> QED BY <1>7, <1>8, <3>1
  <2>2. PICK s \in Search!SearchRecord : s = x10[n]
    BY <1>7, <2>1
  <2>3. PICK new \in Search!SearchRecord :
          /\ new = (IF s.full THEN [s EXCEPT !.matches = <<>>, !.full = FALSE] ELSE s)
          /\ new.matches = (IF s.full THEN <<>> ELSE s.matches)
          /\ ~new.full /\ new.complete = s.complete /\ new.phase = s.phase /\ new.place = s.place
          /\ new.document = s.document
    <3>1. CASE s.full
      <4> DEFINE cleared == [s EXCEPT !.matches = <<>>, !.full = FALSE]
      <4>1. /\ cleared \in Search!SearchRecord /\ cleared.matches = <<>> /\ ~cleared.full /\ cleared.complete = s.complete
            /\ cleared.phase = s.phase /\ cleared.place = s.place /\ cleared.document = s.document
        BY Cleared
      <4>2. cleared = IF s.full THEN [s EXCEPT !.matches = <<>>, !.full = FALSE] ELSE s
        BY <3>1
      <4> HIDE DEF cleared
      <4> QED BY <3>1, <4>1, <4>2
    <3>2. CASE ~s.full
      BY <2>2, <3>2
    <3> QED BY <3>1, <3>2
  <2>4. x10' = [x10 EXCEPT ![n] = new]
    <3>1. CASE s.full
      BY <1>2, <1>7, <1>8, <2>1, <2>2, <2>3, <3>1
    <3>2. CASE ~s.full
      <4>1. x10' = x10
        BY <1>2, <1>8, <2>2, <3>2
      <4>2. new = x10[n]
        BY <2>2, <2>3, <3>2
      <4> QED BY <1>7, <2>1, <4>1, <4>2
    <3> QED BY <3>1, <3>2
  <2>5. /\ x10' \in Seq(Search!SearchRecord) /\ DOMAIN x10' = DOMAIN x10 /\ Len(x10') = Len(x10)
        /\ x10'[n] = new /\ \A m \in DOMAIN x10 \ {n} : x10'[m] = x10[m]
    BY <1>7, <2>1, <2>4, Replaced
  <2>6. Search!SearchTypeOK'
    <3>1. \A g \in Finder : x12'[g].at # "idle" => x12'[g].session \in DOMAIN x10'
      BY <1>1, <1>3, <2>1, <2>5 DEF Search!SearchTypeOK
    <3>2. x15' = x15 /\ x11' = n
          /\ UNCHANGED <<x1, x2, x3, x7, x8, x9>>
      BY <1>2, <1>8
    <3>3. n \in 0..Len(x10')
      BY <1>7, <2>1, <2>5
    <3> QED BY <1>1, <1>4, <1>7, <2>5, <3>1, <3>2, <3>3 DEF Search!SearchTypeOK
  <2>7. \A m \in DOMAIN x10' : \A k \in DOMAIN x10'[m].matches :
          k \in DOMAIN x10[m].matches /\ x10'[m].matches[k] = x10[m].matches[k]
    <3>1. DOMAIN <<>> = {}
      OBVIOUS
    <3>2. new.matches = <<>> \/ new.matches = s.matches
      BY <2>3
    <3> QED BY <2>2, <2>5, <3>1, <3>2
  <2>8. Search!IdsIssued' /\ Search!IdsNeverRebound' /\ Search!FoundOnce' /\ Search!NoResumeOverReset'
    <3>1. DOMAIN x10' = DOMAIN x10 /\ x11' = x11 /\ x11 \in DOMAIN x10'
          /\ DOMAIN x10' \ x16' \subseteq DOMAIN x10 \ x16
      BY <1>2, <2>1, <2>5
    <3>2. Search!IdsIssued'
      BY <1>1, <1>2, <2>7, <3>1 DEF Search!IdsIssued, Search!Issued
    <3>3. Search!IdsNeverRebound'
      BY <1>1, <1>2, <2>7, <3>1 DEF Search!IdsNeverRebound
    <3>4. Search!FoundOnce'
      BY <1>1, <2>7, <3>1 DEF Search!FoundOnce
    <3>5. Search!NoResumeOverReset'
      BY <1>1, <1>2, <2>7, <3>1 DEF Search!NoResumeOverReset
    <3> QED BY <3>2, <3>3, <3>4, <3>5
  <2>9. ASSUME NEW m \in DOMAIN x10' \ x16' PROVE Search!ExactlyFound(m)'
    <3>1. CASE m # n
      <4>1. Search!ExactlyFound(m)
        BY <1>1, <1>2, <2>5
      <4>2. x10[m].complete
        BY <2>1, <3>1, <4>1 DEF Search!ExactlyFound
      <4>3. m \in DOMAIN x10 /\ x10'[m] = x10[m] /\ x15'[m] = x15[m]
        BY <1>2, <1>8, <2>5, <3>1
      <4>4. Search!Running(m)' = {} => Search!Running(m) = {}
        BY <1>5, <3>1
      <4> HIDE DEF Search!Running
      <4> QED BY <1>1, <1>7, <4>1, <4>2, <4>3, <4>4, SameFound
    <3>2. CASE m = n
      <4>1. Search!Running(n) = {} /\ n \notin x16 /\ Search!ExactlyFound(n)
        BY <1>1, <1>2, <2>1, <3>2
      <4>2. /\ ~s.complete => x11 = n /\ (s.document # 0 => x2 # 0)
            /\ \E c \in 0..x3 : Search!Exact(s, x15[n], c) /\ (~s.complete => c = x3)
            /\ s.full => Search!Matched(s) \subseteq x15[n]
        BY <2>2, <4>1 DEF Search!ExactlyFound
      <4>3. x15[n] \cup Search!Matched(new) = x15[n] \cup Search!Matched(s) /\ Search!Found(new) = Search!Found(s)
        <5>1. Search!Found(new) = Search!Found(s)
          BY <2>3 DEF Search!Found
        <5>2. CASE s.full
          BY <2>3, <4>2, <5>1, <5>2 DEF Search!Matched
        <5>3. CASE ~s.full
          BY <2>3, <5>1, <5>3
        <5> QED BY <5>2, <5>3
      <4>4. /\ ~new.complete => x11' = n /\ (new.document # 0 => x2' # 0)
            /\ \E c \in 0..x3' : Search!Exact(new, x15'[n], c) /\ (~new.complete => c = x3')
        <5>1. x11' = n /\ x2' = x2 /\ x3' = x3 /\ x15' = x15
          BY <1>2, <1>8
        <5>2. PICK c \in 0..x3 : Search!Exact(s, x15[n], c) /\ (~s.complete => c = x3)
          BY <4>2
        <5>3. Search!Exact(new, x15[n], c)
          BY <4>3, <5>2 DEF Search!Exact
        <5>4. ~new.complete => c = x3
          BY <2>3, <5>2
        <5>5. \E x \in 0..x3' : Search!Exact(new, x15'[n], x) /\ (~new.complete => x = x3')
          BY <5>1, <5>2, <5>3, <5>4
        <5>6. ~new.complete => x11' = n /\ (new.document # 0 => x2' # 0)
          BY <2>3, <4>2, <5>1
        <5> QED BY <5>5, <5>6
      <4>5. Search!Running(n)' # {}
        BY <1>5
      <4>6. x10'[n] = new
        BY <2>5
      <4> HIDE DEF Search!Running
      <4>7. /\ ~x10'[n].complete => x11' = n /\ (x10'[n].document # 0 => x2' # 0)
            /\ \E c \in 0..x3' : Search!Exact(x10'[n], x15'[n], c) /\ (~x10'[n].complete => c = x3')
        BY <4>4, <4>6
      <4> QED BY <3>2, <4>5, <4>7 DEF Search!ExactlyFound
    <3> QED BY <3>1, <3>2
  <2> QED BY <1>6, <2>6, <2>8, <2>9 DEF Search!SearchInv
\* The first call of a search.
<1>9. ASSUME x11 = 0 PROVE Search!SearchInv'
  <2>1. n = Len(x10) + 1 /\ n \notin DOMAIN x10
    BY <1>2, <1>7, <1>9
  <2>2. /\ Search!NewSession \in Search!SearchRecord /\ Search!NewSession.matches = <<>> /\ ~Search!NewSession.complete /\ Search!NewSession.document = 0
        /\ Search!NewSession.phase = 1 /\ Search!NewSession.place = 0
    BY SearchNumbers DEF Search!NewSession, Search!SearchRecord
  <2>3. /\ x10' \in Seq(Search!SearchRecord) /\ DOMAIN x10' = 1..n /\ Len(x10') = n /\ x10'[n] = Search!NewSession
        /\ \A m \in DOMAIN x10 : x10'[m] = x10[m] /\ m # n
    BY <1>2, <1>7, <1>9, <2>1, <2>2, Appended
  <2>4. /\ x15' \in Seq(SUBSET (Nat \X Nat)) /\ Len(x15') = n /\ x15'[n] = {}
        /\ \A m \in DOMAIN x10 : x15'[m] = x15[m]
    <3>1. {} \in SUBSET (Nat \X Nat)
      OBVIOUS
    <3>2. x15' = Append(x15, {})
      BY <1>2, <1>9
    <3> QED BY <1>7, <2>1, <3>1, <3>2, Appended
  <2>5. n \in DOMAIN x10' /\ DOMAIN x10 \subseteq DOMAIN x10' /\ DOMAIN x10' = DOMAIN x10 \cup {n}
    BY <1>7, <2>1, <2>3
  <2>6. Search!SearchTypeOK'
    <3>1. \A g \in Finder : x12'[g].at # "idle" => x12'[g].session \in DOMAIN x10'
      BY <1>1, <1>3, <2>5 DEF Search!SearchTypeOK
    <3> QED BY <1>1, <1>2, <1>4, <1>7, <2>1, <2>3, <2>4, <2>5, <3>1 DEF Search!SearchTypeOK
  <2>7. \A m \in DOMAIN x10' : \A k \in DOMAIN x10'[m].matches :
          m \in DOMAIN x10 /\ x10'[m] = x10[m]
    <3>1. DOMAIN <<>> = {}
      OBVIOUS
    <3> QED BY <2>2, <2>3, <2>5, <3>1
  <2>8. Search!IdsIssued' /\ Search!IdsNeverRebound' /\ Search!FoundOnce' /\ Search!NoResumeOverReset'
    <3>1. x16 \subseteq x16' /\ x11' = n
      BY <1>2
    <3>2. Search!IdsIssued'
      BY <1>1, <1>2, <2>7 DEF Search!IdsIssued, Search!Issued
    <3>3. Search!IdsNeverRebound'
      BY <1>1, <1>2, <2>7 DEF Search!IdsNeverRebound
    <3>4. Search!FoundOnce'
      BY <1>1, <2>7, <3>1 DEF Search!FoundOnce
    <3>5. Search!NoResumeOverReset'
      BY <2>2, <2>3, <3>1 DEF Search!NoResumeOverReset
    <3> QED BY <3>2, <3>3, <3>4, <3>5
  <2>9. ASSUME NEW m \in DOMAIN x10' \ x16' PROVE Search!ExactlyFound(m)'
    <3>1. CASE m # n
      <4>1. m \in DOMAIN x10 /\ Search!ExactlyFound(m) /\ m # 0
        BY <1>1, <1>2, <1>7, <2>5, <3>1
      <4>2. x10[m].complete
        BY <1>9, <4>1 DEF Search!ExactlyFound
      <4> QED BY <1>1, <1>5, <1>7, <2>3, <2>4, <3>1, <4>1, <4>2, SameFound
    <3>2. CASE m = n
      <4>1. Search!Matched(Search!NewSession) = {} /\ Search!Found(Search!NewSession) = {}
        BY <2>2 DEF Search!Matched, Search!Found
      <4>2. Search!Exact(Search!NewSession, x15'[n], x3') /\ x3' \in 0..x3'
        BY <1>7, <2>4, <4>1 DEF Search!Exact
      <4>3. \E c \in 0..x3' : Search!Exact(Search!NewSession, x15'[n], c) /\ (~Search!NewSession.complete => c = x3')
        BY <4>2
      <4>4. Search!Running(n)' # {} /\ x11' = n /\ x10'[n] = Search!NewSession
        BY <1>2, <1>5, <2>3
      <4>5. x11' = n /\ x10'[n].document = 0
        BY <2>2, <4>4
      <4> HIDE DEF Search!Running
      <4>6. \E c \in 0..x3' : Search!Exact(x10'[n], x15'[n], c) /\ (~x10'[n].complete => c = x3')
        BY <4>3, <4>4
      <4> QED BY <3>2, <4>4, <4>5, <4>6 DEF Search!ExactlyFound
    <3> QED BY <3>1, <3>2
  <2> QED BY <1>6, <2>6, <2>8, <2>9 DEF Search!SearchInv
<1> QED BY <1>8, <1>9

\* A new entry has an identifier no other has.
LEMMA Registered ==
  ASSUME Search!SearchTypeOK, Search!IdsIssued, NEW item \in Nat \X Nat, Search!Register(item)
  PROVE  \E e \in Search!Entry :
           /\ e.item = item /\ x8'[Len(x8')] = e /\ x8' \in Seq(Search!Entry)
           /\ e.id[1] = x7 /\ e.id[2] = x9 + 1
           /\ \A c \in DOMAIN x8' : x8'[c] = e \/ \E d \in DOMAIN x8 : x8'[c] = x8[d]
           /\ x9' = x9 + 1
<1> DEFINE kept == IF Len(x8) >= Cached THEN Tail(x8) ELSE x8
           id == <<x7, x9 + 1>>
           e == [id |-> id, item |-> item]
<1>1. x8 \in Seq(Search!Entry) /\ x7 \in Nat /\ x9 \in Nat /\ Cached \in Nat \ {0}
  BY SearchNumbers DEF Search!SearchTypeOK
<1>2. e \in Search!Entry /\ e.item = item /\ e.id = id /\ id[1] = x7 /\ id[2] = x9 + 1
  BY <1>1 DEF Search!Entry
<1>3. kept \in Seq(Search!Entry) /\ \A c \in DOMAIN kept : \E d \in DOMAIN x8 : kept[c] = x8[d]
  <2>1. CASE Len(x8) >= Cached
    <3>1. x8 # <<>>
      BY <1>1, <2>1
    <3> QED BY <1>1, <2>1, <3>1, Removed
  <2>2. CASE ~(Len(x8) >= Cached)
    BY <1>1, <2>2
  <2> QED BY <2>1, <2>2
<1>4. x8' = Append(kept, e) /\ x9' = x9 + 1
  BY DEF Search!Register
<1> HIDE DEF kept, e, id
<1>5. /\ x8' \in Seq(Search!Entry) /\ Len(x8') = Len(kept) + 1 /\ x8'[Len(kept) + 1] = e /\ Len(kept) \in Nat
      /\ DOMAIN kept = 1..Len(kept) /\ DOMAIN x8' = 1..(Len(kept) + 1) /\ \A m \in DOMAIN kept : x8'[m] = kept[m]
  BY <1>2, <1>3, <1>4, Appended
<1>6. \A c \in DOMAIN x8' : c = Len(kept) + 1 \/ c \in DOMAIN kept
  BY <1>5
<1> QED BY <1>2, <1>3, <1>4, <1>5, <1>6

LEMMA IdsKept ==
  ASSUME Search!SearchTypeOK, Search!IdsIssued, Search!IdsNeverRebound, x7' = x7, x9' = x9 + 1,
         NEW e \in Search!Entry, e.id[1] = x7, e.id[2] = x9 + 1,
         \A c \in DOMAIN x8' : x8'[c] = e \/ \E d \in DOMAIN x8 : x8'[c] = x8[d],
         DOMAIN x10' = DOMAIN x10,
         \A m \in DOMAIN x10 : \A k \in DOMAIN x10'[m].matches :
           \/ x10'[m].matches[k] = e
           \/ \E j \in DOMAIN x10[m].matches : x10'[m].matches[k] = x10[m].matches[j]
  PROVE  Search!IdsIssued' /\ Search!IdsNeverRebound'
<1>1. x7 \in Nat /\ x9 \in Nat /\ x8 \in Seq(Search!Entry) /\ x10 \in Seq(Search!SearchRecord)
  BY DEF Search!SearchTypeOK
<1> DEFINE IssuedThen(id) == id[1] < x7' \/ (id[1] = x7' /\ id[2] <= x9')
<1>2. ASSUME NEW x \in Search!Entry, Search!Issued(x.id) PROVE IssuedThen(x.id) /\ x.id # e.id
  <2>1. x.id[1] \in Nat /\ x.id[2] \in Nat
    BY DEF Search!Entry
  <2>2. x.id[1] # x7 \/ x.id[2] # x9 + 1
    BY <1>1, <1>2, <2>1 DEF Search!Issued
  <2>3. x.id[1] < x7' \/ (x.id[1] = x7' /\ x.id[2] <= x9')
    BY <1>1, <1>2, <2>1 DEF Search!Issued
  <2> QED BY <2>2, <2>3
<1>3. IssuedThen(e.id)
  BY <1>1
<1>4. \A m \in DOMAIN x10 : \A j \in DOMAIN x10[m].matches :
        x10[m].matches[j] \in Search!Entry /\ Search!Issued(x10[m].matches[j].id)
  <2> SUFFICES ASSUME NEW m \in DOMAIN x10, NEW j \in DOMAIN x10[m].matches
               PROVE  x10[m].matches[j] \in Search!Entry /\ Search!Issued(x10[m].matches[j].id)
    OBVIOUS
  <2>1. x10[m] \in Search!SearchRecord
    BY <1>1
  <2> QED BY <2>1 DEF Search!SearchRecord, Search!IdsIssued
<1>5. \A d \in DOMAIN x8 : x8[d] \in Search!Entry /\ Search!Issued(x8[d].id)
  BY <1>1 DEF Search!IdsIssued
<1>6. Search!IdsIssued'
  <2> HIDE DEF IssuedThen
  <2>1. \A c \in DOMAIN x8' : IssuedThen(x8'[c].id)
    BY <1>2, <1>3, <1>5
  <2>2. \A m \in DOMAIN x10' : \A k \in DOMAIN x10'[m].matches : IssuedThen(x10'[m].matches[k].id)
    BY <1>2, <1>3, <1>4
  <2> QED BY <2>1, <2>2 DEF Search!IdsIssued, Search!Issued, IssuedThen
<1>7. Search!IdsNeverRebound'
  <2> SUFFICES ASSUME NEW m \in DOMAIN x10', NEW k \in DOMAIN x10'[m].matches, NEW c \in DOMAIN x8',
                      x10'[m].matches[k].id = x8'[c].id
               PROVE  x10'[m].matches[k].item = x8'[c].item
    BY DEF Search!IdsNeverRebound
  <2>1. CASE x10'[m].matches[k] = e
    BY <1>2, <1>5, <2>1
  <2>2. CASE x10'[m].matches[k] # e
    <3>1. PICK j \in DOMAIN x10[m].matches : x10'[m].matches[k] = x10[m].matches[j]
      BY <2>2
    <3>2. x10[m].matches[j].id # e.id
      BY <1>2, <1>4
    <3>3. PICK d \in DOMAIN x8 : x8'[c] = x8[d]
      BY <3>1, <3>2
    <3> QED BY <3>1, <3>3 DEF Search!IdsNeverRebound
  <2> QED BY <2>1, <2>2
<1> QED BY <1>6, <1>7

\* What one slice does to the scan: n is the session, s its record and new the
\* next one, i the item it comes to.
LEMMA SliceChanges ==
  ASSUME Search!SearchInv, NEW f \in Finder, Search!Slice(f)
  PROVE  \E n \in DOMAIN x10 : \E new \in Search!SearchRecord :
           LET s == x10[n]
               i == s.place + 1
           IN /\ n = x12[f].session /\ x12[f].at = "scanning" /\ ~s.complete
              /\ IF s.document = 0 THEN x2 # 0 ELSE s.document = x1
              /\ x10' = [x10 EXCEPT ![n] = new] /\ new.document = x1
              /\ x16' \in {x16, x16 \cup {n}}
              /\ \/ /\ x2 = 0 \/ i > Items
                    /\ UNCHANGED <<x8, x9>> /\ new.matches = s.matches
                    /\ (new.complete <=> s.phase = 2) /\ new.place = 0 /\ new.phase = 2
                 \/ /\ x2 # 0 /\ i \in 1..Items /\ (new.complete => n \in x16') /\ new.phase = s.phase /\ new.place = i
                    /\ \/ ~Search!Hit(s, i) /\ UNCHANGED <<x8, x9>> /\ new.matches = s.matches
                       \/ /\ Search!Hit(s, i) /\ Search!Register(<<x2, i>>)
                          /\ new.matches = Append(s.matches, x8'[Len(x8')])
<1>1. Search!SearchTypeOK /\ Search!IdsIssued
  BY DEF Search!SearchInv
<1>2. PICK n \in DOMAIN x10 : n = x12[f].session
  BY <1>1 DEF Search!Slice, Search!Goes, Search!SearchTypeOK
<1>3. PICK s \in Search!SearchRecord : s = x10[n]
  BY <1>1 DEF Search!SearchTypeOK
<1>4. PICK i \in Nat \ {0} : i = s.place + 1
  BY <1>3 DEF Search!SearchRecord
<1>5. /\ x12[f].at = "scanning" /\ ~s.complete
      /\ IF s.document = 0 THEN x2 # 0 ELSE s.document = x1
  BY <1>2, <1>3 DEF Search!Slice, Search!Goes
<1>6. PICK here \in Search!SearchRecord : here = [s EXCEPT !.document = x1] /\ here.document = x1
        /\ here.matches = s.matches /\ here.complete = s.complete /\ here.phase = s.phase
        /\ here.scanned = s.scanned /\ here.place = s.place
  <2>1. x1 \in Nat
    BY <1>1 DEF Search!SearchTypeOK
  <2>2. [s EXCEPT !.document = x1] \in Search!SearchRecord
    BY <2>1 DEF Search!SearchRecord
  <2> QED BY <2>2 DEF Search!SearchRecord
<1>9. x16' \in {x16, x16 \cup {n}} /\ (x10'[n].scanned >= Fuse => n \in x16')
  BY <1>2 DEF Search!Slice
<1>7. CASE x2 = 0 \/ i > Items
  <2> DEFINE new == IF s.phase = 2 THEN [here EXCEPT !.complete = TRUE, !.place = 0]
                    ELSE [here EXCEPT !.phase = 2, !.place = 0]
  <2>1. /\ x10' = [x10 EXCEPT ![n] = new] /\ UNCHANGED <<x8, x9>>
    BY <1>2, <1>3, <1>4, <1>6, <1>7 DEF Search!Slice, Search!cacheVars
  <2>2. new \in Search!SearchRecord
    <3>1. 0 \in 0..Items
      BY SearchNumbers
    <3> QED BY <3>1 DEF Search!SearchRecord
  <2>3. new.document = x1 /\ new.matches = s.matches /\ new.place = 0 /\ new.phase = 2
    BY <1>6 DEF Search!SearchRecord
  <2>4. new.complete <=> s.phase = 2
    BY <1>5, <1>6 DEF Search!SearchRecord
  <2> HIDE DEF new
  <2> QED BY <1>2, <1>3, <1>4, <1>5, <1>7, <1>9, <2>1, <2>2, <2>3, <2>4
<1>8. CASE ~(x2 = 0 \/ i > Items)
  <2>1. PICK next \in Search!SearchRecord :
          /\ next = [here EXCEPT !.place = i, !.scanned = here.scanned + 1]
          /\ next.place = i /\ next.document = x1 /\ next.matches = s.matches /\ next.phase = s.phase /\ next.scanned = s.scanned + 1
    <3>1. i \in 0..Items
      BY <1>4, <1>8, SearchNumbers
    <3>2. here.scanned + 1 \in Nat
      BY <1>6 DEF Search!SearchRecord
    <3>3. [here EXCEPT !.place = i, !.scanned = here.scanned + 1] \in Search!SearchRecord
      BY <3>1, <3>2 DEF Search!SearchRecord
    <3> QED BY <1>6, <3>3 DEF Search!SearchRecord
  <2>2. i \in 1..Items /\ x2 # 0
    BY <1>4, <1>8, SearchNumbers
  <2>3. CASE ~Search!Hit(s, i)
    <3>1. PICK blown \in BOOLEAN :
            /\ blown => s.scanned + 1 >= Fuse
            /\ x10' = [x10 EXCEPT ![n] = [next EXCEPT !.complete = blown]] /\ UNCHANGED <<x8, x9>>
      BY <1>2, <1>3, <1>4, <1>6, <1>8, <2>1, <2>3 DEF Search!Slice, Search!cacheVars
    <3> DEFINE new == [next EXCEPT !.complete = blown]
    <3>2. new \in Search!SearchRecord
      BY <2>1 DEF Search!SearchRecord
    <3>3. new.matches = s.matches /\ (new.complete <=> blown) /\ new.phase = s.phase /\ new.place = i
          /\ new.document = x1 /\ new.scanned = s.scanned + 1
      BY <1>6, <2>1 DEF Search!SearchRecord
    <3>4. x10' = [x10 EXCEPT ![n] = new]
      BY <3>1
    <3> HIDE DEF new
    <3>5. x10'[n] = new
      BY <1>1, <3>2, <3>4, Replaced DEF Search!SearchTypeOK
    <3>6. new.complete => n \in x16'
      BY <1>9, <3>1, <3>3, <3>5
    <3>7. UNCHANGED <<x8, x9>>
      BY <3>1
    <3> QED BY <1>2, <1>3, <1>4, <1>5, <1>9, <2>2, <2>3, <3>2, <3>3, <3>4, <3>6, <3>7
  <2>4. CASE Search!Hit(s, i)
    <3> DEFINE e == x8'[Len(x8')]
               fills == Len(s.matches) + 1 >= Limit
    <3>1. PICK blown \in BOOLEAN :
            /\ blown => s.scanned + 1 >= Fuse
            /\ Search!Register(<<x2, i>>)
            /\ x10' = [x10 EXCEPT ![n] =
                 [next EXCEPT !.matches = Append(next.matches, e), !.full = fills, !.complete = blown]]
      BY <1>2, <1>3, <1>4, <1>6, <1>8, <2>1, <2>4 DEF Search!Slice
    <3> DEFINE new == [next EXCEPT !.matches = Append(next.matches, e), !.full = fills, !.complete = blown]
    <3>2. e \in Search!Entry
      <4>1. <<x2, i>> \in Nat \X Nat
        BY <1>1 DEF Search!SearchTypeOK
      <4>2. \E x \in Search!Entry : x8'[Len(x8')] = x
        BY <1>1, <3>1, <4>1, Registered
      <4> QED BY <4>2
    <3>3. x10' = [x10 EXCEPT ![n] = new]
      BY <3>1
    <3> HIDE DEF e
    <3>4. Append(s.matches, e) \in Seq(Search!Entry) /\ fills \in BOOLEAN
      BY <3>2 DEF Search!SearchRecord
    <3> HIDE DEF fills
    <3>5. new \in Search!SearchRecord
      BY <2>1, <3>4 DEF Search!SearchRecord
    <3>6. new.matches = Append(s.matches, e) /\ (new.complete <=> blown) /\ new.phase = s.phase /\ new.place = i
          /\ new.document = x1 /\ new.scanned = s.scanned + 1
      BY <1>6, <2>1 DEF Search!SearchRecord
    <3> HIDE DEF new
    <3>7. x10'[n] = new
      BY <1>1, <3>3, <3>5, Replaced DEF Search!SearchTypeOK
    <3>8. new.complete => n \in x16'
      BY <1>9, <3>1, <3>6, <3>7
    <3>9. Search!Register(<<x2, i>>)
      BY <3>1
    <3> QED BY <1>2, <1>3, <1>4, <1>5, <1>9, <2>2, <2>4, <3>3, <3>5, <3>6, <3>8, <3>9 DEF e
  <2> QED BY <2>3, <2>4
<1> QED BY <1>7, <1>8

LEMMA SliceKeepsSearch ==
  ASSUME Search!SearchInv, NEW f \in Finder, Search!Slice(f)
  PROVE  Search!SearchInv'
<1>1. Search!SearchTypeOK /\ Search!AloneOrSpoilt /\ Search!IdsIssued /\ Search!FoundOnce /\ Search!NoResumeOverReset /\ Search!IdsNeverRebound
      /\ \A m \in DOMAIN x10 \ x16 : Search!ExactlyFound(m)
  BY DEF Search!SearchInv
<1>2. UNCHANGED <<x1, x2, x3, x7, x11, x12, x15>>
  BY DEF Search!Slice
<1>3. PICK n \in DOMAIN x10 : \E new \in Search!SearchRecord :
        LET s == x10[n]
            i == s.place + 1
        IN /\ n = x12[f].session /\ x12[f].at = "scanning" /\ ~s.complete
           /\ IF s.document = 0 THEN x2 # 0 ELSE s.document = x1
           /\ x10' = [x10 EXCEPT ![n] = new] /\ new.document = x1
           /\ x16' \in {x16, x16 \cup {n}}
           /\ \/ /\ x2 = 0 \/ i > Items
                 /\ UNCHANGED <<x8, x9>> /\ new.matches = s.matches
                 /\ (new.complete <=> s.phase = 2) /\ new.place = 0 /\ new.phase = 2
              \/ /\ x2 # 0 /\ i \in 1..Items /\ (new.complete => n \in x16') /\ new.phase = s.phase /\ new.place = i
                 /\ \/ ~Search!Hit(s, i) /\ UNCHANGED <<x8, x9>> /\ new.matches = s.matches
                    \/ /\ Search!Hit(s, i) /\ Search!Register(<<x2, i>>)
                       /\ new.matches = Append(s.matches, x8'[Len(x8')])
  BY SliceChanges
<1>4. PICK s \in Search!SearchRecord : s = x10[n]
  BY <1>1 DEF Search!SearchTypeOK
<1>5. PICK i \in 1..(Items + 1) : i = s.place + 1
  BY <1>4, SearchNumbers DEF Search!SearchRecord
<1>6. PICK new \in Search!SearchRecord :
        /\ n = x12[f].session /\ x12[f].at = "scanning" /\ ~s.complete
        /\ IF s.document = 0 THEN x2 # 0 ELSE s.document = x1
        /\ x10' = [x10 EXCEPT ![n] = new] /\ new.document = x1
        /\ x16' \in {x16, x16 \cup {n}}
        /\ \/ /\ x2 = 0 \/ i > Items
              /\ UNCHANGED <<x8, x9>> /\ new.matches = s.matches
              /\ (new.complete <=> s.phase = 2) /\ new.place = 0 /\ new.phase = 2
           \/ /\ x2 # 0 /\ i \in 1..Items /\ (new.complete => n \in x16') /\ new.phase = s.phase /\ new.place = i
              /\ \/ ~Search!Hit(s, i) /\ UNCHANGED <<x8, x9>> /\ new.matches = s.matches
                 \/ /\ Search!Hit(s, i) /\ Search!Register(<<x2, i>>)
                    /\ new.matches = Append(s.matches, x8'[Len(x8')])
  BY <1>3, <1>4, <1>5
<1>7. /\ x10' \in Seq(Search!SearchRecord) /\ DOMAIN x10' = DOMAIN x10 /\ Len(x10') = Len(x10)
      /\ x10'[n] = new /\ \A m \in DOMAIN x10 \ {n} : x10'[m] = x10[m]
  BY <1>1, <1>6, Replaced DEF Search!SearchTypeOK
<1>8. f \in Search!Running(n)' /\ (\A m : Search!Running(m)' = Search!Running(m)) /\ x3' \in Nat /\ x3 <= x3'
  BY <1>1, <1>2, <1>6 DEF Search!Running, Search!SearchTypeOK
<1>9. Search!AloneOrSpoilt' /\ x16 \subseteq x16'
  BY <1>1, <1>2, <1>6 DEF Search!AloneOrSpoilt
\* An unspoilt scan is the one that goes on, in a document with models.
<1>10. ASSUME n \notin x16
       PROVE  /\ x11 = n /\ x2 # 0 /\ x2 = x3
              /\ Search!Exact(s, x15[n], x3)
  <2>1. Search!ExactlyFound(n)
    BY <1>1, <1>10
  <2>2. /\ x11 = n /\ (s.document # 0 => x2 # 0)
        /\ \E c \in 0..x3 : Search!Exact(s, x15[n], c) /\ (c = x3)
    BY <1>4, <1>6, <2>1 DEF Search!ExactlyFound
  <2> QED BY <1>1, <1>6, <2>2 DEF Search!SearchTypeOK
<1>11. ASSUME Search!ExactlyFound(n)' \/ n \in x16', NEW m \in DOMAIN x10' \ x16' PROVE Search!ExactlyFound(m)'
  <2>1. CASE m = n
    BY <1>11, <2>1
  <2>2. CASE m # n
    <3>1. Search!ExactlyFound(m) /\ m \in DOMAIN x10
      BY <1>1, <1>7, <1>9, <1>11
    <3>2. ~x10[m].complete => x11 = m
      BY <3>1 DEF Search!ExactlyFound
    <3> QED BY <1>1, <1>2, <1>7, <1>8, <2>2, <3>1, <3>2, SameFound
  <2> QED BY <2>1, <2>2
\* What the scan has found next, and of what content.
<1>12. ASSUME n \notin x16' => Search!Exact(new, x15[n], x3)
       PROVE  Search!ExactlyFound(n)' \/ n \in x16'
  <2>1. CASE n \in x16'
    BY <2>1
  <2>2. CASE n \notin x16'
    <3>1. \E c \in 0..x3 : Search!Exact(new, x15[n], c) /\ (~new.complete => c = x3)
      BY <1>2, <1>8, <1>12, <2>2
    <3>2. ~new.complete => x11' = n /\ (new.document # 0 => x2' # 0)
      BY <1>2, <1>9, <1>10, <2>2
    <3>3. \E c \in 0..x3' : Search!Exact(x10'[n], x15'[n], c) /\ (~x10'[n].complete => c = x3')
      BY <1>2, <1>7, <3>1
    <3>4. Search!Running(n)' # {} /\ x10'[n] = new
      BY <1>7, <1>8
    <3>5. ~x10'[n].complete => x11' = n /\ (x10'[n].document # 0 => x2' # 0)
      BY <3>2, <3>4
    <3> HIDE DEF Search!Running
    <3> QED BY <3>3, <3>4, <3>5 DEF Search!ExactlyFound
  <2> QED BY <2>1, <2>2
\* Nothing more found: a phase is over, or the item is none.
<1>13. ASSUME UNCHANGED <<x8, x9>>, new.matches = s.matches, n \notin x16' => Search!Found(new) = Search!Found(s)
       PROVE  Search!SearchInv'
  <2>1. Search!SearchTypeOK'
    BY <1>1, <1>2, <1>7, <1>13 DEF Search!SearchTypeOK
  <2>2. \A m \in DOMAIN x10 : x10'[m].matches = x10[m].matches
    BY <1>4, <1>7, <1>13
  <2>3. Search!IdsIssued' /\ Search!IdsNeverRebound'
    <3>1. UNCHANGED <<x8, x9, x7>> /\ DOMAIN x10' = DOMAIN x10
      BY <1>2, <1>7, <1>13
    <3>2. Search!IdsIssued'
      BY <1>1, <2>2, <3>1 DEF Search!IdsIssued, Search!Issued
    <3>3. Search!IdsNeverRebound'
      BY <1>1, <2>2, <3>1 DEF Search!IdsNeverRebound
    <3> QED BY <3>2, <3>3
  <2>4. Search!FoundOnce'
    BY <1>1, <1>7, <1>9, <2>2 DEF Search!FoundOnce
  <2>5. Search!NoResumeOverReset'
    <3>1. x11 # 0 => x11 \in DOMAIN x10
      BY <1>1 DEF Search!SearchTypeOK
    <3> QED BY <1>1, <1>2, <2>2, <3>1 DEF Search!NoResumeOverReset
  <2>6. n \notin x16' => Search!Exact(new, x15[n], x3)
    <3>1. Search!Matched(new) = Search!Matched(s)
      BY <1>13 DEF Search!Matched
    <3> QED BY <1>9, <1>10, <1>13, <3>1 DEF Search!Exact
  <2> QED BY <1>9, <1>11, <1>12, <2>1, <2>3, <2>4, <2>5, <2>6 DEF Search!SearchInv
<1>14. CASE (x2 = 0 \/ i > Items) /\ UNCHANGED <<x8, x9>> /\ new.matches = s.matches
            /\ (new.complete <=> s.phase = 2) /\ new.place = 0 /\ new.phase = 2
  <2>1. ASSUME n \notin x16' PROVE Search!Found(new) = Search!Found(s)
    <3>1. s.place = Items /\ Items \in Nat
      <4>1. i > Items
        BY <1>9, <1>10, <1>14, <2>1
      <4>2. s.place \in 0..Items
        BY <1>4 DEF Search!SearchRecord
      <4>3. Items \in Nat
        BY SearchNumbers
      <4>4. s.place \in Nat /\ s.place <= Items /\ i = s.place + 1
        BY <1>5, <4>2, <4>3
      <4> QED BY <4>1, <4>3, <4>4
    <3>2. Named \cap 1..s.place = Named /\ Valued \cap 1..s.place = Valued /\ Valued \cap 1..new.place = {}
      <4>1. 1..s.place = 1..Items
        BY <3>1
      <4>2. 1..new.place = {}
        BY <1>14
      <4>3. Named \subseteq 1..Items /\ Valued \subseteq 1..Items
        BY SearchNumbers
      <4> QED BY <4>1, <4>2, <4>3
    <3>3. s.phase = 1 \/ s.phase = 2
      BY <1>4 DEF Search!SearchRecord
    <3>4. CASE s.phase = 2
      BY <1>6, <1>14, <3>2, <3>4 DEF Search!Found
    <3>5. CASE s.phase = 1
      BY <1>6, <1>14, <3>2, <3>5 DEF Search!Found
    <3> QED BY <3>3, <3>4, <3>5
  <2> QED BY <1>13, <1>14, <2>1
<1>15. CASE x2 # 0 /\ i \in 1..Items /\ (new.complete => n \in x16') /\ new.phase = s.phase /\ new.place = i
  <2>1. s.place \in Nat /\ i = s.place + 1 /\ 1..i = (1..s.place) \cup {i} /\ i \notin 1..s.place
    <3>1. s.place \in Nat
      BY <1>4, SearchNumbers DEF Search!SearchRecord
    <3> QED BY <1>5, <3>1
  <2>2. ASSUME n \notin x16' PROVE Search!Found(new) = IF Search!Hit(s, i) THEN Search!Found(s) \cup {i} ELSE Search!Found(s)
    <3>1. s.phase = 1 \/ s.phase = 2
      BY <1>4 DEF Search!SearchRecord
    <3>2. CASE s.phase = 1
      BY <1>6, <1>15, <2>1, <2>2, <3>2 DEF Search!Found, Search!Hit
    <3>3. CASE s.phase = 2
      BY <1>6, <1>15, <2>1, <2>2, <3>3 DEF Search!Found, Search!Hit
    <3> QED BY <3>1, <3>2, <3>3
  <2>3. Search!Hit(s, i) => i \notin Search!Found(s)
    BY <1>6, <2>1 DEF Search!Found, Search!Hit
  <2>4. CASE ~Search!Hit(s, i) /\ UNCHANGED <<x8, x9>> /\ new.matches = s.matches
    BY <1>13, <2>2, <2>4
  <2>5. ASSUME Search!Hit(s, i), Search!Register(<<x2, i>>), new.matches = Append(s.matches, x8'[Len(x8')])
        PROVE  Search!SearchInv'
    <3>1. <<x2, i>> \in Nat \X Nat
      BY <1>1 DEF Search!SearchTypeOK
    <3>2. PICK e \in Search!Entry :
            /\ e.item = <<x2, i>> /\ x8'[Len(x8')] = e /\ x8' \in Seq(Search!Entry)
            /\ e.id[1] = x7 /\ e.id[2] = x9 + 1
            /\ \A c \in DOMAIN x8' : x8'[c] = e \/ \E d \in DOMAIN x8 : x8'[c] = x8[d]
            /\ x9' = x9 + 1
      BY <1>1, <2>5, <3>1, Registered
    <3>3. Search!SearchTypeOK'
      BY <1>1, <1>2, <1>7, <3>2 DEF Search!SearchTypeOK
    <3>4. s.matches \in Seq(Search!Entry) /\ new.matches = Append(s.matches, e)
      BY <1>4, <2>5, <3>2 DEF Search!SearchRecord
    <3>5. /\ DOMAIN s.matches = 1..Len(s.matches) /\ DOMAIN new.matches = 1..(Len(s.matches) + 1)
          /\ Len(s.matches) \in Nat /\ new.matches[Len(s.matches) + 1] = e
          /\ \A k \in DOMAIN s.matches : new.matches[k] = s.matches[k]
      BY <3>4, Appended
    <3>6. \A k \in DOMAIN new.matches : k \in DOMAIN s.matches \/ k = Len(s.matches) + 1
      BY <3>5
    <3>7. Search!IdsIssued' /\ Search!IdsNeverRebound'
      <4>1. \A m \in DOMAIN x10 : \A k \in DOMAIN x10'[m].matches :
              \/ x10'[m].matches[k] = e
              \/ \E j \in DOMAIN x10[m].matches : x10'[m].matches[k] = x10[m].matches[j]
        BY <1>4, <1>7, <3>5, <3>6
      <4> QED BY <1>1, <1>2, <1>7, <3>2, <4>1, IdsKept
    <3>8. Search!Matched(new) = Search!Matched(s) \cup {<<x2, i>>}
      <4>1. ASSUME NEW x \in Search!Matched(new) PROVE x \in Search!Matched(s) \cup {<<x2, i>>}
        <5>1. PICK k \in DOMAIN new.matches : x = new.matches[k].item
          BY <4>1 DEF Search!Matched
        <5>2. CASE k \in DOMAIN s.matches
          BY <3>5, <5>1, <5>2 DEF Search!Matched
        <5>3. CASE k = Len(s.matches) + 1
          BY <3>2, <3>5, <5>1, <5>3
        <5> QED BY <3>6, <5>2, <5>3
      <4>2. <<x2, i>> \in Search!Matched(new)
        <5>1. Len(s.matches) + 1 \in DOMAIN new.matches
          BY <3>5
        <5> QED BY <3>2, <3>5, <5>1 DEF Search!Matched
      <4>3. ASSUME NEW x \in Search!Matched(s) PROVE x \in Search!Matched(new)
        <5>1. PICK k \in DOMAIN s.matches : x = s.matches[k].item
          BY <4>3 DEF Search!Matched
        <5>2. k \in DOMAIN new.matches /\ new.matches[k] = s.matches[k]
          BY <3>5
        <5> QED BY <5>1, <5>2 DEF Search!Matched
      <4> QED BY <4>1, <4>2, <4>3
    <3>9. Search!NoResumeOverReset'
      <4>1. CASE x11 = n
        <5>1. x2 = x3
          BY <1>1, <1>15 DEF Search!SearchTypeOK
        <5>2. \A k \in DOMAIN new.matches : new.matches[k].item[1] = x3
          <6>1. n # 0
            BY <1>1 DEF Search!SearchTypeOK
          <6>2. \A k \in DOMAIN s.matches : s.matches[k].item[1] = x3
            BY <1>1, <1>4, <4>1, <6>1 DEF Search!NoResumeOverReset
          <6>3. e.item[1] = x3
            BY <3>2, <5>1
          <6> QED BY <3>5, <3>6, <6>2, <6>3
        <5> QED BY <1>2, <1>7, <4>1, <5>2 DEF Search!NoResumeOverReset
      <4>2. CASE x11 # n
        <5>1. x11 # 0 => x11 \in DOMAIN x10
          BY <1>1 DEF Search!SearchTypeOK
        <5> QED BY <1>1, <1>2, <1>7, <4>2, <5>1 DEF Search!NoResumeOverReset
      <4> QED BY <4>1, <4>2
    <3>10. n \notin x16' => Search!Exact(new, x15[n], x3)
      <4>1. ASSUME n \notin x16' PROVE Search!Exact(new, x15[n], x3)
        <5>1. x15[n] \cup Search!Matched(new) = {<<x3, j>> : j \in Search!Found(s)} \cup {<<x3, i>>}
          BY <1>9, <1>10, <3>8, <4>1 DEF Search!Exact
        <5>2. Search!Found(new) = Search!Found(s) \cup {i}
          BY <2>2, <2>5, <4>1
        <5> HIDE DEF Search!Found
        <5> QED BY <5>1, <5>2 DEF Search!Exact
      <4> QED BY <4>1
    <3>11. Search!FoundOnce'
      <4> SUFFICES ASSUME NEW m \in DOMAIN x10' \ x16', NEW j \in DOMAIN x10'[m].matches,
                          NEW k \in DOMAIN x10'[m].matches,
                          x10'[m].matches[j].item = x10'[m].matches[k].item
                   PROVE  j = k
        BY DEF Search!FoundOnce
      <4>1. CASE m # n
        BY <1>1, <1>7, <1>9, <4>1 DEF Search!FoundOnce
      <4>2. CASE m = n
        <5>1. n \notin x16' /\ <<x2, i>> \notin Search!Matched(s)
          <6>1. n \notin x16'
            BY <1>9, <4>2
          <6>2. ASSUME <<x2, i>> \in Search!Matched(s) PROVE FALSE
            <7>1. PICK x \in Search!Found(s) : <<x2, i>> = <<x3, x>>
              BY <1>9, <1>10, <6>1, <6>2 DEF Search!Exact
            <7> QED BY <2>3, <2>5, <7>1
          <6> QED BY <6>1, <6>2
        <5>2. \A a \in DOMAIN s.matches : s.matches[a].item # <<x2, i>>
          BY <5>1 DEF Search!Matched
        <5>3. \A a, b \in DOMAIN s.matches : s.matches[a].item = s.matches[b].item => a = b
          BY <1>1, <1>4, <1>9, <5>1 DEF Search!FoundOnce
        <5>4. new.matches[j].item = new.matches[k].item /\ j \in DOMAIN new.matches /\ k \in DOMAIN new.matches
          BY <1>7, <4>2
        <5>5. \A a \in DOMAIN new.matches : a \in DOMAIN s.matches => new.matches[a].item = s.matches[a].item
          BY <3>5
        <5>6. \A a \in DOMAIN new.matches : a \notin DOMAIN s.matches =>
                a = Len(s.matches) + 1 /\ new.matches[a].item = <<x2, i>>
          BY <3>2, <3>5, <3>6
        <5>7. CASE j \in DOMAIN s.matches /\ k \in DOMAIN s.matches
          BY <5>3, <5>4, <5>5, <5>7
        <5>8. CASE ~(j \in DOMAIN s.matches /\ k \in DOMAIN s.matches)
          BY <5>2, <5>4, <5>5, <5>6, <5>8
        <5> QED BY <5>7, <5>8
      <4> QED BY <4>1, <4>2
    <3> QED BY <1>9, <1>11, <1>12, <3>3, <3>7, <3>9, <3>10, <3>11 DEF Search!SearchInv
  <2> QED BY <1>6, <1>15, <2>4, <2>5
<1> QED BY <1>6, <1>14, <1>15

LEMMA SearchStep == Search!SearchInv /\ [Search!SearchNext]_(Search!searchVars) => Search!SearchInv'
<1> SUFFICES ASSUME Search!SearchInv, [Search!SearchNext]_(Search!searchVars) PROVE Search!SearchInv'
  OBVIOUS
<1>1. ASSUME NEW f \in Finder, NEW arrives \in BOOLEAN, Search!Answer(f, arrives) PROVE Search!SearchInv'
  BY <1>1, AnswerKeepsSearch
<1>2. ASSUME NEW f \in Finder, Search!Find(f) \/ Search!SliceFails(f) \/ Search!Slice(f) \/ Search!Built(f) PROVE Search!SearchInv'
  BY <1>2, FindKeepsSearch, FailureKeepsSearch, SliceKeepsSearch, BuiltKeepsSearch
<1>3. CASE (\E o \in 1..2 : Search!OpenDocument(o)) \/ Search!ModelsArrive \/ Search!Execute
  BY <1>3, DocumentKeepsSearch
<1>4. CASE UNCHANGED Search!searchVars
  BY <1>4, ArrivalKeepsSearch
<1> QED BY <1>1, <1>2, <1>3, <1>4 DEF Search!SearchNext

LEMMA InvIsExact == Search!SearchInv => Search!SearchIsExact
<1> SUFFICES ASSUME Search!SearchInv PROVE Search!NothingSkipped
  BY DEF Search!SearchInv, Search!SearchIsExact
<1> SUFFICES ASSUME NEW n \in DOMAIN x10 \ x16, x10[n].complete, Search!Running(n) = {}
             PROVE  {x[2] : x \in x15[n]} = Named \cup Valued
  BY DEF Search!NothingSkipped
<1>1. PICK c \in 0..x3 : Search!Exact(x10[n], x15[n], c)
  BY DEF Search!SearchInv, Search!ExactlyFound
<1>2. Search!Matched(x10[n]) \subseteq x15[n]
  BY DEF Search!SearchInv, Search!ExactlyFound
<1>3. x15[n] = {<<c, i>> : i \in Named \cup Valued}
  BY <1>1, <1>2 DEF Search!Exact, Search!Found
<1>4. ASSUME NEW i \in Named \cup Valued PROVE i \in {x[2] : x \in x15[n]}
  <2>1. <<c, i>> \in x15[n] /\ <<c, i>>[2] = i
    BY <1>3
  <2> QED BY <2>1
<1>5. ASSUME NEW i \in {x[2] : x \in x15[n]} PROVE i \in Named \cup Valued
  <2>1. PICK x \in x15[n] : i = x[2]
    OBVIOUS
  <2>2. PICK j \in Named \cup Valued : x = <<c, j>>
    BY <1>3
  <2> QED BY <2>1, <2>2
<1> QED BY <1>4, <1>5

IdentityPart == part = "search" => Search!IdentityInv

LEMMA SearchAlone ==
  part = "search" /\ [Next]_all => [Search!SearchNext]_(Search!searchVars)
BY DEF Next, all, Search!searchVars, Search!docVars, Search!cacheVars

\* An identity the plug-in has reported stands for one content for ever, and a
\* document with models is never reported without one (documentInstanceId,
\* EnsureDocumentState and ShouldResetIdentity).
THEOREM IdentityStandsForContent == Spec => IdentityIsContent
<1>1. Init => IdentityPart
  BY IdentityInitially DEF Init, IdentityPart
<1>2. IdentityPart /\ [Next]_all =>
        IdentityPart' /\ [part = "search" => Search!IdentityOfContent]_all
  BY PartStays, SearchAlone, IdentityStep DEF IdentityPart
<1> QED BY <1>1, <1>2, PTL DEF Spec, IdentityIsContent

SearchPart == part = "search" => Search!SearchInv

\* A search of the plug-in finds what matches, all of it and each item once,
\* over pages, timeouts and slices, never over a change of the document; and an
\* identifier it gave out never comes to stand for another item of the cache
\* (FindItemsResumableAsync, ScanSearchSlice, RegisterItem, ResetSessionState).
THEOREM SearchAlwaysExact == Spec => []SearchIsExact
<1>1. Init => SearchPart
  BY SearchInitially DEF Init, SearchPart
<1>2. SearchPart /\ [Next]_all => SearchPart'
  BY PartStays, SearchAlone, SearchStep DEF SearchPart
<1>3. SearchPart => SearchIsExact
  BY InvIsExact DEF SearchPart, SearchIsExact
<1> QED BY <1>1, <1>2, <1>3, PTL DEF Spec

-----------------------------------------------------------------------------
(* The context epochs: x1 epochFile, x2 world, x3 summary, x4 summaries,    *)
(* x5 working, x6 volatile, x7 captured, x8 epochRun, x9 changes,           *)
(* x10 epochRuns.                                                           *)

LEMMA EpochsCardinality == \A S : Epochs!Cardinality(S) = Cardinality(S)
BY DEF Cardinality, Epochs!Cardinality

\* What is told of a set of sources: of each one its present value, once.
LEMMA UpdatesAreTold ==
  ASSUME NEW S \in SUBSET Durable, x2.values \in [Durable -> Nat], NEW told \in Epochs!UpdatesOf(S)
  PROVE  /\ told \in Seq(Durable \X Nat)
         /\ \A i \in DOMAIN told : told[i][1] \in Durable /\ told[i][2] = x2.values[told[i][1]]
         /\ \A i, j \in DOMAIN told : told[i][1] = told[j][1] => i = j
<1>1. Epochs!Cardinality(S) \in Nat
  BY EpochsCardinality, ServicesConstants, FS_Subset, FS_CardinalityType
<1>2. told \in [1..Epochs!Cardinality(S) -> {<<s, x2.values[s]>> : s \in S}]
  BY DEF Epochs!UpdatesOf
<1>3. {<<s, x2.values[s]>> : s \in S} \subseteq Durable \X Nat
  OBVIOUS
<1>4. told \in Seq(Durable \X Nat)
  BY <1>1, <1>2, <1>3, SeqDef
<1>5. ASSUME NEW i \in DOMAIN told
      PROVE  told[i] = <<told[i][1], x2.values[told[i][1]]>> /\ told[i][1] \in Durable
  BY <1>2, <1>5
<1>6. \A i, j \in DOMAIN told : told[i] = told[j] => i = j
  BY DEF Epochs!UpdatesOf
<1>7. \A i, j \in DOMAIN told : told[i][1] = told[j][1] => told[i] = told[j]
  BY <1>5
<1>8. \A i \in DOMAIN told : told[i][2] = x2.values[told[i][1]]
  <2>1. \A a, b, c : c = <<a, b>> => c[2] = b
    OBVIOUS
  <2> QED BY <1>5, <2>1
<1> QED BY <1>4, <1>5, <1>6, <1>7, <1>8

\* A snapshot stays what was told last when updates are added for it.
LEMMA TellingMore ==
  ASSUME NEW one \in Epochs!Epoch, Epochs!TellsItsSnapshot(one), NEW other \in Epochs!Epoch,
         NEW told \in Seq(Durable \X Nat), other.updates = one.updates \o told,
         \A i, j \in DOMAIN told : told[i][1] = told[j][1] => i = j,
         NEW value \in [Durable -> Nat],
         \A i \in DOMAIN told : told[i][2] = value[told[i][1]],
         \A s \in Durable : other.snapshot[s] = IF \E i \in DOMAIN told : told[i][1] = s
                                               THEN value[s] ELSE one.snapshot[s]
  PROVE  Epochs!TellsItsSnapshot(other)
<1> DEFINE n == Len(one.updates)
           k == Len(told)
<1>1. one.updates \in Seq(Durable \X Nat) /\ other.updates \in Seq(Durable \X Nat)
  BY DEF Epochs!Epoch
<1>2. n \in Nat /\ k \in Nat /\ DOMAIN one.updates = 1..n /\ DOMAIN told = 1..k
  BY <1>1
<1>3. /\ DOMAIN other.updates = 1..(n + k)
      /\ \A i \in 1..(n + k) :
           other.updates[i] = IF i <= n THEN one.updates[i] ELSE told[i - n]
  BY <1>1, ConcatProperties
<1>4. \A i \in 1..k : /\ n + i \in 1..(n + k) /\ n + i > n
                      /\ other.updates[n + i] = told[i]
  <2>1. \A i \in 1..k : n + i \in 1..(n + k) /\ ~(n + i <= n) /\ (n + i) - n = i
    BY <1>2
  <2> QED BY <1>2, <1>3, <2>1
<1>5. \A i \in 1..n : i \in 1..(n + k) /\ other.updates[i] = one.updates[i]
  BY <1>2, <1>3
<1>6. \A i \in 1..(n + k) : i \in 1..n \/ (i - n \in 1..k /\ i = n + (i - n))
  BY <1>2
<1>7. ASSUME NEW s \in Durable, NEW i \in 1..k, told[i][1] = s
      PROVE  /\ other.updates[n + i] = <<s, other.snapshot[s]>>
             /\ \A j \in 1..(n + k) : j > n + i => other.updates[j][1] # s
  <2>1. other.snapshot[s] = value[s] /\ told[i] = <<s, value[s]>>
    <3>1. told[i] \in Durable \X Nat /\ told[i][2] = value[s] /\ told[i][1] = s
      <4>1. i \in DOMAIN told
        BY <1>2
      <4>2. told[i][2] = value[told[i][1]]
        BY <4>1
      <4>3. told[i] \in Durable \X Nat
        BY <4>1
      <4> QED BY <1>7, <4>2, <4>3
    <3>2. \A u \in Durable \X Nat : u = <<u[1], u[2]>>
      OBVIOUS
    <3>3. told[i] = <<s, value[s]>>
      BY <3>1, <3>2
    <3> QED BY <1>2, <1>7, <3>3
  <2>2. ASSUME NEW j \in 1..(n + k), j > n + i, other.updates[j][1] = s PROVE FALSE
    <3>1. j \notin 1..n
      BY <1>2, <2>2
    <3>2. j - n \in 1..k /\ j = n + (j - n)
      BY <1>6, <3>1
    <3>3. told[j - n][1] = s
      BY <1>4, <2>2, <3>2
    <3>4. \A a, b \in 1..k : told[a][1] = told[b][1] => a = b
      BY <1>2
    <3>5. j - n = i
      BY <1>7, <3>2, <3>3, <3>4
    <3> QED BY <1>2, <2>2, <3>2, <3>5
  <2> QED BY <1>4, <2>1, <2>2
<1>8. ASSUME NEW s \in Durable, \A i \in 1..k : told[i][1] # s
      PROVE  /\ other.snapshot[s] = one.snapshot[s]
             /\ \A j \in 1..(n + k) : other.updates[j][1] = s =>
                  j \in 1..n /\ one.updates[j][1] = s
  BY <1>2, <1>4, <1>5, <1>6, <1>8
<1> QED
  <2> SUFFICES ASSUME NEW s \in Durable
               PROVE  \/ /\ other.snapshot[s] = 0
                         /\ \A i \in 1..(n + k) : other.updates[i][1] # s
                      \/ \E i \in 1..(n + k) :
                           /\ other.updates[i] = <<s, other.snapshot[s]>>
                           /\ \A j \in 1..(n + k) : j > i => other.updates[j][1] # s
    BY <1>3 DEF Epochs!TellsItsSnapshot
  <2>1. CASE \E i \in 1..k : told[i][1] = s
    <3>1. PICK i \in 1..k : told[i][1] = s
      BY <2>1
    <3> QED BY <1>4, <1>7, <3>1
  <2>2. CASE \A i \in 1..k : told[i][1] # s
    <3>1. \/ /\ one.snapshot[s] = 0
             /\ \A i \in 1..n : one.updates[i][1] # s
          \/ \E i \in 1..n :
               /\ one.updates[i] = <<s, one.snapshot[s]>>
               /\ \A j \in 1..n : j > i => one.updates[j][1] # s
      <4> HIDE DEF n
      <4>1. DOMAIN one.updates = 1..n
        BY <1>2
      <4> QED BY <4>1 DEF Epochs!TellsItsSnapshot
    <3> QED BY <1>5, <1>8, <2>2, <3>1
  <2> QED BY <2>1, <2>2

\* What goes on as the file does so with more updates.
LEMMA GoingOn ==
  ASSUME NEW one \in Epochs!Epoch, NEW other \in Epochs!Epoch, Epochs!GoesOnAs(one, other),
         NEW told \in Seq(Durable \X Nat), NEW more \in Epochs!Epoch,
         more.generation = other.generation, more.base = other.base,
         more.seed = other.seed, more.updates = other.updates \o told
  PROVE  Epochs!GoesOnAs(one, more)
<1> DEFINE n == Len(one.updates)
           m == Len(other.updates)
           k == Len(told)
<1>1. CASE other.generation > one.generation
  BY <1>1 DEF Epochs!GoesOnAs
<1>2. CASE ~(other.generation > one.generation)
  <2>1. /\ other.generation = one.generation /\ other.base = one.base
        /\ one.seed \in {0, other.seed} /\ n <= m
        /\ one.updates = SubSeq(other.updates, 1, n)
    BY <1>2 DEF Epochs!GoesOnAs
  <2>2. /\ one.updates \in Seq(Durable \X Nat) /\ other.updates \in Seq(Durable \X Nat)
        /\ more.updates \in Seq(Durable \X Nat) /\ n \in Nat /\ m \in Nat /\ k \in Nat
    BY DEF Epochs!Epoch
  <2>3. Len(more.updates) = m + k /\ \A i \in 1..m : more.updates[i] = other.updates[i]
    BY <2>2, ConcatProperties
  <2>4. SubSeq(more.updates, 1, n) = SubSeq(other.updates, 1, n)
    BY <2>1, <2>2, <2>3
  <2> QED BY <2>1, <2>2, <2>3, <2>4 DEF Epochs!GoesOnAs
<1> QED BY <1>1, <1>2

LEMMA GoingOnUnchanged ==
  ASSUME NEW one \in Epochs!Epoch, NEW other \in Epochs!Epoch,
         other.generation = one.generation, other.base = one.base,
         one.seed \in {0, other.seed}, other.updates = one.updates
  PROVE  Epochs!GoesOnAs(one, other)
<1>1. one.updates \in Seq(Durable \X Nat)
  BY DEF Epochs!Epoch
<1>2. SubSeq(one.updates, 1, Len(one.updates)) = one.updates
  BY <1>1
<1> QED BY <1>1, <1>2 DEF Epochs!GoesOnAs

LEMMA EpochsAreEpochs ==
  /\ \A f \in Epochs!Epoch : Epochs!IsEpoch(f) /\ f # Epochs!None /\ f # Epochs!Corrupt
  /\ ~Epochs!IsEpoch(Epochs!None) /\ ~Epochs!IsEpoch(Epochs!Corrupt)
BY DEF Epochs!Epoch, Epochs!IsEpoch, Epochs!None, Epochs!Corrupt

\* A new epoch tells nothing yet, and is of a later generation.
LEMMA NewEpochs ==
  ASSUME NEW base \in {1, 2}, NEW previous \in Epochs!Epoch \cup {Epochs!None, Epochs!Corrupt}, NEW seed \in Nat
  PROVE  /\ Epochs!NewEpoch(base, previous, seed) \in Epochs!Epoch
         /\ Epochs!TellsItsSnapshot(Epochs!NewEpoch(base, previous, seed))
         /\ previous \in Epochs!Epoch => Epochs!GoesOnAs(previous, Epochs!NewEpoch(base, previous, seed))
<1> DEFINE new == Epochs!NewEpoch(base, previous, seed)
<1>1. CASE Epochs!IsEpoch(previous)
  <2>1. previous \in Epochs!Epoch
    BY <1>1, EpochsAreEpochs
  <2>2. previous.generation \in Nat /\ previous.seed \in Nat
    BY <2>1 DEF Epochs!Epoch
  <2>3. new.generation = previous.generation + 1
    BY <1>1 DEF Epochs!NewEpoch
  <2>4. new \in Epochs!Epoch
    BY <1>1, <2>2 DEF Epochs!NewEpoch, Epochs!Epoch
  <2> QED BY <2>2, <2>3, <2>4 DEF Epochs!GoesOnAs, Epochs!TellsItsSnapshot, Epochs!NewEpoch
<1>2. CASE ~Epochs!IsEpoch(previous)
  <2>1. previous \notin Epochs!Epoch
    BY <1>2, EpochsAreEpochs
  <2>2. new \in Epochs!Epoch
    BY <1>2 DEF Epochs!NewEpoch, Epochs!Epoch
  <2> QED BY <2>1, <2>2 DEF Epochs!TellsItsSnapshot, Epochs!NewEpoch
<1> QED BY <1>1, <1>2

LEMMA EpochInitially == Epochs!EpochInit => Epochs!EpochInv
<1> SUFFICES ASSUME Epochs!EpochInit PROVE Epochs!EpochInv
  OBVIOUS
<1>1. Epochs!None \notin Epochs!Epoch
  BY EpochsAreEpochs
<1> QED BY <1>1 DEF Epochs!EpochInit, Epochs!EpochInv

\* What happens around a run, and a run that compacts, leave the two epochs.
LEMMA WorldStep ==
  ASSUME Epochs!EpochInv, Epochs!WorldChanges
  PROVE  Epochs!EpochInv'
<1>1. x2' \in [values : [Durable -> Nat], base : {1, 2}]
  <2>1. ASSUME NEW s \in Durable, NEW v \in 0..MaxValue, x2' = [x2 EXCEPT !.values[s] = v]
        PROVE  x2' \in [values : [Durable -> Nat], base : {1, 2}]
    <3>1. v \in Nat
      BY ServicesConstants
    <3> QED BY <2>1, <3>1 DEF Epochs!EpochInv
  <2>2. ASSUME x2' = [x2 EXCEPT !.base = 3 - @]
        PROVE  x2' \in [values : [Durable -> Nat], base : {1, 2}]
    <3>1. 3 - x2.base \in {1, 2}
      BY DEF Epochs!EpochInv
    <3> QED BY <2>2, <3>1 DEF Epochs!EpochInv
  <2> QED BY <2>1, <2>2 DEF Epochs!WorldChanges
<1>2. UNCHANGED <<x1, x3, x4, x5, x6, x7, x8>>
  BY DEF Epochs!WorldChanges
<1> QED BY <1>1, <1>2 DEF Epochs!EpochInv, Epochs!Volatile

LEMMA OutsideStep ==
  ASSUME Epochs!EpochInv, Epochs!Compact \/ Epochs!CompactsItself \/ UNCHANGED Epochs!epochVars
  PROVE  Epochs!EpochInv' /\ UNCHANGED x1
<1>1. CASE Epochs!Compact
  BY <1>1 DEF Epochs!Compact, Epochs!EpochInv, Epochs!Volatile
<1>2. CASE Epochs!CompactsItself
  BY <1>2 DEF Epochs!CompactsItself, Epochs!EpochInv, Epochs!Volatile
<1>3. CASE UNCHANGED Epochs!epochVars
  BY <1>3 DEF Epochs!epochVars, Epochs!EpochInv, Epochs!Volatile
<1> QED BY <1>1, <1>2, <1>3

LEMMA DamageStep ==
  ASSUME Epochs!EpochInv, Epochs!FileDamaged
  PROVE  Epochs!EpochInv' /\ ~Epochs!IsEpoch(x1')
BY EpochsAreEpochs DEF Epochs!FileDamaged, Epochs!EpochInv, Epochs!Volatile

LEMMA LoadStep ==
  ASSUME Epochs!EpochInv, Epochs!Load
  PROVE  Epochs!EpochInv' /\ UNCHANGED x1
<1>1. /\ x5' = Epochs!Loaded(x1) /\ x8' = "loaded"
      /\ UNCHANGED <<x1, x2, x3, x4, x6, x7>>
  BY DEF Epochs!Load
<1>2. /\ x1 \in Epochs!Epoch \cup {Epochs!None, Epochs!Corrupt} /\ x2.base \in {1, 2} /\ x3 \in Nat
      /\ x1 \in Epochs!Epoch => Epochs!TellsItsSnapshot(x1)
  BY DEF Epochs!EpochInv
<1>3. /\ Epochs!Loaded(x1) \in Epochs!Epoch /\ Epochs!TellsItsSnapshot(Epochs!Loaded(x1))
      /\ x1 \in Epochs!Epoch => Epochs!GoesOnAs(x1, Epochs!Loaded(x1))
  <2>1. CASE ~Epochs!IsEpoch(x1)
    BY <1>2, <2>1, NewEpochs, EpochsAreEpochs DEF Epochs!Loaded
  <2>2. CASE Epochs!IsEpoch(x1) /\ x1.base # x2.base
    BY <1>2, <2>2, NewEpochs, EpochsAreEpochs DEF Epochs!Loaded
  <2>3. CASE Epochs!IsEpoch(x1) /\ x1.base = x2.base
    <3> DEFINE e == Epochs!Loaded(x1)
    <3>1. x1 \in Epochs!Epoch
      BY <1>2, <2>3, EpochsAreEpochs
    <3>2. e = [x1 EXCEPT !.seed = IF @ = 0 THEN x3 ELSE @]
      BY <2>3 DEF Epochs!Loaded
    <3>3. /\ e \in Epochs!Epoch /\ e.generation = x1.generation /\ e.base = x1.base
          /\ x1.seed \in {0, e.seed} /\ e.updates = x1.updates
          /\ e.snapshot = x1.snapshot
      BY <1>2, <3>1, <3>2 DEF Epochs!Epoch
    <3> HIDE DEF e
    <3>4. Epochs!GoesOnAs(x1, e)
      BY <3>1, <3>3, GoingOnUnchanged
    <3>5. Epochs!TellsItsSnapshot(e)
      BY <1>2, <3>1, <3>3 DEF Epochs!TellsItsSnapshot
    <3> QED BY <3>3, <3>4, <3>5 DEF e
  <2> QED BY <2>1, <2>2, <2>3
<1> QED BY <1>1, <1>3 DEF Epochs!EpochInv

LEMMA ReconcileStep ==
  ASSUME Epochs!EpochInv, Epochs!Reconcile
  PROVE  Epochs!EpochInv' /\ UNCHANGED x1
<1>1. /\ x8 = "loaded" /\ x8' = "prepared" /\ x7' = 0
      /\ x6' = Epochs!Volatile(x5.seed)
      /\ UNCHANGED <<x1, x2, x3, x4>>
  BY DEF Epochs!Reconcile
<1>2. PICK S \in SUBSET Durable : \E told \in Epochs!UpdatesOf(S) : x5' = Epochs!WithUpdates(told)
  <2>1. PICK S \in SUBSET {s \in Durable : Epochs!Says(s)} :
          \E told \in Epochs!UpdatesOf({s \in S : x2.values[s] \notin Silent}) :
            x5' = Epochs!WithUpdates(told)
    BY DEF Epochs!Reconcile
  <2>2. {s \in S : x2.values[s] \notin Silent} \in SUBSET Durable
    OBVIOUS
  <2> QED BY <2>1, <2>2
<1> PICK told \in Epochs!UpdatesOf(S) : x5' = Epochs!WithUpdates(told)
  BY <1>2
<1>3. /\ x5 \in Epochs!Epoch /\ Epochs!TellsItsSnapshot(x5) /\ x2.values \in [Durable -> Nat]
      /\ x1 \in Epochs!Epoch => Epochs!GoesOnAs(x1, x5)
  BY <1>1 DEF Epochs!EpochInv
<1>4. /\ told \in Seq(Durable \X Nat)
      /\ \A i \in DOMAIN told : told[i][2] = x2.values[told[i][1]]
      /\ \A i, j \in DOMAIN told : told[i][1] = told[j][1] => i = j
  BY <1>3, UpdatesAreTold
<1>5. /\ x5' \in Epochs!Epoch
      /\ x5'.generation = x5.generation /\ x5'.base = x5.base
      /\ x5'.seed = x5.seed /\ x5'.updates = x5.updates \o told
      /\ \A s \in Durable : x5'.snapshot[s] = IF \E i \in DOMAIN told : told[i][1] = s
                                                THEN x2.values[s] ELSE x5.snapshot[s]
  <2> DEFINE snapshot == [s \in Durable |-> IF \E i \in DOMAIN told : told[i][1] = s
                                           THEN x2.values[s] ELSE x5.snapshot[s]]
  <2>1. x5' = [x5 EXCEPT !.snapshot = snapshot, !.updates = x5.updates \o told]
    BY <1>3 DEF Epochs!WithUpdates, Epochs!Epoch
  <2>2. x5.updates \o told \in Seq(Durable \X Nat) /\ x5.snapshot \in [Durable -> Nat]
    BY <1>3, <1>4, ConcatProperties DEF Epochs!Epoch
  <2>3. snapshot \in [Durable -> Nat]
    BY <1>3, <2>2
  <2>4. \A s \in Durable : snapshot[s] = IF \E i \in DOMAIN told : told[i][1] = s
                                          THEN x2.values[s] ELSE x5.snapshot[s]
    OBVIOUS
  <2> HIDE DEF snapshot
  <2>5. /\ x5' \in Epochs!Epoch
        /\ x5'.generation = x5.generation /\ x5'.base = x5.base
        /\ x5'.seed = x5.seed /\ x5'.updates = x5.updates \o told
        /\ x5'.snapshot = snapshot
    BY <1>3, <2>1, <2>2, <2>3 DEF Epochs!Epoch
  <2> QED BY <2>4, <2>5
<1>6. Epochs!TellsItsSnapshot(x5')
  <2>1. ASSUME NEW other \in Epochs!Epoch, other.updates = x5.updates \o told,
               \A s \in Durable : other.snapshot[s] = IF \E i \in DOMAIN told : told[i][1] = s
                                                     THEN x2.values[s] ELSE x5.snapshot[s]
        PROVE  Epochs!TellsItsSnapshot(other)
    BY <1>3, <1>4, <2>1, TellingMore
  <2> QED BY <1>5, <2>1
<1>7. x1 \in Epochs!Epoch => Epochs!GoesOnAs(x1, x5')
  BY <1>3, <1>4, <1>5, GoingOn
<1> QED BY <1>1, <1>5, <1>6, <1>7 DEF Epochs!EpochInv, Epochs!Volatile

LEMMA SettleStep ==
  ASSUME Epochs!EpochInv, Epochs!Settle
  PROVE  Epochs!EpochInv' /\ (x1 \in Epochs!Epoch /\ x1' \in Epochs!Epoch => Epochs!GoesOnAs(x1, x1'))
<1> DEFINE saved == IF x7 # 0 THEN Epochs!RolledOver ELSE x5
<1>1. /\ x8 = "prepared" /\ x8' = "settling" /\ x1' \in {saved, x1}
      /\ UNCHANGED <<x2, x3, x4, x5, x6, x7>>
  BY DEF Epochs!Settle, Epochs!Saves
<1>2. /\ x5 \in Epochs!Epoch /\ Epochs!TellsItsSnapshot(x5) /\ x7 \in Nat
      /\ x1 \in Epochs!Epoch => Epochs!GoesOnAs(x1, x5)
  BY <1>1 DEF Epochs!EpochInv
<1>3. x5.base \in {1, 2} /\ x5.generation \in Nat
  BY <1>2 DEF Epochs!Epoch
<1>4. /\ Epochs!RolledOver \in Epochs!Epoch /\ Epochs!TellsItsSnapshot(Epochs!RolledOver)
      /\ Epochs!RolledOver.generation = x5.generation + 1
  <2>1. Epochs!RolledOver \in Epochs!Epoch /\ Epochs!TellsItsSnapshot(Epochs!RolledOver)
    BY <1>2, <1>3, NewEpochs DEF Epochs!RolledOver
  <2> QED BY <1>2, <2>1, EpochsAreEpochs DEF Epochs!RolledOver, Epochs!NewEpoch
<1>5. x1 \in Epochs!Epoch => Epochs!GoesOnAs(x1, Epochs!RolledOver)
  <2> SUFFICES ASSUME x1 \in Epochs!Epoch PROVE Epochs!RolledOver.generation > x1.generation
    BY DEF Epochs!GoesOnAs
  <2>1. x1.generation \in Nat
    BY DEF Epochs!Epoch
  <2>2. x5.generation >= x1.generation
    BY <1>2, <1>3, <2>1 DEF Epochs!GoesOnAs
  <2> QED BY <1>3, <1>4, <2>1, <2>2
<1>6. /\ saved \in Epochs!Epoch /\ Epochs!TellsItsSnapshot(saved)
      /\ x1 \in Epochs!Epoch => Epochs!GoesOnAs(x1, saved)
  BY <1>2, <1>4, <1>5
<1>7. x1 \in Epochs!Epoch => Epochs!GoesOnAs(x1, x1)
  BY GoingOnUnchanged
<1> HIDE DEF saved
<1> QED BY <1>1, <1>2, <1>6, <1>7 DEF Epochs!EpochInv

LEMMA EndStep ==
  ASSUME Epochs!EpochInv, Epochs!Succeeds \/ Epochs!Fails
  PROVE  Epochs!EpochInv' /\ UNCHANGED x1
<1>1. Epochs!None \notin Epochs!Epoch
  BY EpochsAreEpochs
<1>2. x3' \in Nat
  BY DEF Epochs!Succeeds, Epochs!Fails, Epochs!EpochInv
<1> QED BY <1>1, <1>2 DEF Epochs!Succeeds, Epochs!Fails, Epochs!RunOver, Epochs!EpochInv

LEMMA EpochStep ==
  Epochs!EpochInv /\ [Epochs!EpochNext]_(Epochs!epochVars) => Epochs!EpochInv' /\ Epochs!EpochMovesOn
<1> SUFFICES ASSUME Epochs!EpochInv, [Epochs!EpochNext]_(Epochs!epochVars) PROVE Epochs!EpochInv' /\ Epochs!EpochMovesOn
  OBVIOUS
<1>1. ASSUME Epochs!EpochInv', UNCHANGED x1 PROVE Epochs!EpochInv' /\ Epochs!EpochMovesOn
  <2>1. x1 \in Epochs!Epoch => Epochs!GoesOnAs(x1, x1)
    BY GoingOnUnchanged
  <2> QED BY <1>1, <2>1, EpochsAreEpochs DEF Epochs!EpochInv, Epochs!EpochMovesOn
<1>2. CASE Epochs!FileDamaged
  BY <1>2, DamageStep DEF Epochs!EpochMovesOn
<1>3. CASE Epochs!Settle
  BY <1>3, SettleStep, EpochsAreEpochs DEF Epochs!EpochInv, Epochs!EpochMovesOn
<1>4. CASE Epochs!WorldChanges
  BY <1>1, <1>4, WorldStep DEF Epochs!WorldChanges
<1>5. CASE Epochs!Compact \/ Epochs!CompactsItself \/ UNCHANGED Epochs!epochVars \/ Epochs!Load \/ Epochs!Reconcile
           \/ Epochs!Succeeds \/ Epochs!Fails
  BY <1>1, <1>5, OutsideStep, LoadStep, ReconcileStep, EndStep
<1> QED BY <1>2, <1>3, <1>4, <1>5 DEF Epochs!EpochNext

LEMMA EpochTold == Epochs!EpochInv => Epochs!ContextIsTold
<1> SUFFICES ASSUME Epochs!EpochInv PROVE Epochs!ContextIsTold
  OBVIOUS
<1>1. Epochs!SnapshotIsTold
  BY EpochsAreEpochs DEF Epochs!EpochInv, Epochs!SnapshotIsTold
<1>2. Epochs!SummaryToldOnce
  BY DEF Epochs!EpochInv, Epochs!SummaryToldOnce, Epochs!Volatile
<1> QED BY <1>1, <1>2 DEF Epochs!ContextIsTold

EpochPart == part = "epochs" => Epochs!EpochInv

LEMMA EpochsAlone ==
  part = "epochs" /\ [Next]_all => [Epochs!EpochNext]_(Epochs!epochVars)
BY DEF Next, all, Epochs!epochVars

\* The prefix that a provider may have cached is never rewritten: the stored
\* epoch gains updates or its first seed, or is of a later generation, whatever
\* fails between prepare and settleContextEpoch (ContextEpochStore).
THEOREM PrefixStays == Spec => PrefixIsKept
<1>1. Init => EpochPart
  BY EpochInitially DEF Init, EpochPart
<1>2. EpochPart /\ [Next]_all => EpochPart' /\ [part = "epochs" => Epochs!EpochMovesOn]_all
  BY PartStays, EpochsAlone, EpochStep DEF EpochPart
<1> QED BY <1>1, <1>2, PTL DEF Spec, PrefixIsKept

\* What a source is compared with is what the model was told of it last, and the
\* last summary stands before the conversation once (ContextEngine.prepare).
THEOREM ContextAlwaysTold == Spec => []ContextIsTold
<1>1. Init => EpochPart
  BY EpochInitially DEF Init, EpochPart
<1>2. EpochPart /\ [Next]_all => EpochPart'
  BY PartStays, EpochsAlone, EpochStep DEF EpochPart
<1>3. EpochPart => ContextIsTold
  BY EpochTold DEF EpochPart, ContextIsTold
<1> QED BY <1>1, <1>2, <1>3, PTL DEF Spec

-----------------------------------------------------------------------------
(* The capabilities: x1 manifest, x2 app, x3 registered, x4 owner, x5 next, *)
(* x6 working, x7 stuck, x8 permission, x9 permits, x10 run, x11 executed.  *)
LEMMA ProvidersListed ==
  /\ Len(Providers) \in Nat /\ Capabilities!Provider = Capabilities!Through(Len(Providers)) /\ Unused \notin Capabilities!Provider
  /\ \A i \in 1..Len(Providers) : Providers[i] \in Capabilities!Provider
  /\ Capabilities!Through(0) = {}
  /\ \A n \in 0..Len(Providers) : n # Len(Providers) =>
       Capabilities!Through(n + 1) = Capabilities!Through(n) \cup {Providers[n + 1]}
<1>1. Len(Providers) \in Nat /\ DOMAIN Providers = 1..Len(Providers)
  BY ServicesConstants
<1>2. Capabilities!Provider = {Providers[i] : i \in 1..Len(Providers)} /\ Unused \notin Capabilities!Provider
  BY <1>1, ServicesConstants DEF Capabilities!Provider, Capabilities!ToSet
<1>3. ASSUME NEW n \in 0..Len(Providers), n # Len(Providers)
      PROVE  Capabilities!Through(n + 1) = Capabilities!Through(n) \cup {Providers[n + 1]}
  <2>1. 1..(n + 1) = (1..n) \cup {n + 1}
    BY <1>1
  <2> QED BY <2>1 DEF Capabilities!Through
<1>4. Capabilities!Through(0) = {}
  <2>1. 1..0 = {}
    OBVIOUS
  <2> QED BY <2>1 DEF Capabilities!Through
<1>5. Capabilities!Provider = Capabilities!Through(Len(Providers))
  BY <1>2 DEF Capabilities!Through
<1>6. \A i \in 1..Len(Providers) : Providers[i] \in Capabilities!Provider
  BY <1>2
<1> QED BY <1>1, <1>2, <1>3, <1>4, <1>5, <1>6

LEMMA CapabilityInitially == Capabilities!CapabilityInit => Capabilities!CapabilityInv
<1> SUFFICES ASSUME Capabilities!CapabilityInit PROVE Capabilities!CapabilityInv
  OBVIOUS
<1> USE DEF Capabilities!CapabilityInit
<1>1. Capabilities!CapabilityTypeOK
  <2>1. <<>> \in Seq({"aborted", "completed", "failed"}) /\ 0 \in 0..Len(Providers)
    BY ProvidersListed
  <2> QED BY <2>1, ProvidersListed DEF Capabilities!CapabilityTypeOK, Capabilities!NoRun
<1>2. Capabilities!RegistryInv
  BY ProvidersListed DEF Capabilities!RegistryInv, Capabilities!CapabilityTypeOK
<1>3. Capabilities!RunInv
  BY DEF Capabilities!RunInv, Capabilities!NoRun
<1> QED BY <1>1, <1>2, <1>3 DEF Capabilities!CapabilityInv

----------------------------------------------------------------------------
\* A step of the composition keeps what is said of runs: there is none yet.
LEMMA RunsKept ==
  ASSUME Capabilities!CapabilityInv, UNCHANGED <<x10, x11, x4>>,
         x2' \in {"composing", "starting", "refused"} => x2 \in {"composing", "starting", "refused"}
  PROVE  Capabilities!RunInv'
BY DEF Capabilities!CapabilityInv, Capabilities!RunInv, Capabilities!Offered, Capabilities!Resolved, Capabilities!Known

LEMMA RegisterStep ==
  ASSUME Capabilities!CapabilityInv, Capabilities!Register
  PROVE  Capabilities!CapabilityInv'
<1> USE DEF Capabilities!CapabilityInv
<1>1. /\ x2 = "composing" /\ x5 # Len(Providers) /\ x5 \in 0..Len(Providers)
      /\ UNCHANGED <<x1, x6, x7, x8, x10, x11>>
      /\ x10.stage = "none" /\ x11 = {}
  BY DEF Capabilities!Register, Capabilities!All, Capabilities!CapabilityTypeOK, Capabilities!RunInv
<1>2. Capabilities!RunInv'
  <2>1. x2' \in {"composing", "refused"}
    BY <1>1 DEF Capabilities!Register
  <2> QED BY <1>1, <2>1 DEF Capabilities!RunInv, Capabilities!CapabilityTypeOK
<1>3. CASE Capabilities!Clash(Capabilities!Turn)
  <2>1. x2' = "refused" /\ UNCHANGED <<x3, x4, x5>>
    BY <1>3 DEF Capabilities!Register
  <2> QED BY <1>1, <1>2, <2>1 DEF Capabilities!CapabilityTypeOK, Capabilities!RegistryInv
<1>4. CASE ~Capabilities!Clash(Capabilities!Turn)
  <2>1. /\ x3' = x3 \cup {Capabilities!Turn} /\ x5' = x5 + 1 /\ x2' = x2
        /\ x4' = [t \in ToolName |-> IF t \in x1[Capabilities!Turn].tools THEN Capabilities!Turn ELSE x4[t]]
    BY <1>4 DEF Capabilities!Register
  <2>2. /\ Capabilities!Turn = Providers[x5 + 1] /\ x5 + 1 \in 1..Len(Providers) /\ Capabilities!Turn \in Capabilities!Provider
        /\ Capabilities!Turn # Unused
    BY <1>1, ProvidersListed DEF Capabilities!Turn
  <2>3. /\ x3 = Capabilities!Through(x5)
        /\ \A i, j \in 1..x5 : Providers[i] = Providers[j] => i = j
    BY <1>1 DEF Capabilities!RegistryInv
  <2>4. Capabilities!Turn \notin x3
    BY <1>4 DEF Capabilities!Clash
  <2>5. Capabilities!CapabilityTypeOK'
    BY <1>1, <2>1, <2>2 DEF Capabilities!CapabilityTypeOK
  <2>6. x3' = Capabilities!Through(x5')
    BY <1>1, <2>1, <2>2, <2>3, ProvidersListed
  <2>7. ASSUME NEW i \in 1..x5', NEW j \in 1..x5', Providers[i] = Providers[j]
        PROVE  i = j
    <3>1. \A k \in 1..x5 : Providers[k] # Capabilities!Turn
      BY <2>3, <2>4 DEF Capabilities!Through
    <3> QED BY <1>1, <2>1, <2>2, <2>3, <2>7, <3>1
  <2>8. \A t \in ToolName : x4'[t] # Unused => x4'[t] \in x3' /\ t \in x1'[x4'[t]].tools
    BY <1>1, <2>1 DEF Capabilities!RegistryInv
  <2>9. ASSUME NEW p \in x3', NEW t \in x1'[p].tools PROVE x4'[t] = p
    <3>1. CASE p = Capabilities!Turn
      <4>1. t \in x1[Capabilities!Turn].tools /\ x1[Capabilities!Turn].tools \subseteq ToolName
        BY <1>1, <2>2, <2>9, <3>1 DEF Capabilities!CapabilityTypeOK
      <4> QED BY <2>1, <3>1, <4>1
    <3>2. CASE p # Capabilities!Turn
      <4>1. p \in x3 /\ t \in x1[p].tools /\ p \in Capabilities!Provider
        BY <1>1, <2>1, <2>9, <3>2 DEF Capabilities!CapabilityTypeOK
      <4>4. x4[t] = p /\ t \in ToolName
        BY <4>1 DEF Capabilities!RegistryInv, Capabilities!CapabilityTypeOK
      <4>2. p # Unused
        BY <4>1, ProvidersListed
      <4>3. t \notin x1[Capabilities!Turn].tools
        BY <1>4, <4>2, <4>4 DEF Capabilities!Clash
      <4> QED BY <2>1, <4>3, <4>4
    <3> QED BY <3>1, <3>2
  <2>10. Capabilities!RegistryInv'
    BY <1>1, <2>1, <2>6, <2>7, <2>8, <2>9 DEF Capabilities!RegistryInv
  <2> QED BY <1>2, <2>5, <2>10
<1> QED BY <1>3, <1>4

\* The other steps of the composition and of the end: what is registered stays.
LEMMA ComposedStep ==
  ASSUME Capabilities!CapabilityInv, Capabilities!Composed
  PROVE  Capabilities!CapabilityInv'
<1>1. /\ x2 = "composing" /\ x5 = Len(Providers) /\ x2' = "starting" /\ x5' = 0
      /\ UNCHANGED <<x1, x3, x4, x6, x7, x8, x10, x11>>
  BY DEF Capabilities!Composed, Capabilities!All
<1>2. x3 = Capabilities!Provider /\ \A i, j \in 1..Len(Providers) : Providers[i] = Providers[j] => i = j
  BY <1>1, ProvidersListed DEF Capabilities!CapabilityInv, Capabilities!RegistryInv
<1>3. Capabilities!CapabilityTypeOK'
  BY <1>1, ProvidersListed DEF Capabilities!CapabilityInv, Capabilities!CapabilityTypeOK
<1>4. Capabilities!RegistryInv'
  BY <1>1, <1>2 DEF Capabilities!CapabilityInv, Capabilities!RegistryInv
<1> QED BY <1>1, <1>3, <1>4, RunsKept DEF Capabilities!CapabilityInv

LEMMA StartStep ==
  ASSUME Capabilities!CapabilityInv, Capabilities!Start
  PROVE  Capabilities!CapabilityInv'
<1>1. /\ x2 = "starting" /\ x5 # Len(Providers) /\ x5' = x5 + 1
      /\ UNCHANGED <<x1, x2, x3, x4, x7, x8, x10, x11>>
      /\ x5 \in 0..Len(Providers)
  BY DEF Capabilities!Start, Capabilities!All, Capabilities!CapabilityInv, Capabilities!CapabilityTypeOK
<1>2. x6' \subseteq Capabilities!Provider
  <2>1. Capabilities!Turn \in Capabilities!Provider
    BY <1>1, ProvidersListed DEF Capabilities!Turn
  <2> QED BY <2>1 DEF Capabilities!Start, Capabilities!CapabilityInv, Capabilities!CapabilityTypeOK
<1>3. Capabilities!CapabilityTypeOK'
  BY <1>1, <1>2, ProvidersListed DEF Capabilities!CapabilityInv, Capabilities!CapabilityTypeOK
<1>4. Capabilities!RegistryInv'
  BY <1>1 DEF Capabilities!CapabilityInv, Capabilities!RegistryInv
<1> QED BY <1>1, <1>3, <1>4, RunsKept DEF Capabilities!CapabilityInv

LEMMA ComposeStep ==
  ASSUME Capabilities!CapabilityInv, Capabilities!Compose
  PROVE  Capabilities!CapabilityInv'
<1>1. /\ x2 = "starting" /\ x2' \in {"refused", "running"}
      /\ UNCHANGED <<x1, x3, x4, x5, x6, x7, x8, x10, x11>>
  BY DEF Capabilities!Compose
<1>2. Capabilities!CapabilityTypeOK'
  BY <1>1 DEF Capabilities!CapabilityInv, Capabilities!CapabilityTypeOK
<1>3. Capabilities!RegistryInv'
  BY <1>1 DEF Capabilities!CapabilityInv, Capabilities!RegistryInv
<1> QED BY <1>1, <1>2, <1>3, RunsKept DEF Capabilities!CapabilityInv

LEMMA DisposeStep ==
  ASSUME Capabilities!CapabilityInv, Capabilities!Dispose
  PROVE  Capabilities!CapabilityInv'
<1>1. /\ x2 = "quitting" /\ x5 # Len(Providers) /\ x5' = x5 + 1
      /\ UNCHANGED <<x1, x2, x3, x4, x8, x10, x11>>
      /\ x5 \in 0..Len(Providers)
      /\ \/ x6' = x6 /\ x7' = x7 \cup {Capabilities!Turn}
         \/ x6' = x6 \ {Capabilities!Turn} /\ x7' = x7
  BY DEF Capabilities!Dispose, Capabilities!All, Capabilities!CapabilityInv, Capabilities!CapabilityTypeOK
<1>2. Capabilities!CapabilityTypeOK'
  BY <1>1, ProvidersListed DEF Capabilities!CapabilityInv, Capabilities!CapabilityTypeOK
<1>3. (x6' \ x7') \cap Capabilities!Through(x5') = {}
  <2>1. Capabilities!Through(x5') = Capabilities!Through(x5) \cup {Capabilities!Turn}
    BY <1>1, ProvidersListed DEF Capabilities!Turn
  <2>2. (x6 \ x7) \cap Capabilities!Through(x5) = {}
    BY <1>1 DEF Capabilities!CapabilityInv, Capabilities!RegistryInv
  <2> QED BY <1>1, <2>1, <2>2
<1>4. Capabilities!RegistryInv'
  BY <1>1, <1>3 DEF Capabilities!CapabilityInv, Capabilities!RegistryInv
<1> QED BY <1>1, <1>2, <1>4, RunsKept DEF Capabilities!CapabilityInv

LEMMA GoneStep ==
  ASSUME Capabilities!CapabilityInv, Capabilities!Gone
  PROVE  Capabilities!CapabilityInv'
<1>1. /\ x2 = "quitting" /\ Capabilities!All /\ x2' = "gone"
      /\ UNCHANGED <<x1, x3, x4, x5, x6, x7, x8, x10, x11>>
  BY DEF Capabilities!Gone
<1>2. Capabilities!CapabilityTypeOK'
  BY <1>1 DEF Capabilities!CapabilityInv, Capabilities!CapabilityTypeOK
<1>3. Capabilities!RegistryInv'
  BY <1>1 DEF Capabilities!CapabilityInv, Capabilities!RegistryInv, Capabilities!All
<1> QED BY <1>1, <1>2, <1>3, RunsKept DEF Capabilities!CapabilityInv

\* The program ends under a run: it is aborted.
LEMMA QuitStep ==
  ASSUME Capabilities!CapabilityInv, Capabilities!Quit
  PROVE  Capabilities!CapabilityInv'
<1>1. /\ x2 = "running" /\ x2' = "quitting" /\ x5' = 0
      /\ UNCHANGED <<x1, x3, x4, x6, x7, x8, x11>>
      /\ x10' = [x10 EXCEPT !.aborted = @ \/ x10.stage # "none"]
  BY DEF Capabilities!Quit
<1>2. Capabilities!CapabilityTypeOK'
  <2>1. (x10.aborted \/ x10.stage # "none") \in BOOLEAN
    OBVIOUS
  <2>2. PICK b \in BOOLEAN : x10' = [x10 EXCEPT !.aborted = b]
    BY <1>1, <2>1
  <2>3. x5' \in 0..Len(Providers) /\ x2' \in {"quitting"}
    BY <1>1, ProvidersListed
  <2> QED BY <1>1, <2>2, <2>3 DEF Capabilities!CapabilityInv, Capabilities!CapabilityTypeOK
<1>3. Capabilities!RegistryInv'
  <2>1. Capabilities!Through(x5') = {}
    BY <1>1, ProvidersListed
  <2> QED BY <1>1, <2>1 DEF Capabilities!CapabilityInv, Capabilities!RegistryInv
<1>4. Capabilities!RunInv'
  <2>1. /\ x10'.stage = x10.stage /\ x10'.at = x10.at /\ x10'.prepared = x10.prepared
        /\ x10'.offered = x10.offered /\ x10'.gate = x10.gate /\ x10'.told = x10.told
        /\ x10'.outcome = x10.outcome
    BY <1>1 DEF Capabilities!CapabilityInv, Capabilities!CapabilityTypeOK
  <2> QED BY <1>1, <2>1 DEF Capabilities!CapabilityInv, Capabilities!RunInv, Capabilities!Offered, Capabilities!Resolved, Capabilities!Known
<1> QED BY <1>2, <1>3, <1>4 DEF Capabilities!CapabilityInv

----------------------------------------------------------------------------
\* Steps of runs and permissions leave the composition alone.
LEMMA RegistryKept ==
  ASSUME Capabilities!CapabilityInv, UNCHANGED Capabilities!appVars
  PROVE  Capabilities!RegistryInv'
BY DEF Capabilities!CapabilityInv, Capabilities!RegistryInv, Capabilities!appVars, Capabilities!All

LEMMA PermitStep ==
  ASSUME Capabilities!CapabilityInv, Capabilities!Permit
  PROVE  Capabilities!CapabilityInv'
<1>1. UNCHANGED <<Capabilities!appVars, x10, x11>> /\ x8' \in [ToolName -> {Unused, "allow", "deny"}]
  BY DEF Capabilities!Permit, Capabilities!CapabilityInv, Capabilities!CapabilityTypeOK
<1>2. Capabilities!CapabilityTypeOK'
  BY <1>1 DEF Capabilities!CapabilityInv, Capabilities!CapabilityTypeOK, Capabilities!appVars
<1> QED BY <1>1, <1>2, RegistryKept, RunsKept DEF Capabilities!CapabilityInv, Capabilities!appVars

LEMMA RunStartsStep ==
  ASSUME Capabilities!CapabilityInv, Capabilities!RunStarts
  PROVE  Capabilities!CapabilityInv'
<1>1. /\ x2 = "running" /\ x10.stage = "none" /\ UNCHANGED <<Capabilities!appVars, x8, x11>>
      /\ x10' = [x10 EXCEPT !.stage = "preparing", !.offered = Capabilities!Offered(x8), !.gate = x8]
  BY DEF Capabilities!RunStarts, Capabilities!Unmoved
<1>2. Capabilities!CapabilityTypeOK'
  <2>1. Capabilities!Offered(x8) \in SUBSET ToolName
    BY DEF Capabilities!Offered
  <2> QED BY <1>1, <2>1 DEF Capabilities!CapabilityInv, Capabilities!CapabilityTypeOK, Capabilities!appVars
<1>3. Capabilities!RunInv'
  <2> DEFINE offered == Capabilities!Offered(x8)
  <2>1. /\ x10'.stage = "preparing" /\ x10'.offered = offered
        /\ x10'.gate = x8 /\ x10'.told = x10.told /\ x11' = {}
    BY <1>1 DEF Capabilities!CapabilityInv, Capabilities!CapabilityTypeOK, Capabilities!RunInv
  <2>2. offered = Capabilities!Offered(x10.gate)'
    BY <1>1, <2>1 DEF Capabilities!Offered, Capabilities!Resolved, Capabilities!Known, Capabilities!appVars
  <2>3. x2' = "running"
    BY <1>1 DEF Capabilities!appVars
  <2> QED BY <1>1, <2>1, <2>2, <2>3 DEF Capabilities!CapabilityInv, Capabilities!RunInv
<1> QED BY <1>1, <1>2, <1>3, RegistryKept DEF Capabilities!CapabilityInv

\* Who is told what, after a step of the run.
RunToldNow(r) ==
  /\ \A p \in Capabilities!Provider :
       r.told[p] = IF /\ r.stage \in {"finishing", "ended"}
                      /\ p \in r.prepared /\ p \in Capabilities!Through(r.at)
                   THEN <<r.outcome>> ELSE <<>>
  /\ r.stage = "ended" => r.at = Len(Providers)
  /\ r.stage \in {"finishing", "ended"} => r.outcome \in {"aborted", "completed", "failed"}

LEMMA RunGoesOn ==
  ASSUME Capabilities!CapabilityInv, UNCHANGED <<Capabilities!appVars, x8, x11>>, Capabilities!CapabilityTypeOK',
         x10.stage # "none", x10'.stage # "none",
         x10'.offered = x10.offered, x10'.gate = x10.gate, RunToldNow(x10')
  PROVE  Capabilities!CapabilityInv'
<1>1. Capabilities!RunInv'
  BY DEF Capabilities!CapabilityInv, Capabilities!RunInv, RunToldNow, Capabilities!Offered, Capabilities!Resolved, Capabilities!Known, Capabilities!appVars
<1> QED BY <1>1, RegistryKept DEF Capabilities!CapabilityInv

LEMMA PreparesStep ==
  ASSUME Capabilities!CapabilityInv, Capabilities!Prepares
  PROVE  Capabilities!CapabilityInv'
<1>1. /\ x10.stage = "preparing" /\ UNCHANGED <<Capabilities!appVars, x8, x11>>
      /\ x10.at \in 0..Len(Providers)
  BY DEF Capabilities!Prepares, Capabilities!RunStep, Capabilities!Unmoved, Capabilities!CapabilityInv, Capabilities!CapabilityTypeOK
<1>2. PICK stage \in {"preparing", "running"}, at \in 0..Len(Providers), prepared \in SUBSET Capabilities!Provider :
        x10' = [x10 EXCEPT !.stage = stage, !.at = at, !.prepared = prepared]
  <2>1. CASE x10.at = Len(Providers)
    <3>1. x10' = [x10 EXCEPT !.stage = "running", !.at = 0]
      BY <2>1 DEF Capabilities!Prepares
    <3>2. x10' = [x10 EXCEPT !.stage = "running", !.at = 0, !.prepared = x10.prepared]
      BY <3>1 DEF Capabilities!CapabilityInv, Capabilities!CapabilityTypeOK
    <3>3. 0 \in 0..Len(Providers) /\ x10.prepared \in SUBSET Capabilities!Provider
      BY ProvidersListed DEF Capabilities!CapabilityInv, Capabilities!CapabilityTypeOK
    <3> QED BY <3>2, <3>3
  <2>2. CASE x10.at # Len(Providers)
    <3>1. PICK prepared \in {x10.prepared, x10.prepared \cup {Providers[x10.at + 1]}} :
            x10' = [x10 EXCEPT !.at = x10.at + 1, !.prepared = prepared]
      BY <2>2 DEF Capabilities!Prepares
    <3>2. x10.at + 1 \in 0..Len(Providers) /\ prepared \in SUBSET Capabilities!Provider
      BY <1>1, <2>2, ProvidersListed DEF Capabilities!CapabilityInv, Capabilities!CapabilityTypeOK
    <3>3. x10' = [x10 EXCEPT !.stage = "preparing", !.at = x10.at + 1, !.prepared = prepared]
      BY <1>1, <3>1 DEF Capabilities!CapabilityInv, Capabilities!CapabilityTypeOK
    <3> QED BY <3>2, <3>3
  <2> QED BY <2>1, <2>2
<1>3. /\ Capabilities!CapabilityTypeOK' /\ x10'.stage = stage /\ x10'.told = x10.told
      /\ x10'.offered = x10.offered /\ x10'.gate = x10.gate
  BY <1>1, <1>2 DEF Capabilities!CapabilityInv, Capabilities!CapabilityTypeOK, Capabilities!appVars
<1>4. RunToldNow(x10')
  BY <1>1, <1>3 DEF Capabilities!CapabilityInv, Capabilities!RunInv, RunToldNow
<1> QED BY <1>1, <1>3, <1>4, RunGoesOn

\* Back to the end of the run, which tells nobody anything yet.
LEMMA StageStep ==
  ASSUME Capabilities!CapabilityInv, Capabilities!AnswersRun \/ Capabilities!Unwinds
  PROVE  Capabilities!CapabilityInv'
<1>1. x10.stage = "running" /\ UNCHANGED <<Capabilities!appVars, x8, x11>>
  BY DEF Capabilities!AnswersRun, Capabilities!Unwinds, Capabilities!RunStep, Capabilities!Unmoved
<1>2. PICK stage \in {"running", "ending"}, answered \in BOOLEAN :
        x10' = [x10 EXCEPT !.stage = stage, !.answered = answered]
  <2>1. CASE Capabilities!AnswersRun
    <3>1. x10' = [x10 EXCEPT !.answered = TRUE]
      BY <2>1 DEF Capabilities!AnswersRun
    <3>2. x10' = [x10 EXCEPT !.stage = "running", !.answered = TRUE]
      BY <1>1, <3>1 DEF Capabilities!CapabilityInv, Capabilities!CapabilityTypeOK
    <3> QED BY <3>2
  <2>2. CASE Capabilities!Unwinds
    <3>1. x10' = [x10 EXCEPT !.stage = "ending"]
      BY <2>2 DEF Capabilities!Unwinds
    <3>2. x10' = [x10 EXCEPT !.stage = "ending", !.answered = x10.answered]
      BY <3>1 DEF Capabilities!CapabilityInv, Capabilities!CapabilityTypeOK
    <3>3. x10.answered \in BOOLEAN
      BY DEF Capabilities!CapabilityInv, Capabilities!CapabilityTypeOK
    <3> QED BY <3>2, <3>3
  <2> QED BY <2>1, <2>2
<1>3. /\ Capabilities!CapabilityTypeOK' /\ x10'.stage = stage /\ x10'.told = x10.told
      /\ x10'.offered = x10.offered /\ x10'.gate = x10.gate
  BY <1>1, <1>2 DEF Capabilities!CapabilityInv, Capabilities!CapabilityTypeOK, Capabilities!appVars
<1>4. RunToldNow(x10')
  BY <1>1, <1>3 DEF Capabilities!CapabilityInv, Capabilities!RunInv, RunToldNow
<1> QED BY <1>1, <1>3, <1>4, RunGoesOn

LEMMA AbortsStep ==
  ASSUME Capabilities!CapabilityInv, Capabilities!Aborts
  PROVE  Capabilities!CapabilityInv'
<1>1. /\ x10.stage # "none" /\ UNCHANGED <<Capabilities!appVars, x8, x11>>
      /\ x10' = [x10 EXCEPT !.aborted = TRUE]
  BY DEF Capabilities!Aborts, Capabilities!Unmoved
<1>2. /\ Capabilities!CapabilityTypeOK' /\ x10'.stage = x10.stage /\ x10'.told = x10.told
      /\ x10'.offered = x10.offered /\ x10'.gate = x10.gate /\ x10'.at = x10.at
      /\ x10'.prepared = x10.prepared /\ x10'.outcome = x10.outcome
  BY <1>1 DEF Capabilities!CapabilityInv, Capabilities!CapabilityTypeOK, Capabilities!appVars
<1>3. RunToldNow(x10')
  BY <1>2 DEF Capabilities!CapabilityInv, Capabilities!RunInv, RunToldNow
<1> QED BY <1>1, <1>2, <1>3, RunGoesOn

LEMMA FinishingStep ==
  ASSUME Capabilities!CapabilityInv, Capabilities!Finishing
  PROVE  Capabilities!CapabilityInv'
<1>1. /\ x10.stage = "ending" /\ UNCHANGED <<Capabilities!appVars, x8, x11>>
      /\ x10' = [x10 EXCEPT !.stage = "finishing", !.at = 0, !.outcome = Capabilities!OutcomeOf(x10)]
  BY DEF Capabilities!Finishing, Capabilities!RunStep, Capabilities!Unmoved
<1>2. /\ Capabilities!OutcomeOf(x10) \in {"aborted", "completed", "failed"}
      /\ 0 \in 0..Len(Providers) /\ Capabilities!Through(0) = {}
  BY ProvidersListed DEF Capabilities!OutcomeOf
<1>3. PICK outcome \in {"aborted", "completed", "failed"} :
        x10' = [x10 EXCEPT !.stage = "finishing", !.at = 0, !.outcome = outcome]
  BY <1>1, <1>2
<1>4. /\ Capabilities!CapabilityTypeOK' /\ x10'.stage = "finishing" /\ x10'.told = x10.told
      /\ x10'.offered = x10.offered /\ x10'.gate = x10.gate /\ x10'.at = 0
      /\ x10'.outcome = outcome
  BY <1>1, <1>2, <1>3 DEF Capabilities!CapabilityInv, Capabilities!CapabilityTypeOK, Capabilities!appVars
<1>5. RunToldNow(x10')
  BY <1>1, <1>2, <1>4 DEF Capabilities!CapabilityInv, Capabilities!RunInv, RunToldNow
<1> QED BY <1>1, <1>4, <1>5, RunGoesOn

LEMMA CallsStep ==
  ASSUME Capabilities!CapabilityInv, NEW t \in ToolName, Capabilities!Calls(t)
  PROVE  Capabilities!CapabilityInv'
<1>1. /\ x10.stage = "running" /\ UNCHANGED <<Capabilities!appVars, x8>>
      /\ Capabilities!Known(t) /\ Capabilities!Gate(t) # "deny" /\ t \notin InternalTool
      /\ x11' = x11 \cup {[tool |-> t, by |-> x4[t]]}
      /\ Capabilities!Alive
  BY DEF Capabilities!Calls, Capabilities!RunStep, Capabilities!Unmoved
<1>2. PICK stage \in {"running", "ending"} : x10' = [x10 EXCEPT !.stage = stage]
  <2>1. CASE UNCHANGED x10
    <3>1. x10' = [x10 EXCEPT !.stage = "running"]
      BY <1>1, <2>1 DEF Capabilities!CapabilityInv, Capabilities!CapabilityTypeOK
    <3> QED BY <3>1
  <2>2. CASE x10' = [x10 EXCEPT !.stage = "ending"]
    BY <2>2
  <2> QED BY <2>1, <2>2 DEF Capabilities!Calls
<1>3. /\ Capabilities!CapabilityTypeOK' /\ x10'.stage = stage /\ x10'.told = x10.told
      /\ x10'.offered = x10.offered /\ x10'.gate = x10.gate
  BY <1>1, <1>2 DEF Capabilities!CapabilityInv, Capabilities!CapabilityTypeOK, Capabilities!appVars
<1>4. t \in x10.offered /\ x4[t] # Unused
  BY <1>1 DEF Capabilities!CapabilityInv, Capabilities!RunInv, Capabilities!Offered, Capabilities!Gate, Capabilities!Known
<1>5. \A e \in x11' : /\ e.tool \in x10'.offered /\ e.by = x4'[e.tool] /\ e.by # Unused
  BY <1>1, <1>3, <1>4 DEF Capabilities!CapabilityInv, Capabilities!RunInv, Capabilities!appVars
<1>6. RunToldNow(x10')
  BY <1>1, <1>3 DEF Capabilities!CapabilityInv, Capabilities!RunInv, RunToldNow
<1>7. Capabilities!RunInv'
  BY <1>1, <1>3, <1>5, <1>6
     DEF Capabilities!CapabilityInv, Capabilities!RunInv, RunToldNow, Capabilities!Offered, Capabilities!Resolved, Capabilities!Known, Capabilities!appVars, Capabilities!Alive
<1> QED BY <1>1, <1>3, <1>7, RegistryKept DEF Capabilities!CapabilityInv

\* One provider more is told, or the run has ended: no provider is told twice,
\* for none is registered twice.
LEMMA FinishesStep ==
  ASSUME Capabilities!CapabilityInv, Capabilities!Finishes
  PROVE  Capabilities!CapabilityInv'
<1>1. /\ x10.stage = "finishing" /\ UNCHANGED <<Capabilities!appVars, x8, x11>>
      /\ x10.at \in 0..Len(Providers) /\ Capabilities!Alive
      /\ x10.outcome \in {"aborted", "completed", "failed"}
  BY DEF Capabilities!Finishes, Capabilities!RunStep, Capabilities!Unmoved, Capabilities!CapabilityInv, Capabilities!CapabilityTypeOK, Capabilities!RunInv
<1>2. CASE x10.at >= Len(Providers)
  <2>1. x10' = [x10 EXCEPT !.stage = "ended"] /\ x10.at = Len(Providers)
    BY <1>1, <1>2, ProvidersListed DEF Capabilities!Finishes
  <2>2. /\ Capabilities!CapabilityTypeOK' /\ x10'.stage = "ended" /\ x10'.told = x10.told
        /\ x10'.offered = x10.offered /\ x10'.gate = x10.gate /\ x10'.at = x10.at
        /\ x10'.prepared = x10.prepared /\ x10'.outcome = x10.outcome
    BY <1>1, <2>1 DEF Capabilities!CapabilityInv, Capabilities!CapabilityTypeOK, Capabilities!appVars
  <2>3. RunToldNow(x10')
    BY <1>1, <2>1, <2>2 DEF Capabilities!CapabilityInv, Capabilities!RunInv, RunToldNow
  <2> QED BY <1>1, <2>2, <2>3, RunGoesOn
<1>3. CASE ~(x10.at >= Len(Providers))
  <2> DEFINE p == Providers[x10.at + 1]
             list == IF p \in x10.prepared THEN Append(x10.told[p], x10.outcome) ELSE x10.told[p]
  <2>1. x10' = [x10 EXCEPT !.at = x10.at + 1, !.told[p] = list]
    BY <1>3 DEF Capabilities!Finishes
  <2>2. /\ p \in Capabilities!Provider /\ x10.at + 1 \in 0..Len(Providers) /\ x10.at # Len(Providers)
        /\ Capabilities!Through(x10.at + 1) = Capabilities!Through(x10.at) \cup {p}
    <3>1. /\ x10.at + 1 \in 0..Len(Providers) /\ x10.at # Len(Providers)
          /\ x10.at + 1 \in 1..Len(Providers)
      BY <1>1, <1>3, ProvidersListed
    <3> QED BY <1>1, <3>1, ProvidersListed
  <2>3. p \notin Capabilities!Through(x10.at)
    <3>1. \A i, j \in 1..Len(Providers) : Providers[i] = Providers[j] => i = j
      BY <1>1 DEF Capabilities!Alive, Capabilities!CapabilityInv, Capabilities!RegistryInv
    <3>2. \A i \in 1..x10.at : i \in 1..Len(Providers) /\ i # x10.at + 1
      BY <1>1, ProvidersListed
    <3>3. x10.at + 1 \in 1..Len(Providers)
      BY <1>1, <1>3, ProvidersListed
    <3> QED BY <3>1, <3>2, <3>3 DEF Capabilities!Through
  <2>4. x10.told[p] = <<>>
    BY <2>2, <2>3 DEF Capabilities!CapabilityInv, Capabilities!RunInv
  <2>5. /\ list = IF p \in x10.prepared THEN <<x10.outcome>> ELSE <<>>
        /\ list \in Seq({"aborted", "completed", "failed"})
    <3>1. Append(<<>>, x10.outcome) = <<x10.outcome>>
      OBVIOUS
    <3>2. /\ <<x10.outcome>> \in Seq({"aborted", "completed", "failed"})
          /\ <<>> \in Seq({"aborted", "completed", "failed"})
      BY <1>1
    <3> QED BY <2>4, <3>1, <3>2
  <2>6. PICK at \in 0..Len(Providers), told \in [Capabilities!Provider -> Seq({"aborted", "completed", "failed"})] :
          /\ at = x10.at + 1 /\ told = [x10.told EXCEPT ![p] = list]
          /\ x10' = [x10 EXCEPT !.at = at, !.told = told]
    <3>1. x10.told \in [Capabilities!Provider -> Seq({"aborted", "completed", "failed"})]
      BY DEF Capabilities!CapabilityInv, Capabilities!CapabilityTypeOK
    <3>2. [x10.told EXCEPT ![p] = list] \in [Capabilities!Provider -> Seq({"aborted", "completed", "failed"})]
      BY <2>5, <3>1
    <3>3. x10' = [x10 EXCEPT !.at = x10.at + 1, !.told = [x10.told EXCEPT ![p] = list]]
      BY <2>1
    <3> QED BY <2>2, <3>2, <3>3
  <2>7. /\ Capabilities!CapabilityTypeOK' /\ x10'.stage = "finishing" /\ x10'.told = told
        /\ x10'.offered = x10.offered /\ x10'.gate = x10.gate /\ x10'.at = at
        /\ x10'.prepared = x10.prepared /\ x10'.outcome = x10.outcome
    BY <1>1, <2>6 DEF Capabilities!CapabilityInv, Capabilities!CapabilityTypeOK, Capabilities!appVars
  <2>8. ASSUME NEW q \in Capabilities!Provider
        PROVE  told[q] = IF q \in x10.prepared /\ q \in Capabilities!Through(at) THEN <<x10.outcome>> ELSE <<>>
    <3>1. x10.told[q] = IF q \in x10.prepared /\ q \in Capabilities!Through(x10.at) THEN <<x10.outcome>> ELSE <<>>
      BY <1>1 DEF Capabilities!CapabilityInv, Capabilities!RunInv
    <3>2. DOMAIN x10.told = Capabilities!Provider
      BY DEF Capabilities!CapabilityInv, Capabilities!CapabilityTypeOK
    <3>3. CASE q = p
      <4>1. told[q] = list /\ q \in Capabilities!Through(at)
        BY <2>2, <2>6, <3>2, <3>3
      <4> QED BY <2>5, <3>3, <4>1
    <3>4. CASE q # p
      <4>1. told[q] = x10.told[q] /\ (q \in Capabilities!Through(at) <=> q \in Capabilities!Through(x10.at))
        BY <2>2, <2>6, <3>2, <3>4
      <4> QED BY <3>1, <4>1
    <3> QED BY <3>3, <3>4
  <2>9. RunToldNow(x10')
    BY <1>1, <2>7, <2>8 DEF RunToldNow
  <2> QED BY <1>1, <2>7, <2>9, RunGoesOn
<1> QED BY <1>2, <1>3

LEMMA CapabilityStep ==
  ASSUME Capabilities!CapabilityInv, [Capabilities!CapabilityNext]_(Capabilities!capabilityVars)
  PROVE  Capabilities!CapabilityInv'
<1>1. CASE UNCHANGED Capabilities!capabilityVars
  <2>1. UNCHANGED <<Capabilities!appVars, x8, x10, x11>>
    BY <1>1 DEF Capabilities!capabilityVars, Capabilities!appVars
  <2>2. Capabilities!CapabilityTypeOK'
    BY <2>1 DEF Capabilities!CapabilityInv, Capabilities!CapabilityTypeOK, Capabilities!appVars
  <2> QED BY <2>1, <2>2, RegistryKept, RunsKept DEF Capabilities!CapabilityInv, Capabilities!appVars
<1>2. CASE Capabilities!CapabilityNext
  BY <1>2, RegisterStep, ComposedStep, StartStep, ComposeStep, QuitStep, DisposeStep, GoneStep,
     PermitStep, RunStartsStep, PreparesStep, CallsStep, StageStep, AbortsStep, FinishingStep,
     FinishesStep DEF Capabilities!CapabilityNext
<1> QED BY <1>1, <1>2

\* What the invariant says of the properties.
LEMMA CapabilitiesDoServe == Capabilities!CapabilityInv => Capabilities!CapabilitiesServe
<1> SUFFICES ASSUME Capabilities!CapabilityInv PROVE Capabilities!CapabilitiesServe
  OBVIOUS
<1> USE DEF Capabilities!CapabilityInv
<1>1. ASSUME NEW e \in x11
      PROVE  {p \in Capabilities!Provider : e.tool \in x1[p].tools} = {e.by}
  <2>1. /\ e.by = x4[e.tool] /\ e.by # Unused /\ e.tool \in ToolName
        /\ x2 \notin {"composing", "starting", "refused"}
    BY DEF Capabilities!RunInv, Capabilities!CapabilityTypeOK
  <2>2. x3 = Capabilities!Provider
    BY <2>1 DEF Capabilities!RegistryInv
  <2>3. e.by \in Capabilities!Provider /\ e.tool \in x1[e.by].tools
    BY <2>1, <2>2 DEF Capabilities!RegistryInv
  <2>4. \A p \in Capabilities!Provider : e.tool \in x1[p].tools => p = e.by
    BY <2>1, <2>2 DEF Capabilities!RegistryInv
  <2> QED BY <2>3, <2>4
<1>2. Capabilities!OnlyOfferedRuns
  BY DEF Capabilities!RunInv, Capabilities!OnlyOfferedRuns
<1>3. Capabilities!ToldOnceTheSame
  BY ProvidersListed DEF Capabilities!RunInv, Capabilities!ToldOnceTheSame
<1>4. Capabilities!WorkStops
  BY ProvidersListed DEF Capabilities!RegistryInv, Capabilities!CapabilityTypeOK, Capabilities!WorkStops, Capabilities!All
<1> QED BY <1>1, <1>2, <1>3, <1>4 DEF Capabilities!CapabilitiesServe, Capabilities!ExecutedByItsOwner

CapabilityPart == part = "capabilities" => Capabilities!CapabilityInv

LEMMA CapabilitiesAlone ==
  part = "capabilities" /\ [Next]_all =>
    [Capabilities!CapabilityNext]_(Capabilities!capabilityVars)
BY DEF Next, all, Capabilities!capabilityVars

\* A call is executed by the one provider that defines its tool, of the tools
\* the run was offered; a run's end is told once and alike to all who prepared
\* it, and the end of the program stops all work but that of providers that fail
\* to (CapabilityRegistry, ToolRegistry).
THEOREM CapabilitiesAlwaysServe == Spec => []CapabilitiesServe
<1>1. Init => CapabilityPart
  BY CapabilityInitially DEF Init, CapabilityPart
<1>2. CapabilityPart /\ [Next]_all => CapabilityPart'
  BY PartStays, CapabilitiesAlone, CapabilityStep DEF CapabilityPart
<1>3. CapabilityPart => CapabilitiesServe
  BY CapabilitiesDoServe DEF CapabilityPart, CapabilitiesServe
<1> QED BY <1>1, <1>2, <1>3, PTL DEF Spec
=============================================================================
