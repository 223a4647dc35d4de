-------------------------- MODULE ToolParts_proofs --------------------------
(***************************************************************************)
(* Proofs about the two parts that ToolExecution drives together, each on  *)
(* its own.  DocumentOperationCoordinator: the chain of promises is always *)
(* in order (ChainInv), from which mutual exclusion, the absence of leaked *)
(* map entries and first-come-first-served follow.  ExecutionLedger: the   *)
(* file never gets ahead of memory, and a verdict that reached it stands.  *)
(***************************************************************************)
EXTENDS DocumentOperationCoordinator, ExecutionLedger, TLAPS

\* The chain starts in order.
LEMMA ChainInit == CoordinatorInit => ChainInv
BY NoCallAssumption
   DEF CoordinatorInit, ChainInv, CoordinatorTypeOK, Phase, Active, Chained, LastInLine

\* Chaining behind the tail keeps the line in order: the newcomer gets the
\* largest ticket and waits for the one who was last.
LEMMA ChainKeepsInv ==
  ASSUME ChainInv, NEW c \in Call, NEW k \in Key, Chain(c, k)
  PROVE  ChainInv'
<1> USE NoCallAssumption
<1>1. CoordinatorTypeOK'
  BY DEF ChainInv, CoordinatorTypeOK, Chain, Phase, LastInLine, Chained
<1>2. /\ phase[c] = "out" /\ phase' = [phase EXCEPT ![c] = "waiting"]
      /\ keyOf' = [keyOf EXCEPT ![c] = k]
      /\ previous' = [previous EXCEPT ![c] = tails[k]]
      /\ tails' = [tails EXCEPT ![k] = c]
      /\ CoordinatorTypeOK
  BY DEF Chain, ChainInv
<1>3. \A d \in Chained(k) : ticket'[d] < ticket'[c]
  BY <1>2 DEF Chain, ChainInv, LastInLine, CoordinatorTypeOK, Chained, Active
<1>4. \A d \in Call : d # c =>
        ticket'[d] = ticket[d] /\ (Active(d)' <=> Active(d)) /\ keyOf'[d] = keyOf[d]
  BY DEF Chain, ChainInv, CoordinatorTypeOK, Active
<1>5. Active(c)' /\ keyOf'[c] = k /\ ~Active(c)
  BY <1>2 DEF CoordinatorTypeOK, Active
<1>6. /\ Chained(k)' = Chained(k) \cup {c}
      /\ \A j \in Key : j # k => Chained(j)' = Chained(j)
  BY <1>4, <1>5 DEF Chained
<1>7. ASSUME NEW d \in Call, Active(d)'
      PROVE  InLine(d)'
  <2>1. CASE d = c
    <3>1. CASE tails[k] = NoCall
      BY <2>1, <3>1, <1>2, <1>3, <1>5, <1>6, <1>1
         DEF InLine, PreviousResolved, ChainInv, LastInLine, CoordinatorTypeOK
    <3>2. CASE tails[k] # NoCall
      <4>1. /\ tails[k] \in Chained(k)
            /\ \A e \in Chained(k) : ticket[e] <= ticket[tails[k]]
        BY <3>2 DEF ChainInv, LastInLine
      <4>2. previous'[c] = tails[k] /\ tails[k] # c /\ phase'[tails[k]] # "released"
        BY <4>1, <1>2, <1>5 DEF CoordinatorTypeOK, Chained, Active
      <4>3. ~PreviousResolved(c)'
        BY <4>2, <3>2 DEF PreviousResolved
      <4>4. phase'[c] # "running"
        BY <1>2 DEF CoordinatorTypeOK
      <4> QED
        BY <2>1, <4>1, <4>2, <4>3, <4>4, <1>1, <1>3, <1>4, <1>5, <1>6
           DEF InLine, CoordinatorTypeOK, Chained
    <3> QED BY <3>1, <3>2
  <2>2. CASE d # c
    <3>1. InLine(d) /\ Active(d)
      BY <2>2, <1>4, <1>7 DEF ChainInv
    <3>2. /\ previous'[d] = previous[d] /\ phase'[d] = phase[d]
          /\ previous[d] # c
          /\ PreviousResolved(d)' <=> PreviousResolved(d)
      BY <3>1, <2>2, <1>2, <1>5
         DEF InLine, PreviousResolved, Chained, Active, CoordinatorTypeOK
    <3>3. CASE keyOf[d] = k
      BY <3>1, <3>2, <3>3, <2>2, <1>1, <1>2, <1>3, <1>4, <1>5, <1>6
         DEF InLine, Chained, CoordinatorTypeOK
    <3>4. CASE keyOf[d] # k
      BY <3>1, <3>2, <3>4, <2>2, <1>1, <1>2, <1>4, <1>6
         DEF InLine, Chained, CoordinatorTypeOK
    <3> QED BY <3>3, <3>4
  <2> QED BY <2>1, <2>2
<1>8. ASSUME NEW j \in Key
      PROVE  LastInLine(j)'
  <2>1. CASE j = k
    BY <2>1, <1>1, <1>2, <1>3, <1>6 DEF LastInLine, CoordinatorTypeOK, Chained
  <2>2. CASE j # k
    BY <2>2, <1>2, <1>4, <1>5, <1>6 DEF LastInLine, ChainInv, CoordinatorTypeOK, Chained
  <2> QED BY <2>1, <2>2
<1> QED BY <1>1, <1>7, <1>8 DEF ChainInv

\* Entering changes nobody's place.
LEMMA EnterKeepsInv ==
  ASSUME ChainInv, NEW c \in Call, Enter(c)
  PROVE  ChainInv'
<1> USE NoCallAssumption
<1>1. CoordinatorTypeOK'
  BY DEF ChainInv, CoordinatorTypeOK, Enter, Phase
<1>2. /\ \A d \in Call : (Active(d)' <=> Active(d)) /\ (d # c => phase'[d] = phase[d])
      /\ \A d \in Call : phase'[d] = "released" <=> phase[d] = "released"
      /\ \A k : Chained(k)' = Chained(k)
      /\ UNCHANGED <<keyOf, tails, previous, ticket>>
  BY DEF Enter, ChainInv, CoordinatorTypeOK, Active, Chained
<1>3. \A d \in Call : PreviousResolved(d)' <=> PreviousResolved(d)
  BY <1>2 DEF PreviousResolved, ChainInv, CoordinatorTypeOK
<1>4. \A d \in Call : Active(d)' => InLine(d)'
  BY <1>2, <1>3 DEF ChainInv, InLine, Enter
<1>5. \A k \in Key : LastInLine(k)'
  BY <1>2 DEF ChainInv, LastInLine
<1> QED BY <1>1, <1>4, <1>5 DEF ChainInv

\* The one who leaves was first, so its successor is first now.
LEMMA ReleaseKeepsInv ==
  ASSUME ChainInv, NEW c \in Call, Release(c)
  PROVE  ChainInv'
<1> USE NoCallAssumption
<1>1. /\ Active(c) /\ InLine(c) /\ keyOf[c] \in Key
      /\ CoordinatorTypeOK
      /\ PreviousResolved(c)
  BY DEF Release, ChainInv, Active, InLine
<1>2. /\ phase' = [phase EXCEPT ![c] = "released"]
      /\ UNCHANGED <<keyOf, previous, ticket>>
      /\ tails' = IF tails[keyOf[c]] = c THEN [tails EXCEPT ![keyOf[c]] = NoCall] ELSE tails
  BY DEF Release
<1>3. CoordinatorTypeOK'
  BY <1>1, <1>2 DEF CoordinatorTypeOK, Phase
<1>4. /\ \A d \in Call : d # c => (Active(d)' <=> Active(d)) /\ phase'[d] = phase[d]
      /\ ~Active(c)' /\ phase'[c] = "released"
  BY <1>1, <1>2 DEF CoordinatorTypeOK, Active
<1>5. \A k : Chained(k)' = Chained(k) \ {c}
  BY <1>2, <1>4 DEF Chained
<1>6. \A d \in Chained(keyOf[c]) : d # c => ticket[c] < ticket[d]
  BY <1>1 DEF InLine, Chained, CoordinatorTypeOK
<1>7. ASSUME NEW d \in Call, Active(d)'
      PROVE  InLine(d)'
  <2>1. d # c /\ Active(d) /\ InLine(d)
    BY <1>4, <1>7 DEF ChainInv
  <2>2. CASE previous[d] = c
    <3>1. PreviousResolved(d)'
      BY <2>2, <1>2, <1>4 DEF PreviousResolved
    <3>2. ~PreviousResolved(d)
      BY <2>2, <1>1 DEF PreviousResolved, Active
    <3>3. /\ c \in Chained(keyOf[d])
          /\ \A e \in Chained(keyOf[d]) : ticket[e] <= ticket[c] \/ ticket[d] <= ticket[e]
      BY <2>1, <2>2, <3>2 DEF InLine
    <3>4. \A e \in Chained(keyOf[d])' : ticket[d] <= ticket[e]
      BY <3>3, <1>2, <1>5, <1>6, <1>1 DEF Chained, CoordinatorTypeOK
    <3> QED
      BY <2>1, <3>1, <3>4, <1>2, <1>5 DEF InLine, CoordinatorTypeOK
  <2>3. CASE previous[d] # c
    <3>1. PreviousResolved(d)' <=> PreviousResolved(d)
      BY <2>3, <1>1, <1>2, <1>4 DEF PreviousResolved, CoordinatorTypeOK
    <3> QED
      BY <2>1, <2>3, <3>1, <1>2, <1>4, <1>5 DEF InLine
  <2> QED BY <2>2, <2>3
<1>8. ASSUME NEW k \in Key
      PROVE  LastInLine(k)'
  <2>1. CASE tails[k] = c
    \* last and first at once: nobody else is in line
    <3>1. keyOf[c] = k /\ c \in Chained(k) /\ \A d \in Chained(k) : ticket[d] <= ticket[c]
      BY <2>1 DEF ChainInv, LastInLine, Chained
    <3>2. Chained(k)' = {}
      <4>1. ASSUME NEW d \in Chained(k), d # c PROVE FALSE
        <5>1. ticket[c] \in Nat /\ ticket[d] \in Nat
          BY <1>1, <4>1 DEF Chained, CoordinatorTypeOK
        <5> QED BY <3>1, <1>6, <4>1, <5>1
      <4> QED BY <4>1, <1>5
    <3>3. tails'[k] = NoCall
      BY <2>1, <3>1, <1>1, <1>2 DEF CoordinatorTypeOK
    <3> QED BY <3>2, <3>3 DEF LastInLine
  <2>2. CASE tails[k] # c
    <3>1. tails'[k] = tails[k]
      BY <2>2, <1>1, <1>2 DEF CoordinatorTypeOK
    <3> QED BY <2>2, <3>1, <1>2, <1>5 DEF LastInLine, ChainInv
  <2> QED BY <2>1, <2>2
<1> QED BY <1>3, <1>7, <1>8 DEF ChainInv

\* After a crash nobody is in line.
LEMMA CrashKeepsInv ==
  ASSUME ChainInv, CoordinatorCrash
  PROVE  ChainInv'
<1>1. CoordinatorTypeOK'
  BY DEF CoordinatorCrash, ChainInv, CoordinatorTypeOK, Phase
<1>2. \A c \in Call : ~Active(c)'
  BY DEF CoordinatorCrash, Active
<1> QED
  BY <1>1, <1>2 DEF CoordinatorCrash, ChainInv, LastInLine, Chained

\* Every step of the coordinator keeps the line in order.
LEMMA ChainNext == ChainInv /\ [CoordinatorNext]_coordinatorVars => ChainInv'
<1> SUFFICES ASSUME ChainInv, [CoordinatorNext]_coordinatorVars
             PROVE  ChainInv'
  OBVIOUS
<1>1. CASE UNCHANGED coordinatorVars
  BY <1>1 DEF coordinatorVars, ChainInv, CoordinatorTypeOK, Active, Chained, InLine,
              PreviousResolved, LastInLine
<1>2. CASE CoordinatorNext
  BY <1>2, ChainKeepsInv, EnterKeepsInv, ReleaseKeepsInv DEF CoordinatorNext
<1> QED BY <1>1, <1>2

\* The line of calls on a document is in order at all times.
THEOREM ChainInOrder == CoordinatorSpec => []ChainInv
<1>1. CoordinatorInit => ChainInv
  BY ChainInit
<1>2. ChainInv /\ [CoordinatorNext]_coordinatorVars => ChainInv'
  BY ChainNext
<1> QED BY <1>1, <1>2, PTL DEF CoordinatorSpec

\* In an orderly line only the first runs.
LEMMA InvExcludes == ChainInv => MutualExclusion
<1> SUFFICES ASSUME ChainInv, NEW c \in Call, NEW d \in Call,
                    phase[c] = "running", phase[d] = "running", keyOf[c] = keyOf[d]
             PROVE  c = d
  BY DEF MutualExclusion
<1>1. InLine(c) /\ InLine(d) /\ PreviousResolved(c) /\ PreviousResolved(d)
  BY DEF ChainInv, Active, InLine
<1>2. c \in Chained(keyOf[c]) /\ d \in Chained(keyOf[c])
  BY DEF Chained, Active
<1>3. ticket[c] <= ticket[d] /\ ticket[d] <= ticket[c]
  BY <1>1, <1>2 DEF InLine
<1>4. ticket[c] \in Nat /\ ticket[d] \in Nat
  BY DEF ChainInv, CoordinatorTypeOK
<1> QED BY <1>1, <1>2, <1>3, <1>4 DEF InLine

\* Two modifying operations on one document never run at the same time.
THEOREM Exclusion == CoordinatorSpec => []MutualExclusion
BY ChainInOrder, InvExcludes, PTL

\* The map has an entry for a document exactly while a call is in line for it.
THEOREM TailsAreDropped == CoordinatorSpec => []NoTailLeak
<1>1. ChainInv => NoTailLeak
  BY NoCallAssumption DEF ChainInv, LastInLine, NoTailLeak, Chained
<1> QED BY <1>1, ChainInOrder, PTL

\* The lock is a lock, for any number of calls and documents.
THEOREM LockHolds == CoordinatorSpec => []LockInv
BY ChainInOrder, Exclusion, TailsAreDropped, PTL DEF LockInv

----------------------------------------------------------------------------
(* First come, first served: the steps of the chain are steps of the       *)
(* abstract service.                                                       *)

\* A newcomer finds everybody who is in line ahead of it.
LEMMA ChainJoins ==
  ASSUME ChainInv, NEW c \in Call, NEW k \in Key, Chain(c, k)
  PROVE  Service!Join(c, k)
<1> USE NoCallAssumption
<1>1. /\ phase[c] = "out" /\ phase' = [phase EXCEPT ![c] = "waiting"]
      /\ keyOf' = [keyOf EXCEPT ![c] = k]
      /\ CoordinatorTypeOK
  BY DEF Chain, ChainInv
<1>2. \A d \in Chained(k) : ticket[d] \in Nat /\ ticket[d] < ticket'[c]
  BY <1>1 DEF Chain, ChainInv, LastInLine, CoordinatorTypeOK, Chained, Active
<1>3. \A d \in Call : d # c =>
        ticket'[d] = ticket[d] /\ (Active(d)' <=> Active(d)) /\ keyOf'[d] = keyOf[d]
  BY DEF Chain, ChainInv, CoordinatorTypeOK, Active
<1>4. Active(c)' /\ keyOf'[c] = k /\ ~Active(c) /\ ticket'[c] \in Nat
  BY <1>1 DEF CoordinatorTypeOK, Active, Chain, ChainInv, LastInLine, Chained
<1>5. Ahead'[c] = Chained(k)
  <2>1. Ahead'[c] = {d \in Chained(k)' : ticket'[d] < ticket'[c]}
    BY <1>4 DEF Ahead
  <2>2. Chained(k)' = Chained(k) \cup {c}
    BY <1>3, <1>4 DEF Chained
  <2>3. \A d \in Chained(k) : ticket'[d] = ticket[d]
    BY <1>3, <1>4 DEF Chained
  <2> QED BY <2>1, <2>2, <2>3, <1>2, <1>4
<1>6. ASSUME NEW d \in Call, d # c PROVE Ahead'[d] = Ahead[d]
  <2>1. CASE Active(d)
    <3>1. /\ Ahead'[d] = {e \in Chained(keyOf[d])' : ticket'[e] < ticket[d]}
          /\ Ahead[d] = {e \in Chained(keyOf[d]) : ticket[e] < ticket[d]}
      BY <1>3, <1>6, <2>1 DEF Ahead, Chained
    <3>2. \A e \in Call : e # c =>
            (e \in Chained(keyOf[d])' <=> e \in Chained(keyOf[d])) /\ ticket'[e] = ticket[e]
      BY <1>3, <1>6 DEF Chained
    <3>3. c \notin Chained(keyOf[d])
      BY <1>4 DEF Chained
    <3>4. c \in Chained(keyOf[d])' => ~(ticket'[c] < ticket[d])
      <4>1. c \in Chained(keyOf[d])' => keyOf[d] = k
        BY <1>3, <1>4, <1>6 DEF Chained
      <4>2. keyOf[d] = k => d \in Chained(k)
        BY <2>1 DEF Chained
      <4> QED BY <4>1, <4>2, <1>2, <1>4
    <3>5. Chained(keyOf[d]) \subseteq Call /\ Chained(keyOf[d])' \subseteq Call
      BY DEF Chained
    <3> QED BY <3>1, <3>2, <3>3, <3>4, <3>5
  <2>2. CASE ~Active(d)
    BY <1>3, <1>6, <2>2 DEF Ahead
  <2> QED BY <2>1, <2>2
<1>7. Ahead' = [Ahead EXCEPT ![c] = Chained(k)]
  BY <1>5, <1>6 DEF Ahead
<1> QED BY <1>1, <1>7 DEF Service!Join, Chained, Active

\* Whoever has nothing to await has nobody ahead.
LEMMA EnterStarts ==
  ASSUME ChainInv, NEW c \in Call, Enter(c)
  PROVE  Service!Start(c)
<1>1. Active(c) /\ InLine(c) /\ PreviousResolved(c) /\ CoordinatorTypeOK
  BY DEF Enter, ChainInv, Active
<1>2. Ahead[c] = {}
  <2>1. Ahead[c] = {d \in Chained(keyOf[c]) : ticket[d] < ticket[c]}
    BY <1>1 DEF Ahead
  <2>2. \A d \in Chained(keyOf[c]) :
          ticket[c] <= ticket[d] /\ ticket[c] \in Nat /\ ticket[d] \in Nat
    BY <1>1 DEF InLine, Chained, CoordinatorTypeOK
  <2> QED BY <2>1, <2>2
<1>3. /\ \A d \in Call : Active(d)' <=> Active(d)
      /\ UNCHANGED <<keyOf, ticket>>
  BY DEF Enter, ChainInv, CoordinatorTypeOK, Active
<1>4. \A k : Chained(k)' = Chained(k)
  BY <1>3 DEF Chained
<1>5. Ahead' = Ahead
  BY <1>3, <1>4 DEF Ahead
<1> QED BY <1>2, <1>5 DEF Enter, Service!Start

\* Whoever leaves is ahead of nobody any more.
LEMMA ReleaseLeaves ==
  ASSUME ChainInv, NEW c \in Call, Release(c)
  PROVE  Service!Leave(c)
<1>1. /\ phase' = [phase EXCEPT ![c] = "released"]
      /\ UNCHANGED <<keyOf, ticket>>
      /\ CoordinatorTypeOK /\ PreviousResolved(c) /\ Active(c) /\ InLine(c)
  BY DEF Release, ChainInv, Active, InLine
<1>2. /\ \A d \in Call : d # c => (Active(d)' <=> Active(d))
      /\ ~Active(c)'
  BY <1>1 DEF CoordinatorTypeOK, Active
<1>3. \A k : Chained(k)' = Chained(k) \ {c}
  BY <1>1, <1>2 DEF Chained
<1>4. ASSUME NEW d \in Call PROVE Ahead'[d] = Ahead[d] \ {c}
  <2>1. CASE d = c
    <3>1. Ahead'[c] = {}
      BY <1>2 DEF Ahead
    <3>2. Ahead[c] = {}
      <4>1. Ahead[c] = {e \in Chained(keyOf[c]) : ticket[e] < ticket[c]}
        BY <1>1 DEF Ahead
      <4>2. \A e \in Chained(keyOf[c]) :
              ticket[c] <= ticket[e] /\ ticket[c] \in Nat /\ ticket[e] \in Nat
        BY <1>1 DEF InLine, Chained, CoordinatorTypeOK
      <4> QED BY <4>1, <4>2
    <3> QED BY <2>1, <3>1, <3>2
  <2>2. CASE d # c /\ Active(d)
    <3>1. /\ Ahead'[d] = {e \in Chained(keyOf[d])' : ticket[e] < ticket[d]}
          /\ Ahead[d] = {e \in Chained(keyOf[d]) : ticket[e] < ticket[d]}
      BY <1>1, <1>2, <2>2 DEF Ahead
    <3>2. \A e \in Call :
            e \in Chained(keyOf[d])' <=> e \in Chained(keyOf[d]) /\ e # c
      BY <1>1, <1>2 DEF Chained
    <3>3. Chained(keyOf[d]) \subseteq Call /\ Chained(keyOf[d])' \subseteq Call
      BY DEF Chained
    <3> QED BY <3>1, <3>2, <3>3
  <2>3. CASE d # c /\ ~Active(d)
    BY <1>2, <2>3 DEF Ahead
  <2> QED BY <2>1, <2>2, <2>3
<1>5. Ahead' = [d \in Call |-> Ahead[d] \ {c}]
  BY <1>4 DEF Ahead
<1> QED BY <1>1, <1>5 DEF Release, Service!Leave

\* The calls on a document are served one at a time and in the order they came.
THEOREM FirstComeFirstServed == CoordinatorSpec => Service!Safety
<1>1. CoordinatorInit => Service!Init
  BY DEF CoordinatorInit, Service!Init, Ahead, Active
<1>2. ChainInv /\ [CoordinatorNext]_coordinatorVars => [Service!Next]_(Service!serviceVars)
  <2> SUFFICES ASSUME ChainInv, [CoordinatorNext]_coordinatorVars
               PROVE  [Service!Next]_(Service!serviceVars)
    OBVIOUS
  <2>1. ASSUME NEW c \in Call, NEW k \in Key, Chain(c, k) PROVE Service!Next
    BY <2>1, ChainJoins DEF Service!Next
  <2>2. ASSUME NEW c \in Call, Enter(c) PROVE Service!Next
    BY <2>2, EnterStarts DEF Service!Next
  <2>3. ASSUME NEW c \in Call, Release(c) PROVE Service!Next
    BY <2>3, ReleaseLeaves DEF Service!Next
  <2>4. CASE UNCHANGED coordinatorVars
    BY <2>4 DEF coordinatorVars, Service!serviceVars, Ahead, Chained, Active
  <2> QED BY <2>1, <2>2, <2>3, <2>4 DEF CoordinatorNext
<1> QED BY <1>1, <1>2, ChainInOrder, PTL DEF CoordinatorSpec, Service!Safety

-----------------------------------------------------------------------------
(* The ledger *)

\* One transition of the table leads to a later status.
LEMMA TransitionsAreForward ==
  ASSUME NEW s \in Status, NEW t \in Transitions[s]
  PROVE  t \in Reachable(s) /\ t \in Status
BY DEF Status, Transitions, Reachable, Reached

\* Later than later is later.
LEMMA ReachableTransitive ==
  ASSUME NEW s, NEW t \in Reachable(s), NEW u \in Reachable(t)
  PROVE  u \in Reachable(s)
<1>1. CASE s = "none"
  BY <1>1 DEF Reachable, Status, Reached
<1>2. CASE s # "none"
  BY <1>2 DEF Reachable, Status, Reached
<1> QED BY <1>1, <1>2

\* Follows is transitive, record by record.
LEMMA FollowsTransitive ==
  ASSUME NEW r1, NEW r2, NEW r3, Follows(r3, r2), Follows(r2, r1)
  PROVE  Follows(r3, r1)
BY ReachableTransitive DEF Follows

\* Every table of records follows itself.
LEMMA FollowsReflexive == ASSUME NEW r PROVE Follows(r, r)
BY DEF Follows

\* Recovery only moves records forward.
LEMMA RecoveredFollows ==
  ASSUME NEW r \in Statuses
  PROVE  Recovered(r) \in Statuses /\ Follows(Recovered(r), r)
<1>1. Recovered(r) \in Statuses
  BY DEF Recovered, Statuses, Status
<1>2. "ambiguous" \in Reachable("executing")
  BY DEF Reachable, Reached
<1> QED BY <1>1, <1>2 DEF Recovered, Follows

\* The chain of saves is a sequence of calls, whatever is taken off its front.
LEMMA ChainOfCalls ==
  /\ <<>> \in Seq(Call)
  /\ \A chain \in Seq(Call) : chain # <<>> => Tail(chain) \in Seq(Call)
<1>1. <<>> \in Seq(Call)
  OBVIOUS
<1>2. ASSUME NEW chain \in Seq(Call), chain # <<>> PROVE Tail(chain) \in Seq(Call)
  BY <1>2
<1> QED BY <1>1, <1>2

\* The ledger starts empty, in memory and on disk.
LEMMA LedgerInitInv == LedgerInit => LedgerInv
<1> SUFFICES ASSUME LedgerInit PROVE LedgerInv
  OBVIOUS
<1>1. LedgerTypeOK
  <2>1. crashes \in 0..MaxCrashes /\ failures \in 0..MaxFailures
    BY LedgerConstants DEF LedgerInit
  <2>2. status \in Statuses /\ snapshot \in Statuses /\ file \in Statuses
    BY DEF LedgerInit, Statuses
  <2> QED BY <2>1, <2>2, ChainOfCalls DEF LedgerInit, LedgerTypeOK
<1> QED BY <1>1, FollowsReflexive DEF LedgerInit, LedgerInv, FileNeverAhead

\* A new record is a step forward from no record.
LEMMA BeginKeepsInv ==
  ASSUME LedgerInv, NEW c \in Call, NEW s \in Subject, Begin(c, s)
  PROVE  LedgerInv'
<1>1. LedgerTypeOK'
  BY DEF LedgerInv, LedgerTypeOK, Begin, Persist, Statuses, Status
<1>2. Follows(status', status)
  BY DEF LedgerInv, LedgerTypeOK, Begin, Statuses, Status, Follows, Reachable
<1>3. process = "up" /\ Follows(status, snapshot) /\ Follows(snapshot, file)
  BY DEF Begin, LedgerInv, FileNeverAhead
<1>4. Follows(status', snapshot)
  BY <1>2, <1>3, FollowsTransitive
<1>5. writeTail' # <<>>
  BY DEF Begin, Persist, LedgerInv, LedgerTypeOK
<1> QED BY <1>1, <1>3, <1>4, <1>5 DEF LedgerInv, FileNeverAhead, Begin

\* mark() obeys the transition table.
LEMMA MarkKeepsInv ==
  ASSUME LedgerInv, NEW w \in Call, NEW c \in Call, NEW to \in Status, Mark(w, c, to)
  PROVE  LedgerInv'
<1>1. LedgerTypeOK'
  BY DEF LedgerInv, LedgerTypeOK, Mark, Persist, Statuses
<1>2. Follows(status', status)
  <2>1. status[c] \in Status /\ to \in Transitions[status[c]]
    BY DEF LedgerInv, LedgerTypeOK, Statuses, Mark, CanMark
  <2>2. to \in Reachable(status[c])
    BY <2>1, TransitionsAreForward
  <2>3. status' = [status EXCEPT ![c] = to] /\ status \in [Call -> Status \cup {"none"}]
    BY DEF Mark, LedgerInv, LedgerTypeOK, Statuses
  <2> QED BY <2>2, <2>3 DEF Follows
<1>3. process = "up" /\ Follows(status, snapshot) /\ Follows(snapshot, file)
  BY DEF Mark, LedgerInv, FileNeverAhead
<1>4. Follows(status', snapshot)
  BY <1>2, <1>3, FollowsTransitive
<1>5. writeTail' # <<>>
  BY DEF Mark, Persist, LedgerInv, LedgerTypeOK
<1> QED BY <1>1, <1>3, <1>4, <1>5 DEF LedgerInv, FileNeverAhead, Mark

\* A save that starts, succeeds or fails leaves the file behind memory.
LEMMA SaveKeepsInv ==
  ASSUME LedgerInv, SaveStarts \/ SaveSucceeds \/ SaveFails
  PROVE  LedgerInv'
<1>1. /\ LedgerTypeOK /\ process = "up" /\ process' = "up"
      /\ Follows(status, snapshot) /\ Follows(snapshot, file) /\ status' = status
  BY DEF LedgerInv, FileNeverAhead, SaveStarts, SaveSucceeds, SaveFails
<1>2. Follows(status, file)
  BY <1>1, FollowsTransitive
<1>3. CASE SaveStarts
  <2>1. LedgerTypeOK'
    BY <1>1, <1>3 DEF LedgerTypeOK, SaveStarts
  <2> QED
    BY <2>1, <1>1, <1>2, <1>3, FollowsReflexive DEF LedgerInv, FileNeverAhead, SaveStarts
<1>4. CASE SaveSucceeds
  <2>1. LedgerTypeOK'
    BY <1>1, <1>4, ChainOfCalls DEF LedgerInv, LedgerTypeOK, SaveSucceeds
  <2> QED
    BY <2>1, <1>1, <1>4, FollowsReflexive DEF LedgerInv, FileNeverAhead, SaveSucceeds
<1>5. CASE SaveFails
  <2>1. LedgerTypeOK'
    <3>1. failures' \in 0..MaxFailures
      BY <1>1, <1>5, LedgerConstants DEF LedgerTypeOK, SaveFails
    <3> QED BY <1>1, <1>5, <3>1, ChainOfCalls DEF LedgerInv, LedgerTypeOK, SaveFails
  <2> QED
    BY <2>1, <1>1, <1>2, <1>5, FollowsReflexive DEF LedgerInv, FileNeverAhead, SaveFails
<1> QED BY <1>3, <1>4, <1>5

\* A crash forgets memory, a restart brings it back from the file.
LEMMA CrashRestartKeepInv ==
  ASSUME LedgerInv, LedgerCrash \/ LedgerRestart \/ RecoverySaved
  PROVE  LedgerInv'
<1>1. LedgerTypeOK
  BY DEF LedgerInv
<1>2. CASE LedgerCrash
  <2>1. LedgerTypeOK'
    <3>1. crashes' \in 0..MaxCrashes
      BY <1>1, <1>2, LedgerConstants DEF LedgerTypeOK, LedgerCrash
    <3>2. status' \in Statuses
      BY <1>2 DEF LedgerCrash, Statuses
    <3> QED BY <1>1, <1>2, <3>1, <3>2, ChainOfCalls DEF LedgerTypeOK, LedgerCrash
  <2> QED BY <2>1, <1>2 DEF LedgerInv, FileNeverAhead, LedgerCrash
<1>3. CASE LedgerRestart
  <2>1. Recovered(file) \in Statuses /\ Follows(Recovered(file), file)
    BY <1>1, RecoveredFollows DEF LedgerTypeOK
  <2>2. LedgerTypeOK'
    BY <1>1, <1>3, <2>1 DEF LedgerTypeOK, LedgerRestart
  <2>3. snapshot = file /\ ~saving /\ writeTail = <<>>
    BY <1>3 DEF LedgerInv, LedgerRestart
  <2> QED
    BY <2>1, <2>2, <2>3, <1>3, FollowsReflexive DEF LedgerInv, FileNeverAhead, LedgerRestart
<1>4. CASE RecoverySaved
  <2>1. LedgerTypeOK'
    BY <1>1, <1>4 DEF LedgerTypeOK, RecoverySaved
  <2>2. ~saving /\ writeTail = <<>>
    BY <1>4 DEF LedgerInv, RecoverySaved
  <2> QED
    BY <2>1, <2>2, <1>4, FollowsReflexive DEF LedgerInv, FileNeverAhead, RecoverySaved
<1> QED BY <1>2, <1>3, <1>4

\* Every step of the ledger preserves its invariant.
LEMMA LedgerNextInv == LedgerInv /\ [LedgerNext]_ledgerVars => LedgerInv'
<1> SUFFICES ASSUME LedgerInv, [LedgerNext]_ledgerVars PROVE LedgerInv'
  OBVIOUS
<1>1. CASE UNCHANGED ledgerVars
  BY <1>1 DEF ledgerVars, LedgerInv, LedgerTypeOK, FileNeverAhead
<1>2. CASE LedgerNext
  BY <1>2, BeginKeepsInv, MarkKeepsInv, SaveKeepsInv, CrashRestartKeepInv DEF LedgerNext
<1> QED BY <1>1, <1>2

\* The invariant holds throughout.
THEOREM LedgerAlwaysInv == LedgerSpec => []LedgerInv
BY LedgerInitInv, LedgerNextInv, PTL DEF LedgerSpec

\* The file is only ever behind memory.
THEOREM FileIsBehind == LedgerSpec => []FileNeverAhead
<1>1. LedgerInv => FileNeverAhead
  BY DEF LedgerInv
<1> QED BY <1>1, LedgerAlwaysInv, PTL

\* What follows a verdict is the verdict, or the resolution of an ambiguous one.
LEMMA VerdictsAreFinal ==
  ASSUME NEW s \in Terminal, NEW t \in Reachable(s)
  PROVE  s = "ambiguous" /\ t = "resolved"
BY DEF Terminal, Reachable

\* A step that replaces the file by the snapshot under way, by the recovered
\* records, or not at all, leaves the verdicts on disk as they are.
LEMMA StepsKeepVerdicts ==
  ASSUME LedgerInv, SaveSucceeds \/ RecoverySaved \/ UNCHANGED file
  PROVE  \A c \in Call : file[c] \in Terminal =>
           \/ file'[c] = file[c]
           \/ file[c] = "ambiguous" /\ file'[c] = "resolved"
<1>1. Follows(file', file)
  <2>1. CASE SaveSucceeds
    BY <2>1 DEF SaveSucceeds, LedgerInv, FileNeverAhead
  <2>2. CASE RecoverySaved
    <3>1. Follows(status, snapshot) /\ Follows(snapshot, file)
      BY <2>2 DEF RecoverySaved, LedgerInv, FileNeverAhead
    <3> QED BY <3>1, <2>2, FollowsTransitive DEF RecoverySaved
  <2>3. CASE UNCHANGED file
    BY <2>3, FollowsReflexive
  <2> QED BY <2>1, <2>2, <2>3
<1> QED BY <1>1, VerdictsAreFinal DEF Follows

\* A verdict on disk changes in no step, crashes and restarts included, but for
\* the resolution of an ambiguous one.
THEOREM VerdictsStand == LedgerSpec => DurableVerdictStable
<1>1. LedgerInv /\ LedgerNext =>
        \A c \in Call : file[c] \in Terminal =>
          \/ file'[c] = file[c]
          \/ file[c] = "ambiguous" /\ file'[c] = "resolved"
  BY StepsKeepVerdicts DEF LedgerNext, Begin, Mark, SaveStarts, SaveFails, LedgerCrash,
                           LedgerRestart
<1> QED BY <1>1, LedgerAlwaysInv, PTL DEF LedgerSpec, DurableVerdictStable
=============================================================================
