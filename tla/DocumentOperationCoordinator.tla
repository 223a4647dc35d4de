-------------------- MODULE DocumentOperationCoordinator --------------------
(***************************************************************************)
(* The in-process lock that serialises modifying Navisworks operations     *)
(* (agent/executionLedger.ts, class DocumentOperationCoordinator).         *)
(*                                                                         *)
(* The class keeps one map, key -> last promise of a chain.  A caller      *)
(* chains its own gate behind the promise it finds there, awaits that      *)
(* promise, runs its task and opens its gate in `finally`.  There is no    *)
(* queue object and no holder field: exclusion has to follow from how the  *)
(* promises are chained, which is what the theorems about this module say. *)
(*                                                                         *)
(* A chained promise is named by the call that created it; it is resolved  *)
(* exactly when the promise before it is and its own gate is open, and a   *)
(* call opens its gate only after the promise before it resolved, so       *)
(* "the promise of p is resolved" is gate[p] = "open".                     *)
(***************************************************************************)
EXTENDS Naturals, ToolCalls

CONSTANTS Key,      \* instance + document keys
          NoKey     \* the key of a call that was not made yet

ASSUME NoKeyAssumption == NoKey \notin Key

VARIABLES
  phase,    \* phase[c]: where call c is inside runExclusive
  keyOf,    \* keyOf[c]: the key c was made with
  tails,    \* tails[k]: the call whose promise is the map entry, or NoCall
  previous, \* previous[c]: the promise c awaits; NoCall is Promise.resolve()
  ticket    \* auxiliary: the position of c in the order of arrival on its key

coordinatorVars == <<phase, keyOf, tails, previous, ticket>>

Phase == {"out", "waiting", "running", "released"}

CoordinatorTypeOK ==
  /\ phase \in [Call -> Phase]
  /\ keyOf \in [Call -> Key \cup {NoKey}]
  /\ tails \in [Key -> Call \cup {NoCall}]
  /\ previous \in [Call -> Call \cup {NoCall}]
  /\ ticket \in [Call -> Nat]

\* c has chained its gate and not yet opened it.
Active(c) == phase[c] \in {"waiting", "running"}

Chained(k) == {c \in Call : Active(c) /\ keyOf[c] = k}

\* `await previous` has nothing left to wait for.
PreviousResolved(c) == previous[c] # NoCall => phase[previous[c]] = "released"

CoordinatorInit ==
  /\ phase = [c \in Call |-> "out"]
  /\ keyOf = [c \in Call |-> NoKey]
  /\ tails = [k \in Key |-> NoCall]
  /\ previous = [c \in Call |-> NoCall]
  /\ ticket = [c \in Call |-> 0]

\* Slip: the tail is replaced but not awaited.
ChainNotAwaiting(c, k) ==
  /\ phase[c] = "out"
  /\ phase' = [phase EXCEPT ![c] = "waiting"]
  /\ keyOf' = [keyOf EXCEPT ![c] = k]
  /\ tails' = [tails EXCEPT ![k] = c]
  /\ UNCHANGED <<previous, ticket>>

\* Read the tail, chain a gate behind it, become the tail: one synchronous run
\* up to `await previous`.
Chain(c, k) ==
  /\ phase[c] = "out"
  /\ phase' = [phase EXCEPT ![c] = "waiting"]
  /\ keyOf' = [keyOf EXCEPT ![c] = k]
  /\ previous' = [previous EXCEPT ![c] = tails[k]]
  /\ ticket' = [ticket EXCEPT
       ![c] = IF tails[k] = NoCall THEN 0 ELSE ticket[tails[k]] + 1]
  /\ tails' = [tails EXCEPT ![k] = c]

\* `await previous` returns and the task starts.
Enter(c) ==
  /\ phase[c] = "waiting"
  /\ PreviousResolved(c)
  /\ phase' = [phase EXCEPT ![c] = "running"]
  /\ UNCHANGED <<keyOf, tails, previous, ticket>>

\* Slip: the map entry is deleted without looking whose it is.
ReleaseDroppingTail(c) ==
  /\ phase[c] = "running"
  /\ phase' = [phase EXCEPT ![c] = "released"]
  /\ tails' = [tails EXCEPT ![keyOf[c]] = NoCall]
  /\ UNCHANGED <<keyOf, previous, ticket>>

\* Slip: the map entry is deleted but the gate stays shut.
ReleaseWithoutGate(c) ==
  /\ phase[c] = "running"
  /\ tails[keyOf[c]] = c
  /\ tails' = [tails EXCEPT ![keyOf[c]] = NoCall]
  /\ UNCHANGED <<phase, keyOf, previous, ticket>>

\* `finally`, on success and on failure alike: open the gate, and drop the map
\* entry if no later call replaced it.
Release(c) ==
  /\ phase[c] = "running"
  /\ phase' = [phase EXCEPT ![c] = "released"]
  /\ tails' = IF tails[keyOf[c]] = c
              THEN [tails EXCEPT ![keyOf[c]] = NoCall]
              ELSE tails
  /\ UNCHANGED <<keyOf, previous, ticket>>

\* The process dies: the map and every gate are gone with it, and nobody waits.
CoordinatorCrash ==
  /\ phase' = [c \in Call |-> IF phase[c] = "out" THEN "out" ELSE "released"]
  /\ tails' = [k \in Key |-> NoCall]
  /\ UNCHANGED <<keyOf, previous, ticket>>

CoordinatorNext ==
  \E c \in Call : (\E k \in Key : Chain(c, k)) \/ Enter(c) \/ Release(c)

\* A task always settles (its bridge exchange has a timeout) and the runtime
\* runs every settled continuation.
CoordinatorFairness == \A c \in Call : WF_coordinatorVars(Enter(c)) /\ WF_coordinatorVars(Release(c))

CoordinatorSpec ==
  CoordinatorInit /\ [][CoordinatorNext]_coordinatorVars /\ CoordinatorFairness

----------------------------------------------------------------------------
\* Two modifying operations on one document never run at the same time,
\* although no operation ever asks whether another one is running.
MutualExclusion ==
  \A c, d \in Call :
    phase[c] = "running" /\ phase[d] = "running" /\ keyOf[c] = keyOf[d] => c = d

\* No tail leak: the map holds an entry for a document exactly while some call
\* is waiting for it or running on it.
NoTailLeak == \A k \in Key : tails[k] = NoCall <=> Chained(k) = {}

\* Why it works.  The calls on a document stand in the order of their tickets;
\* whoever has nothing to wait for is the first of them, and whoever waits does
\* so for its immediate predecessor.
InLine(c) ==
  /\ keyOf[c] \in Key
  /\ \A d \in Chained(keyOf[c]) : ticket[d] = ticket[c] => d = c
  /\ PreviousResolved(c) => \A d \in Chained(keyOf[c]) : ticket[c] <= ticket[d]
  /\ ~PreviousResolved(c) =>
       /\ previous[c] \in Chained(keyOf[c])
       /\ ticket[previous[c]] < ticket[c]
       /\ \A d \in Chained(keyOf[c]) :
            ticket[d] <= ticket[previous[c]] \/ ticket[c] <= ticket[d]
  /\ phase[c] = "running" => PreviousResolved(c)

\* The map entry is the last call in line, if there is one.
LastInLine(k) ==
  /\ tails[k] = NoCall => Chained(k) = {}
  /\ tails[k] # NoCall =>
       /\ tails[k] \in Chained(k)
       /\ \A d \in Chained(k) : ticket[d] <= ticket[tails[k]]

ChainInv ==
  /\ CoordinatorTypeOK
  /\ \A c \in Call : Active(c) => InLine(c)
  /\ \A k \in Key : LastInLine(k)

\* The lock is a lock: the calls stand in line, one of them runs, and the map
\* forgets a document with its last call (runExclusive in executionLedger.ts).
LockInv == ChainInv /\ MutualExclusion /\ NoTailLeak

\* An operation that queued up on a document gets its turn.
EveryoneGetsIn == \A c \in Call : phase[c] = "waiting" ~> phase[c] = "running"

\* The calls that came before c on its document and are not through yet.
Ahead == [c \in Call |->
  IF Active(c)
    THEN {d \in Chained(keyOf[c]) : ticket[d] < ticket[c]}
    ELSE {}]

Service == INSTANCE ExclusiveService WITH member <- phase, key <- keyOf, ahead <- Ahead

\* The chain of promises serves the calls on one document one at a time and in
\* the order they called, with no queue anywhere in the code.
ServesInOrder == Service!Spec
=============================================================================
