--------------------------- MODULE ExclusiveService ---------------------------
(***************************************************************************)
(* What a caller of DocumentOperationCoordinator.runExclusive is promised: *)
(* exclusive service per key in order of arrival.  No promises, no gates   *)
(* and no map: a caller has a set of callers ahead of it and is served     *)
(* when that set is empty.                                                 *)
(***************************************************************************)
EXTENDS ToolCalls

CONSTANTS Key, NoKey

VARIABLES
  member, \* member[c]: "out", "waiting", "running" or "released"
  key,    \* key[c]: what c waits for
  ahead   \* ahead[c]: the callers that came before c and have not left

serviceVars == <<member, key, ahead>>

Init ==
  /\ member = [c \in Call |-> "out"]
  /\ key = [c \in Call |-> NoKey]
  /\ ahead = [c \in Call |-> {}]

\* Everybody who is there already is ahead of a newcomer.
Join(c, k) ==
  /\ member[c] = "out"
  /\ member' = [member EXCEPT ![c] = "waiting"]
  /\ key' = [key EXCEPT ![c] = k]
  /\ ahead' = [ahead EXCEPT
       ![c] = {d \in Call : member[d] \in {"waiting", "running"} /\ key[d] = k}]

Start(c) ==
  /\ member[c] = "waiting"
  /\ ahead[c] = {}
  /\ member' = [member EXCEPT ![c] = "running"]
  /\ UNCHANGED <<key, ahead>>

Leave(c) ==
  /\ member[c] = "running"
  /\ member' = [member EXCEPT ![c] = "released"]
  /\ ahead' = [d \in Call |-> ahead[d] \ {c}]
  /\ UNCHANGED key

Next == \E c \in Call : (\E k \in Key : Join(c, k)) \/ Start(c) \/ Leave(c)

Fairness == \A c \in Call : WF_serviceVars(Start(c)) /\ WF_serviceVars(Leave(c))

Safety == Init /\ [][Next]_serviceVars

Spec == Safety /\ Fairness
=============================================================================
