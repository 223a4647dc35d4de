--------------------------- MODULE MCToolExecution ---------------------------
(***************************************************************************)
(* Small instances of ToolExecution for TLC.                               *)
(***************************************************************************)
EXTENDS ToolExecution, TLC

CONSTANTS c1, c2, c3, docA, docB, hide, select

MCSubject == Key \X Op

\* Calls are interchangeable, and so are documents: no definition tells one from
\* another.
CallSymmetry == Permutations(Call) \cup Permutations(Key)

\* The state after c3 ran alone, was let through and got no answer:
\* its record is ambiguous in memory and on disk, and the plugin has applied it,
\* refused it, or has not come to it yet.
RetryInit ==
  /\ \E r \in {"sent", "applied", "refused"}, d \in Key :
       LET After(old) == [old EXCEPT ![c3] = "ambiguous"]
       IN /\ document = d
          /\ opened = {d}
          /\ request = [c \in Call |-> IF c = c3 THEN r ELSE "none"]
          /\ appliedTo = [c \in Call |-> IF c = c3 /\ r = "applied" THEN d ELSE NoKey]
          /\ bound = [c \in Call |-> IF c = c3 THEN d ELSE NoKey]
          /\ keyOf = bound
          /\ op \in [Call -> Op]
          /\ subject = [c \in Call |-> IF c = c3 THEN <<d, op[c]>> ELSE NoSubject]
          /\ status = After([c \in Call |-> "none"])
          /\ outcome = [c \in Call |-> IF c = c3 THEN "ambiguous" ELSE "none"]
          /\ fault = [c \in Call |-> IF c = c3 THEN "ambiguous" ELSE "none"]
          /\ snapshot = status
          /\ file = status
  /\ phase = [c \in Call |-> IF c = c3 THEN "released" ELSE "out"]
  /\ pc = [c \in Call |-> IF c = c3 THEN "done" ELSE "idle"]
  /\ write = [c \in Call |-> IF c = c3 THEN "saved" ELSE "idle"]
  /\ permission \in [Call -> Permission]
  /\ answer = [c \in Call |->
       IF c # c3 THEN "nobody" ELSE IF permission[c] = "ask" THEN "user" ELSE "setting"]
  /\ executing = [c \in Call |-> c = c3]
  /\ confirmed \in [Call -> BOOLEAN] /\ ~confirmed[c3]
  /\ tails = [k \in Key |-> NoCall]
  /\ previous = [c \in Call |-> NoCall]
  /\ ticket = [c \in Call |-> 0]
  /\ retryOf = previous
  /\ aborted = [c \in Call |-> FALSE]
  /\ writeTail = <<>> /\ saving = FALSE /\ process = "up"
  /\ crashes = 0 /\ failures = 0
  /\ gone = {}

RetrySpec == RetryInit /\ [][Next]_vars /\ Fairness

\* The two later calls are interchangeable, c3 is not.
RetrySymmetry == Permutations(Call \ {c3})
=============================================================================
