---------------------------- MODULE MCLedgerParts ----------------------------
(***************************************************************************)
(* The two parts of executionLedger.ts that know nothing of each other,    *)
(* for TLC: the lock and the file of the records.  A behaviour is one of   *)
(* the lock or one of the file; the other stays as it began.               *)
(***************************************************************************)
EXTENDS DocumentOperationCoordinator, LedgerFile

CONSTANTS c1, c2, c3, c4, docA, docB

VARIABLE part

PartsInit == part \in {"lock", "file"} /\ CoordinatorInit /\ Init

PartsNext ==
  /\ UNCHANGED part
  /\ \/ part = "lock" /\ CoordinatorNext /\ UNCHANGED vars
     \/ part = "file" /\ Next /\ UNCHANGED coordinatorVars

\* The lock's fairness asks nothing of the file: there no call is made.
PartsSpec == PartsInit /\ [][PartsNext]_<<part, vars, coordinatorVars>> /\ CoordinatorFairness
=============================================================================
