--------------------------- MODULE DoomLoopGuard ---------------------------
(***************************************************************************)
(* The guard against a model that repeats itself: main/agent/              *)
(* doomLoopGuard.ts and AgentRuntime.#handleDoomLoop.  The module follows  *)
(* one signature (tool, arguments, scope) through one run: the model calls *)
(* it again and again, the guard executes the call, warns, asks the user   *)
(* or refuses it.  A result is its fingerprint.                            *)
(***************************************************************************)
EXTENDS Naturals, Sequences

CONSTANTS Fingerprint, MaxRepeats  \* bound on the calls of the signature

VARIABLES
  results,    \* resultFingerprints
  recoveries, \* recoveriesIssued
  decision,   \* userDecision
  calls,      \* calls of the signature so far
  asked,      \* auxiliary: questions asked about it
  observed    \* auxiliary: what came of the last call

guardVars == <<results, recoveries, decision, calls, asked, observed>>

GuardInit ==
  /\ results = <<>> /\ recoveries = 0 /\ decision = "none"
  /\ calls = 0 /\ asked = 0 /\ observed = "none"

\* Slip: one repetition more is let through.
ThresholdRaised == 3

Threshold == 2

\* #isRepeatingUninformatively
Repeating == Len(results) >= Threshold /\ \A i \in DOMAIN results : results[i] = results[1]

\* beforeCall: the decision of the user comes first, then what the guard did
\* before, then what the results were.
BeforeCall ==
  IF decision = "stop" THEN "terminate"
  ELSE IF decision = "replan" THEN "recover"
  ELSE IF recoveries > 0 THEN "escalate"
  ELSE IF Repeating THEN "recover" ELSE "execute"

Called(what) ==
  /\ BeforeCall = what /\ calls < MaxRepeats /\ calls' = calls + 1

\* Only a success is recorded; a failed call leaves no trace.
Execute ==
  /\ Called("execute") /\ observed' = "executed"
  /\ \/ \E f \in Fingerprint : results' = Append(results, f)
     \/ UNCHANGED results
  /\ UNCHANGED <<recoveries, decision, asked>>

Recover ==
  /\ Called("recover") /\ observed' = "warned" /\ recoveries' = recoveries + 1
  /\ UNCHANGED <<results, decision, asked>>

\* A question nobody answers, or that cannot be asked, counts as a stop.
Escalate ==
  /\ Called("escalate") /\ observed' = "warned" /\ recoveries' = recoveries + 1
  /\ \/ asked' = asked + 1 /\ decision' \in {"replan", "stop"}
     \/ UNCHANGED asked /\ decision' = "stop"
  /\ UNCHANGED results

\* The call gets an error for a result and the run goes on, whatever the comment
\* above #handleDoomLoop says of ending it.
Terminate ==
  /\ Called("terminate") /\ observed' = "terminated"
  /\ UNCHANGED <<results, recoveries, decision, asked>>

GuardNext == Execute \/ Recover \/ Escalate \/ Terminate

GuardSpec == GuardInit /\ [][GuardNext]_guardVars

----------------------------------------------------------------------------
(* Properties *)

\* The guard steps in at one place only, where the first two results of a call
\* are the same: then the call is not executed a third time, and after the
\* warning never.  Where they differ it stays away for the rest of the run, also
\* from a call that brings one result for ever after that.
NoticedAtOnce ==
  /\ Len(results) > 2 => results[1] # results[2]
  /\ recoveries > 0 =>
       Len(results) = 2 /\ results[1] = results[2] /\ observed # "executed"

\* The user is asked about a signature once, whatever the model goes on to do,
\* and what the user stopped is not executed again.
AskedOnce == asked <= 1 /\ (decision = "stop" => observed # "executed")

RepetitionIsNoticed == NoticedAtOnce /\ AskedOnce

\* The inductive invariant behind RepetitionIsNoticed: nothing is executed after
\* a warning, and a second question is never reached, because a decision is taken
\* only where a warning was given.
GuardInv ==
  /\ results \in Seq(Fingerprint) /\ recoveries \in Nat /\ asked \in Nat
  /\ decision \in {"none", "replan", "stop"}
  /\ recoveries > 0 => observed \in {"warned", "terminated"}
  /\ decision # "none" => recoveries > 0
  /\ decision = "none" => asked = 0
  /\ RepetitionIsNoticed
=============================================================================
