------------------------------ MODULE ToolCalls ------------------------------
(***************************************************************************)
(* The modifying tool calls the other modules are about.  A call stands    *)
(* for one runId + toolCallId; both are minted fresh (randomUUID), so each *)
(* call is made once.                                                      *)
(***************************************************************************)
CONSTANTS Call,   \* modifying tool calls
          NoCall  \* no call

ASSUME NoCallAssumption == NoCall \notin Call
=============================================================================
