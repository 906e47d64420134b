-------------------------- MODULE MCAgentApproval --------------------------
(* One run that may ask for three calls, answered by two stream requests and *)
(* one sync request, in both kinds of store.                                 *)
EXTENDS AgentApproval

BothStores == {"list", "rows"}

TwoEndings == {"completed", "failed"}
============================================================================
