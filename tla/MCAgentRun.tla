----------------------------- MODULE MCAgentRun -----------------------------
(* Model checking of AgentRun: a free, a flagged and a rejected tool call. *)
EXTENDS AgentRun
=============================================================================
