--------------------------- MODULE MCAgentApproval ---------------------------
\* A small instance of AgentApproval for TLC.
EXTENDS AgentApproval

CONSTANTS c1, c2, s1, s2, legal, finance

TwoStages == <<legal, finance>>

=============================================================================
