--------------------------- MODULE MCAgentSession ---------------------------
EXTENDS AgentSession

CONSTANTS k1, k2

MCCreds == {k1, k2}

=============================================================================
