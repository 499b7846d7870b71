-------------------------- MODULE MCSessionManager --------------------------
EXTENDS SessionManager, TLC

CONSTANTS i1, i2, t1, t2, t3

MCIds == {i1, i2}
MCTokens == {t1, t2, t3}

\* Sessions and tokens are interchangeable
Symmetry == Permutations(MCIds) \cup Permutations(MCTokens)

=============================================================================
