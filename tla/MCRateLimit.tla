---------------------------- MODULE MCRateLimit ----------------------------
EXTENDS RateLimit, TLC

\* Attempts are interchangeable
Symmetry == Permutations(Attempts)

=============================================================================
