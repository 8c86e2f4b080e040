-------------------------- MODULE MCConcurrentFetch --------------------------
EXTENDS ConcurrentFetch, TLC

CONSTANTS b1, b2

MCBuilds == {b1, b2}
MCSymmetry == Permutations(MCBuilds)
=============================================================================
