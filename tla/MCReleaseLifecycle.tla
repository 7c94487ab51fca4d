------------------------- MODULE MCReleaseLifecycle -------------------------
EXTENDS ReleaseLifecycle, TLC

CONSTANTS p1, p2

ProcSymmetry == Permutations({p1, p2})

=============================================================================
