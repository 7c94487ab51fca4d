---------------------------- MODULE MCCreateSite ----------------------------
EXTENDS CreateSite, TLC

CONSTANTS c1, c2

CreatorSymmetry == Permutations({c1, c2})

=============================================================================
