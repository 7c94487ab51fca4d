---------------------------- MODULE MCSiteDelete ----------------------------
EXTENDS SiteDelete, TLC

CONSTANTS o1, o2, v1, v2

Symmetry == Permutations({o1, o2}) \cup Permutations({v1, v2})

=============================================================================
