------------------------- MODULE MCTelegramAdapter -------------------------
EXTENDS TelegramAdapter, TLC

CONSTANTS e1, e2, e3, e4, d1, d2

\* The alerts e1 and e2 are alike; so are the dispatchers.
PairSymmetry == Permutations({e1, e2}) \cup Permutations({d1, d2})

=============================================================================
