----------------------------- MODULE MCMonitors ------------------------------
EXTENDS Monitors, TLC

ProcessSymmetry == Permutations(Processes)

=============================================================================
