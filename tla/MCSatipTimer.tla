---------------------------- MODULE MCSatipTimer ----------------------------
EXTENDS SatipTimer, TLC

TimerSymmetry == Permutations(Timer)
=============================================================================
