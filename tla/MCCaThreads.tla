---------------------------- MODULE MCCaThreads ----------------------------
EXTENDS CaThreads

CONSTANTS r1, r2, r3
MCReports == {r1, r2, r3}
=============================================================================
