----------------------------- MODULE MCPidTable -----------------------------
EXTENDS PidTable

CONSTANTS a, b, c, d
FourPids  == {a, b, c, d}
=============================================================================
