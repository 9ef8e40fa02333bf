--------------------------- MODULE MCSessionClock ---------------------------
EXTENDS SessionClock
=============================================================================
