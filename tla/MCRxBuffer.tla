----------------------------- MODULE MCRxBuffer -----------------------------
EXTENDS RxBuffer
=============================================================================
