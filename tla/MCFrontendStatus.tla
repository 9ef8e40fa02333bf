-------------------------- MODULE MCFrontendStatus --------------------------
EXTENDS FrontendStatus
=============================================================================
