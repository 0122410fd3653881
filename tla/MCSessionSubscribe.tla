-------------------------- MODULE MCSessionSubscribe --------------------------
EXTENDS SessionSubscribe
=============================================================================
