-------------------------- MODULE MCSessionAnnounce --------------------------
EXTENDS SessionAnnounce
=============================================================================
