---------------------------- MODULE MCServeGroups ----------------------------
EXTENDS ServeGroups
=============================================================================
