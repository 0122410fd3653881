---------------------------- MODULE MCServeStream ----------------------------
EXTENDS ServeStream
=============================================================================
