------------------------------ MODULE MCRemotes ------------------------------
EXTENDS Remotes
=============================================================================
