------------------------------ MODULE MCOrigins ------------------------------
EXTENDS Origins, TLC

CONSTANTS n1, n2, a1, a2, a3

\* Two announcements at one relay, and one at another.
MCAt == a1 :> n1 @@ a2 :> n1 @@ a3 :> n2
=============================================================================
