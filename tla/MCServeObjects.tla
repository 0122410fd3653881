---------------------------- MODULE MCServeObjects ----------------------------
EXTENDS ServeObjects

\* Two groups of two objects, of which the second is the more urgent.
MCInfos ==
  {[group |-> g, object |-> o, priority |-> 1 - o] : g \in 0..1, o \in 0..1}
=============================================================================
