------------------------------ MODULE MCAnchors ------------------------------
(* The decision chain and its anchors, which one scheduler works off.      *)
EXTENDS DecisionAttest
CONSTANT t1
=============================================================================
