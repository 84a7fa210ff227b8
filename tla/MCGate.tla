------------------------------- MODULE MCGate -------------------------------
(* ProtectionGate with kills, a quota, a changing cap and a breaker that   *)
(* two failures open.                                                      *)
EXTENDS ProtectionGate

MCQuotaDefs == {[rss |-> 1, cpu |-> 0]}
MCUsages == {[complete |-> FALSE, rss |-> 0, cpu |-> 0],
             [complete |-> TRUE, rss |-> 1, cpu |-> 2],
             [complete |-> TRUE, rss |-> 2, cpu |-> 0]}
=============================================================================
