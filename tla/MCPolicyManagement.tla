------------------------ MODULE MCPolicyManagement ------------------------
(* PolicyManagement with interchangeable goroutines and contents.          *)
EXTENDS PolicyManagement, TLC

Sym == Permutations(Ops) \cup Permutations(Contents)
=============================================================================
