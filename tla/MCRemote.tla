------------------------------ MODULE MCRemote ------------------------------
(* RemoteExecution with two requests and two machines.                     *)
EXTENDS RemoteExecution, TLC

Sym == Permutations(Requests) \cup Permutations(Addresses)
=============================================================================
