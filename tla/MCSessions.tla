----------------------------- MODULE MCSessions -----------------------------
(* Sessions with two request handlers.                                     *)
EXTENDS Sessions, TLC

Sym == Permutations(Callers)
=============================================================================
