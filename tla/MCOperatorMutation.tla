------------------------- MODULE MCOperatorMutation -------------------------
EXTENDS OperatorMutation, TLC

Sym == Permutations(Ops)
=============================================================================
