---------------------------- MODULE MCKeyLifecycle ----------------------------
EXTENDS KeyLifecycle, TLC
CONSTANTS w1, w2, tick, k1
WriterSymmetry == Permutations({w1, w2})
=============================================================================
