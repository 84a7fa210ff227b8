---------------------------- MODULE MCVerification ----------------------------
EXTENDS VerificationLog, TLC
CONSTANTS tick, admin
AttesterSymmetry == Permutations({tick, admin})
=============================================================================
