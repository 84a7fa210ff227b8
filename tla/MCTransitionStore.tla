-------------------------- MODULE MCTransitionStore --------------------------
(* The store with its acceptance ledger: a file of two records, a ring of  *)
(* one, a ledger of two entries.                                           *)
EXTENDS AcceptanceLedger, HistoryReads
=============================================================================
