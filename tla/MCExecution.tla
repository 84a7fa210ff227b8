---------------------------- MODULE MCExecution ----------------------------
EXTENDS Execution

=============================================================================
