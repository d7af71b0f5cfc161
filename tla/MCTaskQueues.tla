---------------------------- MODULE MCTaskQueues ----------------------------
EXTENDS TaskQueues

=============================================================================
