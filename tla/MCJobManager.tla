---------------------------- MODULE MCJobManager ----------------------------
EXTENDS JobManager

=============================================================================
