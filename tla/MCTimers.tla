------------------------------ MODULE MCTimers ------------------------------
EXTENDS Timers

=============================================================================
