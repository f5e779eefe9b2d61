------------------------------ MODULE MCSched -------------------------------
EXTENDS Sched
=============================================================================
