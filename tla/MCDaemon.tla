------------------------------ MODULE MCDaemon ------------------------------
EXTENDS Daemon

CONSTANTS m1, m2

Two == <<m1, m2>>
=============================================================================
