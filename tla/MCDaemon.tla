------------------------------ MODULE MCDaemon ------------------------------
\* Instances of Daemon for TLC.
EXTENDS Daemon

AllProcs == 1 .. NumProcs
=============================================================================
