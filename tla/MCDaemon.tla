------------------------------ MODULE MCDaemon ------------------------------
(* The instance of Daemon for TLC.                                         *)
EXTENDS Daemon
=============================================================================
