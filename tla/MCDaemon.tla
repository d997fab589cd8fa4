------------------------------ MODULE MCDaemon ------------------------------
(* The instances of Daemon that TLC checks are in its .cfg files.          *)
EXTENDS Daemon
=============================================================================
