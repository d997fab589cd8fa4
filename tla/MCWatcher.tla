----------------------------- MODULE MCWatcher ------------------------------
(* The instance of Watcher that TLC checks is in MCWatcher.cfg.            *)
EXTENDS Watcher
=============================================================================
