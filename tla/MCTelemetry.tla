---------------------------- MODULE MCTelemetry -----------------------------
(* The instance of Telemetry that TLC checks is in MCTelemetry.cfg.        *)
EXTENDS Telemetry
=============================================================================
