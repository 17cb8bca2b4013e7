------------------------------ MODULE MCTelemetry ------------------------------
(* Telemetry with two windows and two session files, of which the store keeps one. *)
EXTENDS Telemetry
================================================================================
