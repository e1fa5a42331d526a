---------------------------- MODULE MCTelemetry ----------------------------
(* Two streams, two channel lists, one message in the link beside the one that blocks the loop. *)
EXTENDS Telemetry
=============================================================================
