---------------------------- MODULE MCMqttClient ----------------------------
(***************************************************************************)
(* Small instances of MqttClient for TLC.  Time-outs are scaled down: what *)
(* counts is that the ping interval is longer than the others.             *)
(***************************************************************************)
EXTENDS MqttClient

CONSTANTS m1, m2

=============================================================================
