---------------------------- MODULE MCMqttSession ----------------------------
(***************************************************************************)
(* MqttSession for TLC: two Wi-Fi requests, so that a second client may be *)
(* started, and so that a request may meet a ready session.                *)
(***************************************************************************)
EXTENDS MqttSession
=============================================================================
