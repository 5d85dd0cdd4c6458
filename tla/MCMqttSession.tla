---------------------------- MODULE MCMqttSession ----------------------------
(* Model-checking instance of MqttSession; the bounds are in the .cfg files. *)
EXTENDS MqttSession
==============================================================================
