-------------------------- MODULE MCMqttConnection --------------------------
(***************************************************************************)
(* A buffer of two characters, a ping at the second idle tick, and two     *)
(* failures.                                                               *)
(***************************************************************************)
EXTENDS MqttConnection
=============================================================================
