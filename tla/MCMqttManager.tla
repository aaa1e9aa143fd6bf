--------------------------- MODULE MCMqttManager ---------------------------
(* Small instances of MqttManager.                                         *)
EXTENDS MqttManager

CONSTANTS a, b

\* Above the bound of mqtt_manager_set_interval().
MCRequested == {4000}

\* Behaviours up to the moment two tasks meet in mqtt_start().
NoOverlap == "overlap" \notin excused
=============================================================================
