--------------------------- MODULE MCMqttClientMgr ---------------------------
(* Instances of MqttClientMgr for TLC: AMXX may hand out any identifier.   *)
EXTENDS MqttClientMgr, TLC

Symmetry == Permutations(ForwardIds)
=============================================================================
