---------------------------- MODULE MCMqttClient ----------------------------
(* Instances of MqttClient: one that publishes and one that subscribes.    *)
EXTENDS MqttClient, TLC

CONSTANTS u1, u2, m1, m2, d1, d2, t1, o1, o2, o3

QosOfMessages == [m \in UpMsgs \union DownMsgs |-> IF m = m2 THEN 1 ELSE IF m = d2 THEN 0 ELSE 2]

(* The broker's packet id is one the client uses as well.                  *)
SameId == [m \in DownMsgs |-> 2]
=============================================================================
