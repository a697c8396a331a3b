----------------------------- MODULE MCEdgeNode -----------------------------
(* A calm reading and one that raises every flag, two levels of            *)
(* brightness, a gas sensor that is off the scale, one crash.              *)
EXTENDS EdgeNode

MCReadings == {[voc |-> 2, geiger |-> 2, obstacles |-> 0],
               [voc |-> 12, geiger |-> 2, obstacles |-> 3]}
=============================================================================
