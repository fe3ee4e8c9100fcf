-------------------------- MODULE MCNewReplicaSet --------------------------
(* Model values and bounds for NewReplicaSet.                              *)
EXTENDS NewReplicaSet

(* Names of the Deployment's own ReplicaSets do not collide; another owner *)
(* has a ReplicaSet with the name of the first template to be released.    *)
MCTemplates == {"A", "B"}
MCFirst     == "A"
MCMaxCount  == 1
MCHash      == [x \in MCTemplates \X (0 .. MCMaxCount) |-> x]
MCForeign   == {<<"B", 0>>}
=============================================================================
