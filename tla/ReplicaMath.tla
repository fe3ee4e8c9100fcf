---------------------------- MODULE ReplicaMath ----------------------------
(***************************************************************************)
(* The replica arithmetic of a batch: how many pods a step may update, how *)
(* many more the new ReplicaSet may get, how many the old ones must keep,  *)
(* and the share of one ReplicaSet when a Deployment is scaled in the      *)
(* middle of a release (pkg/util/deployment/deployment.go and              *)
(* internal/controller/partition/executor.go).                             *)
(*                                                                         *)
(* An intstr.IntOrString is a record [type, val]: a number, a percentage,  *)
(* or a string that is no percentage ("invalid"), which the API server     *)
(* accepts as well.                                                        *)
(***************************************************************************)
EXTENDS Integers

Int32(n)   == [type |-> "int", val |-> n]
Percent(n) == [type |-> "percent", val |-> n]
Invalid    == [type |-> "invalid", val |-> 0]

IntOrString == [type : {"int", "percent"}, val : Nat] \cup {Invalid}

Lesser(a, b)  == IF a <= b THEN a ELSE b
Greater(a, b) == IF a >= b THEN a ELSE b

(* intstr.GetScaledValueFromIntOrPercent; an invalid string gives 0 and an *)
(* error.                                                                  *)
GetScaledValue(v, total, roundUp) ==
  CASE v.type = "int"     -> v.val
    [] v.type = "percent" -> (v.val * total + (IF roundUp THEN 99 ELSE 0)) \div 100
    [] OTHER              -> 0

(* Both fenceposts are 0 when one of them is invalid; and they are never   *)
(* both 0 otherwise.                                                       *)
ResolveFenceposts(maxSurge, maxUnavailable, desired) ==
  LET surge       == GetScaledValue(maxSurge, desired, TRUE)
      unavailable == GetScaledValue(maxUnavailable, desired, FALSE)
      invalid     == maxSurge.type = "invalid" \/ maxUnavailable.type = "invalid"
  IN IF invalid                       THEN [surge |-> 0, unavailable |-> 0]
     ELSE IF surge + unavailable = 0 THEN [surge |-> 0, unavailable |-> 1]
     ELSE [surge |-> surge, unavailable |-> unavailable]

(* How many replicas of the new version a step with this partition allows: *)
(* every percentage but 100% leaves at least one old replica.              *)
NewRSReplicasLimit(partition, replicas) ==
  LET scaled == Greater(Lesser(GetScaledValue(partition, replicas, TRUE), replicas), 0)
      whole  == partition = Percent(100) \/ partition.type = "int"
  IN IF replicas > 1 /\ ~whole THEN Lesser(scaled, replicas - 1) ELSE scaled

(* Mutant: the surge does not limit how many there are in all.             *)
MutantNewRSNewReplicas(replicas, surge, limit, total, current) ==
  IF total <= current        THEN replicas
  ELSE IF current >= limit THEN current
  ELSE Lesser(replicas, limit)

(* The Deployment's ReplicaSets have "total" replicas in their spec,       *)
(* "current" of them the new one: how many shall the new one have?         *)
NewRSNewReplicas(replicas, surge, limit, total, current) ==
  LET allowed == Lesser(replicas + surge - total, replicas - current)
  IN IF total <= current                                      THEN replicas
     ELSE IF current >= limit \/ total >= replicas + surge THEN current
     ELSE Lesser(current + allowed, limit)

(* Mutant: a new ReplicaSet may start empty.                               *)
MutantNewRSReplicasLowerBound(replicas, surge) == 0

(* A new ReplicaSet starts with a replica if there is no surge, so that    *)
(* the Deployment controller does not see a single active ReplicaSet.      *)
NewRSReplicasLowerBound(replicas, surge) ==
  IF surge > 0 THEN 0 ELSE Lesser(1, replicas)

(* How many of their "oldTotal" replicas the old ReplicaSets may lose; a   *)
(* negative number is what they have lost too many.                        *)
ScaleDownLimitForOld(oldTotal, newSize, limit, replicas) ==
  oldTotal - (replicas - Greater(limit, newSize))

(* How many unavailable pods IsBatchReady tolerates.                       *)
AllowedUnavailable(threshold, updated) == GetScaledValue(threshold, updated, TRUE)

(* integer.RoundToInt32(p / q), of halves away from zero, p and q >= 0.    *)
Round(p, q) == (2 * p + q) \div (2 * q)

(* How far a ReplicaSet of this size is from its share of a Deployment     *)
(* that had "annotated" replicas at most and shall have "most".            *)
GetReplicaSetFraction(size, replicas, most, annotated) ==
  IF replicas = 0 THEN -size ELSE Round(size * most, annotated) - size

(* Its share of the replicas to add (or, negative, to remove) when some of *)
(* them are already dealt out.                                             *)
GetProportion(size, fraction, toAdd, added) ==
  IF size = 0 \/ toAdd = 0 \/ toAdd = added THEN 0
  ELSE IF toAdd > 0 THEN Lesser(fraction, toAdd - added)
  ELSE Greater(fraction, toAdd - added)
=============================================================================
