------------------------- MODULE ReplicaMathProofs -------------------------
(***************************************************************************)
(* What the replica arithmetic of a batch guarantees for every partition,  *)
(* every Deployment and every list of ReplicaSets.                         *)
(***************************************************************************)
EXTENDS ReplicaMath, TLAPS

(* Rounding: a hundredth of a natural number, up or down, is one.          *)
LEMMA Hundredth == \A k \in Nat : k \div 100 \in Nat
OBVIOUS

(* intstr.GetScaledValueFromIntOrPercent of what the API server accepts is *)
(* never negative.                                                         *)
LEMMA ScaledValue ==
  ASSUME NEW v \in IntOrString, NEW total \in Nat, NEW roundUp \in BOOLEAN
  PROVE  GetScaledValue(v, total, roundUp) \in Nat
<1>1. v.val \in Nat
  BY DEF IntOrString, Invalid
<1>2. v.val * total \in Nat
  BY <1>1
<1>3. v.val * total + (IF roundUp THEN 99 ELSE 0) \in Nat
  BY <1>2
<1>4. (v.val * total + (IF roundUp THEN 99 ELSE 0)) \div 100 \in Nat
  BY <1>3, Hundredth
<1>. QED
  BY <1>1, <1>4 DEF GetScaledValue

(* NewRSReplicasLimit: a step updates no more pods than there are; and a   *)
(* percentage other than 100%, or a string that is none, leaves at least   *)
(* one pod of the old version, however it is rounded.                      *)
THEOREM LimitBounds ==
  ASSUME NEW partition \in IntOrString, NEW replicas \in Nat
  PROVE  /\ NewRSReplicasLimit(partition, replicas) \in 0 .. replicas
         /\ partition.type # "int" /\ partition # Percent(100) /\ replicas > 1 =>
              NewRSReplicasLimit(partition, replicas) < replicas
<1>. DEFINE value == GetScaledValue(partition, replicas, TRUE)
<1>1. value \in Nat
  BY ScaledValue
<1>. HIDE DEF value
<1>2. NewRSReplicasLimit(partition, replicas) =
        LET scaled == Greater(Lesser(value, replicas), 0)
            whole  == partition = Percent(100) \/ partition.type = "int"
        IN IF replicas > 1 /\ ~whole THEN Lesser(scaled, replicas - 1) ELSE scaled
  BY DEF NewRSReplicasLimit, value
<1>. QED
  BY <1>1, <1>2 DEF Lesser, Greater

(* newRSNewReplicas, while there are old replicas: the new ReplicaSet is   *)
(* never told to shrink, never to grow past the partition's limit, and     *)
(* never to bring the total past the surge.                                *)
THEOREM NewSizeBounds ==
  ASSUME NEW replicas \in Nat, NEW surge \in Nat, NEW limit \in 0 .. replicas,
         NEW total \in Nat, NEW current \in 0 .. replicas, current < total
  PROVE  LET size == NewRSNewReplicas(replicas, surge, limit, total, current)
         IN /\ size \in current .. Greater(limit, current)
            /\ total - current + size <= Greater(total, replicas + surge)
BY DEF NewRSNewReplicas, Lesser, Greater

(* Shares cannot overshoot: GetProportion  deals a ReplicaSet no more *)
(* than what is left of the replicas to add, or to remove, whatever its    *)
(* fraction says, so that the leftover has the sign of the whole.          *)
THEOREM ProportionBounds ==
  ASSUME NEW size \in Nat, NEW fraction \in Int, NEW toAdd \in Int, NEW added \in Int
  PROVE  LET dealt == added + GetProportion(size, fraction, toAdd, added)
         IN /\ toAdd > 0 /\ added <= toAdd => dealt <= toAdd
            /\ toAdd < 0 /\ added >= toAdd => dealt >= toAdd
BY DEF GetProportion, Lesser, Greater
=============================================================================
