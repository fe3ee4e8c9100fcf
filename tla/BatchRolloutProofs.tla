------------------------- MODULE BatchRolloutProofs -------------------------
(***************************************************************************)
(* Theorems about BatchRollout, for any number of ReplicaSets, any plan,   *)
(* fenceposts and bounds: types and counts, the step protocol, what a      *)
(* partition does to the new ReplicaSet, and what a list of patches, sent  *)
(* one by one, leaves of the old ones.                                     *)
(***************************************************************************)
EXTENDS BatchInvariants, ReplicaMathProofs, SumLemmas, TLAPS

(***************************************************************************)
(* The step protocol                                                       *)
(***************************************************************************)
LEMMA ProtocolInit == Init => ProtocolInductive
BY DEF Init, ProtocolInductive

(* Stages of an Upgrade step are patched one after the other.              *)
LEMMA UpgradeStagePc ==
  ASSUME NEW s, NEW n, NEW i
  PROVE  UpgradeStage(s, n, i).pc \in {"new", "up", "down"}
<1>1. OldStage(s, n, i).pc \in {"up", "down"}
  <2>. DEFINE olds == Active(s, Olds)
  <2>1. CASE olds = {}
    BY <2>1 DEF OldStage
  <2>2. CASE olds # {} /\ OldLimit(s, n, i, olds) <= 0
    BY <2>2 DEF OldStage
  <2>3. CASE olds # {} /\ ~(OldLimit(s, n, i, olds) <= 0)
    BY <2>3 DEF OldStage
  <2>. QED
    BY <2>1, <2>2, <2>3
<1>. QED
  BY <1>1 DEF UpgradeStage

LEMMA CreatingGoesOn ==
  ASSUME CreateNew \/ FindCreated \/ CreateFails
  PROVE  pc' \in {"new", "up", "down"}
<1>1. \A q : GoOnWith(q) => pc' \in {"new", "up", "down"}
  BY UpgradeStagePc DEF GoOnWith
<1>2. CreateErrs => pc' = "new"
  BY DEF CreateErrs
<1>3. CreateNew => CreateErrs \/ \E q : GoOnWith(q)
  BY DEF CreateNew
<1>4. FindCreated \/ CreateFails => pc' = "new" \/ \E q : GoOnWith(q)
  BY <1>2 DEF FindCreated, CreateFails
<1>. QED
  BY <1>1, <1>2, <1>3, <1>4

(* A reconcile ends in the step state it was begun for.                    *)
LEMMA ReconcileKeepsProtocol ==
  ASSUME ProtocolInductive, Reconcile
  PROVE  ProtocolInductive'
<1>1. CASE StartSync
  BY <1>1 DEF StartSync, StartReconcile, ProtocolInductive, release
<1>2. CASE StartUpgrade
  <2>1. pc' \in {"create", "new", "up", "down"} /\ state' = "Upgrade"
    BY <1>2, UpgradeStagePc DEF StartUpgrade, StartReconcile, release
  <2>. QED
    BY <2>1 DEF ProtocolInductive
<1>3. CASE StartStep
  BY <1>3 DEF StartStep, StartReconcile, ProtocolInductive, release
<1>4. CASE CreateNew \/ FindCreated \/ CreateFails
  <2>1. pc' \in {"new", "up", "down"}
    BY <1>4, CreatingGoesOn
  <2>2. pc = "create" /\ state' = state
    BY <1>4 DEF CreateNew, FindCreated, CreateFails, release
  <2>. QED
    BY <2>1, <2>2 DEF ProtocolInductive
<1>5. CASE PatchNext \/ PatchFails
  <2>1. pc' = pc /\ state' = state
    BY <1>5 DEF PatchNext, PatchFails, release
  <2>. QED
    BY <2>1 DEF ProtocolInductive
<1>6. CASE EndSync \/ EndUpgrade \/ EndStep
  <2>1. pc' = "idle"
    BY <1>6 DEF EndSync, EndUpgrade, EndStep, EndReconcile
  <2>. QED
    BY <2>1 DEF ProtocolInductive
<1>. QED
  BY <1>1, <1>2, <1>3, <1>4, <1>5, <1>6 DEF Reconcile

(* What the rest of the cluster does.                                      *)
Cluster ==
  \/ Pod
  \/ \E r \in DOMAIN rs : PodFails(r)
  \/ NativeScales
  \/ NativeReports
  \/ Deliver
  \/ \E n \in Targets : UserScales(n)
  \/ UserContinues

(* Of that, users alone write the status of the release.                   *)
LEMMA ClusterKeepsRelease ==
  ASSUME (Cluster /\ ~UserContinues) \/ UNCHANGED vars
  PROVE  UNCHANGED <<release, pc>>
<1>1. CASE Pod \/ \E r \in DOMAIN rs : PodFails(r)
  BY <1>1 DEF Pod, ReplicaSetControllerActs, PodBecomesReady, PodFails, release
<1>2. CASE NativeScales \/ NativeReports \/ Deliver
  BY <1>2 DEF NativeScales, NativeResizes, NativeReports, Deliver, release
<1>3. CASE (\E n \in Targets : UserScales(n)) \/ UNCHANGED vars
  BY <1>3 DEF UserScales, release, vars
<1>. QED
  BY <1>1, <1>2, <1>3 DEF Cluster

LEMMA ClusterKeepsProtocol ==
  ASSUME ProtocolInductive, Cluster \/ UNCHANGED vars
  PROVE  ProtocolInductive'
<1>1. CASE ~UserContinues
  BY <1>1, ClusterKeepsRelease DEF ProtocolInductive, release
<1>2. CASE UserContinues
  BY <1>2 DEF UserContinues, ProtocolInductive
<1>. QED
  BY <1>1, <1>2

LEMMA NextIs == Next <=> Reconcile \/ Cluster
BY DEF Next, Cluster

(* Each step of the batches is one of ReleaseProtocol's step machine.      *)
LEMMA EndStepsProtocol ==
  ASSUME TypeOK, ProtocolInductive, EndSync \/ EndUpgrade \/ EndStep,
         <<idx, state>>' # <<idx, state>>
  PROVE  Protocol!StepMachine
<1>1. state \in {"", "Initial", "Upgrade", "Blocking", "Completed"}
  BY DEF TypeOK, ProtocolInductive, EndSync, EndUpgrade, EndStep
<1>2. CASE EndSync
  <2>1. idx' = idx /\ (state' = "Initial" \/ state' = state)
    BY <1>2 DEF EndSync, EndReconcile
  <2>2. Protocol!Rescale
    BY <1>1, <2>1 DEF Protocol!Rescale, Protocol!StepTo, Protocol!Rolling
  <2>. QED
    BY <2>2 DEF Protocol!StepMachine
<1>3. CASE EndUpgrade
  <2>1. state = "Upgrade" /\ idx' = idx /\ (state' = "Blocking" \/ state' = state)
    BY <1>3 DEF EndUpgrade, EndReconcile, ProtocolInductive
  <2>2. Protocol!Ready
    BY <2>1 DEF Protocol!Ready, Protocol!StepTo, Protocol!Rolling
  <2>. QED
    BY <2>2 DEF Protocol!StepMachine
<1>4. CASE EndStep
  <2>1. CASE state = "Blocking"
    <3>1. idx' = idx /\ (state' = "Completed" \/ state' = state)
      BY <1>4, <2>1 DEF EndStep, EndReconcile
    <3>2. Protocol!Continue
      BY <2>1, <3>1 DEF Protocol!Continue
    <3>. QED
      BY <3>2 DEF Protocol!StepMachine
  <2>2. CASE state = "Completed"
    <3>1. \/ idx' = idx /\ state' = "Finalizing"
          \/ idx' = idx + 1 /\ state' = "Initial"
      BY <1>4, <2>2 DEF EndStep, EndReconcile
    <3>2. Protocol!Finish \/ Protocol!Advance
      BY <2>2, <3>1 DEF Protocol!Finish, Protocol!Advance, Protocol!Rolling
    <3>. QED
      BY <3>2 DEF Protocol!StepMachine
  <2>3. CASE state \in {"", "Initial"}
    <3>1. idx' = idx /\ state' = "Upgrade"
      BY <1>4, <2>3 DEF EndStep, EndReconcile
    <3>2. Protocol!Start
      BY <2>3, <3>1 DEF Protocol!Start, Protocol!StepTo, Protocol!Rolling
    <3>. QED
      BY <3>2 DEF Protocol!StepMachine
  <2>. QED
    BY <1>1, <1>4, <2>1, <2>2, <2>3 DEF EndStep, ProtocolInductive
<1>. QED
  BY <1>2, <1>3, <1>4

LEMMA StepProtocol ==
  ASSUME TypeOK, ProtocolInductive, [Next]_vars
  PROVE  [Protocol!StepMachine]_<<idx, state>>
<1>1. SUFFICES ASSUME <<idx, state>>' # <<idx, state>> PROVE Protocol!StepMachine
  OBVIOUS
<1>2. CASE EndSync \/ EndUpgrade \/ EndStep
  BY <1>1, <1>2, EndStepsProtocol
<1>3. CASE UserContinues
  <2>1. Protocol!Continue
    BY <1>3 DEF UserContinues, Protocol!Continue
  <2>. QED
    BY <2>1 DEF Protocol!StepMachine
<1>4. CASE StartSync \/ StartUpgrade \/ StartStep \/ PatchNext \/ PatchFails
  BY <1>1, <1>4 DEF StartSync, StartUpgrade, StartStep, StartReconcile, PatchNext, PatchFails,
    release
<1>6. CASE CreateNew \/ FindCreated \/ CreateFails
  BY <1>1, <1>6 DEF CreateNew, FindCreated, CreateFails, release
<1>5. CASE (Cluster /\ ~UserContinues) \/ UNCHANGED vars
  BY <1>1, <1>5, ClusterKeepsRelease DEF release
<1>. QED
  BY <1>2, <1>3, <1>4, <1>5, <1>6, NextIs DEF Reconcile

(***************************************************************************)
(* Types                                                                   *)
(***************************************************************************)
LEMMA SurgeType ==
  ASSUME NEW n \in Nat
  PROVE  MaxSurge(n) \in Nat
<1>1. Surge \in IntOrString /\ Unavailable \in IntOrString
  BY PlanAssumption
<1>2. GetScaledValue(Surge, n, TRUE) \in Nat
  BY <1>1, ScaledValue
<1>. QED
  BY <1>2 DEF MaxSurge, ResolveFenceposts

LEMMA SumsType ==
  ASSUME NEW s, IsList(s), NEW S
  PROVE  Total(s, S) \in Nat /\ Pods(s, S) \in Nat /\ Available(s, S) \in Nat
<1>1. IsFiniteSet(S \cap DOMAIN s)
  <2>1. IsFiniteSet(Sets)
    BY SetsAssumption, FS_AddElement DEF Sets
  <2>. QED
    BY <2>1, FS_Subset DEF IsList
<1>2. \A r \in DOMAIN s : s[r] \in SetType
  BY DEF IsList
<1>3. \A r \in S \cap DOMAIN s : /\ [q \in DOMAIN s |-> s[q].size][r] \in Nat
                                 /\ [q \in DOMAIN s |-> s[q].pods][r] \in Nat
                                 /\ [q \in DOMAIN s |-> s[q].ready][r] \in Nat
  BY <1>2 DEF SetType
<1>. QED
  BY <1>1, <1>3, SumType DEF Total, Pods, Available

LEMMA LimitType ==
  ASSUME NEW i \in 0 .. Len(Steps) - 1, NEW n \in Nat
  PROVE  Limit(i, n) \in 0 .. n
<1>1. Partition(i) \in IntOrString
  BY PlanAssumption DEF Partition
<1>. QED
  BY <1>1, LimitBounds DEF Limit

(* The size newRSNewReplicas asks for is never smaller than it was.        *)
LEMMA NewSizeGrows ==
  ASSUME NEW s, IsList(s), New \in DOMAIN s, NEW n \in Nat, s[New].size <= n,
         NEW i \in 0 .. Len(Steps) - 1
  PROVE  NewSize(s, n, i) \in Nat /\ NewSize(s, n, i) >= s[New].size
<1>. DEFINE total == Total(s, Sets)
            limit == Limit(i, n)
            surge == MaxSurge(n)
            current == s[New].size
<1>1. total \in Nat /\ limit \in 0 .. n /\ surge \in Nat /\ current \in 0 .. n
  BY SumsType, LimitType, SurgeType DEF IsList, SetType
<1>. HIDE DEF total, limit, surge, current
<1>2. NewRSNewReplicas(n, surge, limit, total, current) \in current .. n
  BY <1>1 DEF NewRSNewReplicas, Lesser
<1>. QED
  BY <1>1, <1>2 DEF NewSize, total, limit, surge, current

LEMMA PatchedType ==
  ASSUME NEW s, IsList(s), NEW p, p.size \in Nat, NEW n \in Nat
  PROVE  /\ IsList(Patched(s, p, n))
         /\ DOMAIN Patched(s, p, n) = DOMAIN s
         /\ \A r \in DOMAIN s : /\ Patched(s, p, n)[r].pods = s[r].pods
                                /\ Patched(s, p, n)[r].ready = s[r].ready
                                /\ r = p.rs => Patched(s, p, n)[r].size = p.size
                                /\ r # p.rs => Patched(s, p, n)[r] = s[r]
<1>1. \A q \in SetType :
        /\ Resized(q, p.size, n) \in SetType
        /\ Resized(q, p.size, n).pods = q.pods /\ Resized(q, p.size, n).ready = q.ready
        /\ Resized(q, p.size, n).size = p.size
  <2>. TAKE q \in SetType
  <2>. DEFINE m == n + MaxSurge(n)
  <2>1. m \in Nat
    BY SurgeType
  <2>. HIDE DEF m
  <2>2. Resized(q, p.size, n) = [q EXCEPT !.size = p.size, !.desired = n, !.max = m]
    BY DEF Resized, m
  <2>. QED
    BY <2>1, <2>2 DEF SetType
<1>2. /\ DOMAIN Patched(s, p, n) = DOMAIN s
      /\ \A r \in DOMAIN s :
           Patched(s, p, n)[r] = IF r = p.rs THEN Resized(s[r], p.size, n) ELSE s[r]
  BY DEF Patched, IsList
<1>3. Patched(s, p, n) \in [DOMAIN s -> SetType]
  BY <1>1 DEF Patched, IsList
<1>. QED
  BY <1>1, <1>2, <1>3 DEF IsList

LEMMA BoundsType ==
  MaxBehind \in Nat /\ MaxScales \in Nat /\ MaxFailures \in Nat /\ MaxFaults \in Nat
BY SizeAssumption

LEMMA FirstStep == 0 \in 0 .. Len(Steps) - 1
<1>1. Len(Steps) \in Nat /\ Len(Steps) # 0
  BY PlanAssumption
<1>. QED
  BY <1>1

(* The parts of TypeOK: the ReplicaSets, what is counted, and the rest.    *)
ReadyPods == \A r \in DOMAIN rs : rs[r].ready <= rs[r].pods

OthersTyped ==
  /\ replicas \in Nat
  /\ deStatus \in StatusType
  /\ idx \in StepIndices
  /\ state \in {"", "Initial", "Upgrade", "Blocking", "Completed", "Finalizing"}
  /\ updated \in Nat
  /\ queued \in BOOLEAN
  /\ pc \in {"idle", "sync", "step", "create", "new", "up", "down"}

CountersTyped ==
  /\ scales \in 0 .. MaxScales
  /\ failures \in 0 .. MaxFailures
  /\ faults \in 0 .. MaxFaults
  /\ lost \in 0 .. failures

(* The informer's copy, of a time when some of the pods had failed.        *)
IsCopy(c, k) ==
  /\ c \in [rs : {c.rs}, failures : 0 .. k, behind : 0 .. MaxBehind, missed : BOOLEAN]
  /\ IsList(c.rs)

LEMMA TypeParts ==
  TypeInductive <=> /\ IsList(rs) /\ ReadyPods /\ OthersTyped /\ CountersTyped /\ LocalsTyped
                    /\ IsCopy(cache, failures)
BY DEF TypeInductive, TypeOK, IsList, ReadyPods, OthersTyped, CountersTyped, StatusType,
  StepIndices, IsCopy

LEMMA TypePartsNext ==
  TypeInductive' <=>
    /\ IsList(rs') /\ ReadyPods' /\ OthersTyped' /\ CountersTyped' /\ LocalsTyped'
    /\ IsCopy(cache', failures')
BY DEF TypeInductive, TypeOK, IsList, ReadyPods, OthersTyped, CountersTyped, StatusType,
  StepIndices, IsCopy

(* What becomes of the copy when the ReplicaSets change.                   *)
LEMMA WatchType ==
  ASSUME IsCopy(cache, failures), NEW ours \in BOOLEAN, Watch(ours), IsList(rs'),
         failures \in Nat, failures' \in Nat, failures <= failures'
  PROVE  IsCopy(cache', failures')
<1>1. CASE cache' = Copied(rs', failures')
  BY <1>1, BoundsType DEF Copied, IsCopy
<1>2. CASE /\ cache.behind < MaxBehind
           /\ cache' = [cache EXCEPT !.behind = cache.behind + 1,
                                     !.missed = cache.missed \/ ours]
  <2>. DEFINE m == cache.missed \/ ours
              b == cache.behind + 1
  <2>1. /\ cache \in [rs : {cache.rs}, failures : 0 .. failures, behind : 0 .. MaxBehind,
                       missed : BOOLEAN]
        /\ IsList(cache.rs)
    BY DEF IsCopy
  <2>2. m \in BOOLEAN /\ b \in 0 .. MaxBehind
    BY <1>2, <2>1, BoundsType
  <2>. HIDE DEF m, b
  <2>3. cache' = [cache EXCEPT !.behind = b, !.missed = m]
    BY <1>2 DEF m, b
  <2>4. 0 .. failures \subseteq 0 .. failures'
    OBVIOUS
  <2>. QED
    BY <2>1, <2>2, <2>3, <2>4 DEF IsCopy
<1>. QED
  BY <1>1, <1>2 DEF Watch

LEMMA EmptyList == IsList(<<>>)
BY DEF IsList

LEMMA TypeInit == Init => TypeInductive
<1>. SUFFICES ASSUME Init PROVE TypeInductive
  OBVIOUS
<1>1. replicas \in Nat
  BY SizeAssumption DEF Init
<1>2. IsList(rs) /\ \A r \in DOMAIN rs : rs[r].ready <= rs[r].pods
  <2>1. PICK size \in [IF NewExists THEN Sets ELSE Olds -> 0 .. replicas] :
          rs = [r \in DOMAIN size |->
                  [size |-> size[r], pods |-> size[r], ready |-> size[r],
                   desired |-> replicas, max |-> replicas + MaxSurge(replicas)]]
    BY DEF Init
  <2>2. \A r \in DOMAIN size : r \in Sets /\ size[r] \in Nat
    BY <1>1 DEF Sets
  <2>3. replicas + MaxSurge(replicas) \in Nat
    BY <1>1, SurgeType
  <2>. QED
    BY <1>1, <2>1, <2>2, <2>3 DEF IsList, SetType
<1>3. deStatus \in StatusType
  <2>1. PICK r \in Sets :
          deStatus = [replicas |-> replicas, updated |-> Pods(rs, {r}), observed |-> FALSE]
    BY DEF Init
  <2>. QED
    BY <1>1, <1>2, <2>1, SumsType DEF StatusType
<1>5. LocalsTyped
  BY EmptyList DEF Init, NoLocals, LocalsTyped, StatusType
<1>7. IsCopy(cache, failures)
  <2>1. cache = Copied(rs, 0) /\ failures = 0
    BY DEF Init
  <2>. QED
    BY <1>2, <2>1, BoundsType DEF Copied, IsCopy
<1>4. 0 \in StepIndices
  BY FirstStep DEF StepIndices
<1>6. OthersTyped /\ CountersTyped
  <2>1. /\ idx = 0 /\ state = "" /\ updated = 0 /\ queued = TRUE /\ pc = "idle"
    BY DEF Init
  <2>2. scales = 0 /\ failures = 0 /\ faults = 0 /\ lost = 0
    BY DEF Init
  <2>. QED
    <3>1. OthersTyped
      BY <1>1, <1>3, <1>4, <2>1 DEF OthersTyped
    <3>2. CountersTyped
      BY <2>2, BoundsType DEF CountersTyped
    <3>. QED BY <3>1, <3>2
<1>. QED
  BY <1>2, <1>5, <1>6, <1>7, TypeParts DEF ReadyPods

(* What is listed in surplus is a number.                                  *)
LEMMA SurplusType ==
  ASSUME NEW s, IsList(s)
  PROVE  Surplus(s) \in Nat
<1>1. IsFiniteSet(DOMAIN s)
  <2>1. IsFiniteSet(Sets)
    BY SetsAssumption, FS_AddElement DEF Sets
  <2>. QED
    BY <2>1, FS_Subset DEF IsList
<1>. DEFINE f == [r \in DOMAIN s |-> Greater(s[r].ready - s[r].size, 0)]
<1>2. \A r \in DOMAIN s : f[r] \in Nat
  BY DEF IsList, SetType, Greater
<1>3. DOMAIN f = DOMAIN s
  OBVIOUS
<1>. HIDE DEF f
<1>4. SumFunctionOnSet(f, DOMAIN f) \in Nat
  BY <1>1, <1>2, <1>3, SumType
<1>. QED
  BY <1>4 DEF Surplus, f, SumFunction

(* A reconcile that starts lists typed ReplicaSets.                        *)
LEMMA StartType ==
  ASSUME TypeInductive, NEW then, StartReconcile(then),
         then.pc \in {"sync", "step", "create", "new", "up", "down"},
         then.pc = "create" => New \notin DOMAIN cache.rs /\ then.todo = <<>>,
         then.pc \in {"new", "up", "down"} => New \in DOMAIN cache.rs
  PROVE  TypeInductive'
<1>0. /\ IsList(rs) /\ ReadyPods /\ OthersTyped /\ CountersTyped /\ LocalsTyped
      /\ IsCopy(cache, failures)
  BY TypeParts
<1>1. LocalsTyped'
  <2>1. /\ replicas \in Nat /\ deStatus \in StatusType
        /\ IsList(cache.rs) /\ Surplus(cache.rs) \in Nat /\ cache.missed \in BOOLEAN
    BY <1>0, SurplusType DEF OthersTyped, IsCopy
  <2>. QED
    BY <1>0, <2>1 DEF StartReconcile, LocalsTyped
<1>2. OthersTyped' /\ CountersTyped'
  <2>1. failures \in Nat
    BY <1>0, BoundsType DEF CountersTyped
  <2>2. UNCHANGED <<replicas, deStatus, idx, state, updated, scales, failures, faults>>
        /\ lost' = failures - cache.failures /\ queued' = FALSE /\ pc' = then.pc
    BY DEF StartReconcile, world, release
  <2>3. failures - cache.failures \in 0 .. failures
    BY <1>0, <2>1 DEF IsCopy
  <2>. QED
    <3>1. OthersTyped'
      BY <1>0, <2>2 DEF OthersTyped
    <3>2. CountersTyped'
      BY <1>0, <2>1, <2>2, <2>3 DEF CountersTyped
    <3>. QED BY <3>1, <3>2
<1>3. IsList(rs') /\ ReadyPods' /\ IsCopy(cache', failures')
  BY <1>0 DEF StartReconcile, world, ReadyPods
<1>. QED
  BY <1>1, <1>2, <1>3, TypePartsNext

(* A list with one more ReplicaSet.                                        *)
LEMMA WithNewType ==
  ASSUME NEW s, IsList(s), NEW q \in SetType
  PROVE  /\ IsList(WithNew(s, q))
         /\ DOMAIN WithNew(s, q) = DOMAIN s \cup {New}
         /\ \A r \in DOMAIN s \cup {New} :
              WithNew(s, q)[r] = IF r \in DOMAIN s THEN s[r] ELSE q
<1>1. New \in Sets
  BY DEF Sets
<1>2. WithNew(s, q) \in [DOMAIN s \cup {New} -> SetType]
  BY DEF WithNew, IsList
<1>. QED
  BY <1>1, <1>2 DEF WithNew, IsList

(* The reconcile gives up.                                                 *)
Stuck == rec' = [rec EXCEPT !.failed = TRUE] /\ pc' = "new"

(* A ReplicaSet with a size is created.                                    *)
IsFresh(q) ==
  /\ q \in SetType /\ q.pods = 0 /\ q.ready = 0 /\ q.desired = rec.replicas
  /\ \E r \in SetType :
       /\ r.size = 0
       /\ q.size = Greater(NewSize(WithNew(rec.rs, r), rec.replicas, idx),
                           NewRSReplicasLowerBound(rec.replicas, MaxSurge(rec.replicas)))

LEMMA CreateAddsASet ==
  ASSUME TypeInductive, CreateNew
  PROVE  /\ New \notin DOMAIN rs
         /\ \E q : IsFresh(q) /\ rs' = WithNew(rs, q) /\ (GoOnWith(q) \/ Stuck)
<1>0. OthersTyped /\ LocalsTyped
  BY TypeParts
<1>1. /\ rec.replicas \in Nat /\ IsList(rec.rs) /\ New \notin DOMAIN rec.rs
      /\ idx \in 0 .. Len(Steps) - 1
  BY <1>0 DEF LocalsTyped, CreateNew, OthersTyped, StepIndices
<1>. DEFINE n == rec.replicas
            fresh(k) == [size |-> k, pods |-> 0, ready |-> 0, desired |-> n,
                         max |-> n + MaxSurge(n)]
            size == Greater(NewSize(WithNew(rec.rs, fresh(0)), n, idx),
                            NewRSReplicasLowerBound(n, MaxSurge(n)))
            q == fresh(size)
<1>2. rs' = WithNew(rs, q) /\ (GoOnWith(q) \/ Stuck) /\ New \notin DOMAIN rs
  BY DEF CreateNew, CreateErrs, Stuck
<1>3. n \in Nat /\ MaxSurge(n) \in Nat
  BY <1>1, SurgeType
<1>4. \A k \in Nat : /\ fresh(k) \in SetType /\ fresh(k).size = k
                     /\ fresh(k).pods = 0 /\ fresh(k).ready = 0 /\ fresh(k).desired = n
  BY <1>3 DEF SetType
<1>. HIDE DEF fresh, n
<1>5. size \in Nat
  <2>1. NewSize(WithNew(rec.rs, fresh(0)), n, idx) \in Nat
    <3>. DEFINE least == fresh(0)
                u == WithNew(rec.rs, least)
    <3>1. least \in SetType /\ least.size = 0
      BY <1>4
    <3>. HIDE DEF least
    <3>. DEFINE l == rec.rs
    <3>. HIDE DEF l
    <3>2. /\ IsList(u) /\ DOMAIN u = DOMAIN l \cup {New}
          /\ \A r \in DOMAIN l \cup {New} : u[r] = IF r \in DOMAIN l THEN l[r] ELSE least
      BY <1>1, <3>1, WithNewType DEF l
    <3>. HIDE DEF u
    <3>3. New \in DOMAIN u /\ u[New] = least
      BY <1>1, <3>2 DEF l
    <3>4. u[New].size <= n
      BY <1>3, <3>1, <3>3
    <3>5. NewSize(u, n, idx) \in Nat
      BY <1>1, <1>3, <3>2, <3>4, <3>3, NewSizeGrows
    <3>. QED
      BY <3>5 DEF u, least
  <2>2. NewRSReplicasLowerBound(n, MaxSurge(n)) \in Nat
    BY <1>3 DEF NewRSReplicasLowerBound, Lesser
  <2>. QED
    BY <2>1, <2>2 DEF Greater
<1>6. q \in SetType /\ q.pods = 0 /\ q.ready = 0 /\ q.desired = rec.replicas /\ q.size = size
  <2>. HIDE DEF size
  <2>. QED BY <1>4, <1>5 DEF n
<1>7. IsFresh(q)
  <2>. DEFINE r == fresh(0)
  <2>1. r \in SetType /\ r.size = 0
    BY <1>4
  <2>2. size = Greater(NewSize(WithNew(rec.rs, r), n, idx), NewRSReplicasLowerBound(n, MaxSurge(n)))
    OBVIOUS
  <2>. HIDE DEF r, q, size
  <2>. QED
    BY <1>6, <2>1, <2>2 DEF IsFresh, n
<1>. HIDE DEF q
<1>. QED
  BY <1>2, <1>7

(* What the reconcile makes of it, or of one it finds.                     *)
LEMMA GoOnIs ==
  ASSUME LocalsTyped, NEW q \in SetType, GoOnWith(q)
  PROVE  LET t == WithNew(rec.rs, q)
         IN /\ IsList(t) /\ New \in DOMAIN t
            /\ rec' = [rec EXCEPT !.rs = t, !.todo = UpgradeStage(t, rec.replicas, idx).todo]
            /\ pc' = UpgradeStage(t, rec.replicas, idx).pc
            /\ pc' \in {"new", "up", "down"}
<1>. DEFINE l == rec.rs
<1>1. IsList(l)
  BY DEF LocalsTyped
<1>. HIDE DEF l
<1>2. IsList(WithNew(l, q)) /\ DOMAIN WithNew(l, q) = DOMAIN l \cup {New}
  BY <1>1, WithNewType
<1>. QED
  BY <1>2, UpgradeStagePc DEF l, GoOnWith

LEMMA CreatingTyped ==
  ASSUME LocalsTyped, pc = "create",
         Stuck \/ \E q \in SetType : GoOnWith(q)
  PROVE  LocalsTyped'
<1>1. CASE Stuck
  <2>1. rec.todo = <<>> /\ rec' = [rec EXCEPT !.failed = TRUE] /\ pc' = "new"
    BY <1>1 DEF Stuck, LocalsTyped
  <2>. QED
    BY <2>1 DEF LocalsTyped
<1>2. CASE \E q \in SetType : GoOnWith(q)
  <2>1. PICK q \in SetType : GoOnWith(q)
    BY <1>2
  <2>. DEFINE t == WithNew(rec.rs, q)
              todo == UpgradeStage(t, rec.replicas, idx).todo
  <2>2. /\ IsList(t) /\ New \in DOMAIN t /\ rec' = [rec EXCEPT !.rs = t, !.todo = todo]
        /\ pc' \in {"new", "up", "down"}
    BY <2>1, GoOnIs
  <2>. HIDE DEF t, todo
  <2>. QED
    BY <2>2 DEF LocalsTyped
<1>. QED
  BY <1>1, <1>2

(* The ReplicaSet that getNewReplicaSet creates, or finds, has a size.     *)
LEMMA CreateType ==
  ASSUME TypeInductive, CreateNew \/ FindCreated \/ CreateFails
  PROVE  TypeInductive'
<1>0. /\ IsList(rs) /\ ReadyPods /\ OthersTyped /\ CountersTyped /\ LocalsTyped
      /\ IsCopy(cache, failures) /\ failures \in Nat
  BY TypeParts, BoundsType DEF CountersTyped
<1>1. UNCHANGED <<replicas, deStatus, idx, state, updated, queued, scales, failures, lost>>
  BY DEF CreateNew, FindCreated, CreateFails, release, world, counters
<1>2. pc = "create" /\ pc' \in {"new", "up", "down"}
  BY CreatingGoesOn DEF CreateNew, FindCreated, CreateFails
<1>3. faults' = faults \/ (faults < MaxFaults /\ faults' = faults + 1)
  BY DEF CreateNew, FindCreated, CreateFails, CreateErrs, counters
<1>4. OthersTyped' /\ CountersTyped'
  <2>1. OthersTyped'
    BY <1>0, <1>1, <1>2 DEF OthersTyped
  <2>2. CountersTyped'
    BY <1>0, <1>1, <1>3, BoundsType DEF CountersTyped
  <2>. QED
    BY <2>1, <2>2
<1>5. CASE CreateNew
  <2>1. PICK q \in SetType : /\ q.pods = 0 /\ q.ready = 0
                             /\ rs' = WithNew(rs, q) /\ (GoOnWith(q) \/ Stuck)
    BY <1>5, CreateAddsASet DEF IsFresh
  <2>. DEFINE u == WithNew(rs, q)
  <2>2. /\ IsList(u) /\ DOMAIN u = DOMAIN rs \cup {New}
        /\ \A r \in DOMAIN u : u[r] = IF r \in DOMAIN rs THEN rs[r] ELSE q
    BY <1>0, WithNewType
  <2>. HIDE DEF u
  <2>3. IsList(rs') /\ ReadyPods'
    BY <1>0, <2>1, <2>2 DEF ReadyPods, u
  <2>4. LocalsTyped'
    BY <1>0, <1>2, <2>1, CreatingTyped
  <2>5. IsCopy(cache', failures')
    <3>1. Watch(TRUE)
      BY <1>5 DEF CreateNew
    <3>2. failures <= failures' /\ failures' \in Nat
      BY <1>0, <1>1
    <3>. QED
      BY <1>0, <2>3, <3>1, <3>2, WatchType
  <2>. QED
    BY <1>4, <2>3, <2>4, <2>5, TypePartsNext
<1>6. CASE FindCreated \/ CreateFails
  <2>1. rs' = rs /\ cache' = cache
    BY <1>6 DEF FindCreated, CreateFails, world
  <2>2. Stuck \/ \E q \in SetType : GoOnWith(q)
    <3>1. New \in DOMAIN cache.rs => cache.rs[New] \in SetType
      BY <1>0 DEF IsCopy, IsList
    <3>. QED
      BY <1>6, <3>1 DEF FindCreated, CreateFails, CreateErrs, Stuck
  <2>3. LocalsTyped'
    BY <1>0, <1>2, <2>2, CreatingTyped
  <2>4. IsList(rs') /\ ReadyPods' /\ IsCopy(cache', failures')
    BY <1>0, <1>1, <2>1 DEF ReadyPods
  <2>. QED
    BY <1>4, <2>3, <2>4, TypePartsNext
<1>. QED
  BY <1>5, <1>6

LEMMA PatchType ==
  ASSUME TypeInductive, PatchNext \/ PatchFails
  PROVE  TypeInductive'
<1>0. IsList(rs) /\ ReadyPods /\ OthersTyped /\ CountersTyped /\ LocalsTyped
  BY TypeParts
<1>1. /\ rec.replicas \in Nat /\ IsList(rec.rs) /\ IsList(rs)
      /\ IsCopy(cache, failures) /\ failures \in Nat
  BY <1>0, TypeParts, BoundsType DEF LocalsTyped, CountersTyped
<1>2. CASE PatchNext
  <2>. DEFINE p == Head(rec.todo)
              n == rec.replicas
  <2>1. /\ p.size \in Nat
        /\ rs' = Patched(rs, p, n)
        /\ rec' = [rec EXCEPT !.rs = Patched(rec.rs, p, n), !.todo = Tail(rec.todo),
                              !.scaled = rec.scaled \/ rec.rs[p.rs].size # p.size]
    BY <1>2 DEF PatchNext
  <2>2. UNCHANGED <<replicas, deStatus, idx, state, updated, queued, pc,
                    scales, failures, faults, lost>>
    BY <1>2 DEF PatchNext, release, counters
  <2>. HIDE DEF p, n
  <2>3. /\ IsList(rs') /\ DOMAIN rs' = DOMAIN rs
        /\ \A r \in DOMAIN rs : rs'[r].pods = rs[r].pods /\ rs'[r].ready = rs[r].ready
    BY <1>1, <2>1, PatchedType DEF n
  <2>4. IsList(Patched(rec.rs, p, n)) /\ DOMAIN Patched(rec.rs, p, n) = DOMAIN rec.rs
    BY <1>1, <2>1, PatchedType DEF n
  <2>5. LocalsTyped'
    <3>. DEFINE s == Patched(rec.rs, p, n)
                scaled == rec.scaled \/ rec.rs[p.rs].size # p.size
                todo == Tail(rec.todo)
    <3>. HIDE DEF s, todo
    <3>1. scaled \in BOOLEAN
      BY DEF TypeInductive, LocalsTyped
    <3>. HIDE DEF scaled
    <3>2. rec' = [rec EXCEPT !.rs = s, !.todo = todo, !.scaled = scaled]
      BY <2>1 DEF s, todo, scaled
    <3>3. rec.todo # <<>>
      BY <1>2 DEF PatchNext
    <3>4. IsList(s) /\ DOMAIN s = DOMAIN rec.rs
      BY <2>4 DEF s
    <3>. QED
      BY <2>2, <3>1, <3>2, <3>3, <3>4 DEF TypeInductive, LocalsTyped
  <2>6. ReadyPods'
    BY <2>3, TypeParts DEF ReadyPods
  <2>7. OthersTyped' /\ CountersTyped'
    <3>1. OthersTyped'
      BY <1>0, <2>2 DEF OthersTyped
    <3>2. CountersTyped'
      BY <1>0, <2>2 DEF CountersTyped
    <3>. QED BY <3>1, <3>2
  <2>8. IsCopy(cache', failures')
    <3>1. Watch(TRUE)
      BY <1>2 DEF PatchNext
    <3>2. failures <= failures' /\ failures' \in Nat
      BY <1>1, <2>2
    <3>. QED
      BY <1>1, <2>3, <3>1, <3>2, WatchType
  <2>. QED
    BY <2>3, <2>5, <2>6, <2>7, <2>8, TypePartsNext
<1>3. CASE PatchFails
  <2>1. rec' = [rec EXCEPT !.todo = <<>>, !.failed = TRUE]
    BY <1>3 DEF PatchFails
  <2>2. UNCHANGED <<rs, replicas, deStatus, idx, state, updated, queued, pc,
                    scales, failures, lost>> /\ faults' \in {faults, faults + 1}
    BY <1>3 DEF PatchFails, release, world
  <2>3. faults' = faults \/ (faults < MaxFaults /\ faults' = faults + 1)
    BY <1>3 DEF PatchFails
  <2>4. LocalsTyped'
    BY <2>1, <2>2 DEF TypeInductive, LocalsTyped
  <2>5. OthersTyped' /\ CountersTyped'
    <3>1. OthersTyped'
      BY <1>0, <2>2 DEF OthersTyped
    <3>2. CountersTyped'
      BY <1>0, <2>2, <2>3, BoundsType DEF CountersTyped
    <3>. QED BY <3>1, <3>2
  <2>6. IsList(rs') /\ ReadyPods' /\ IsCopy(cache', failures')
    BY <1>1, <1>3, <2>2, TypeParts DEF ReadyPods, PatchFails
  <2>. QED
    BY <2>4, <2>5, <2>6, TypePartsNext
<1>. QED
  BY <1>2, <1>3

(* What a reconcile writes at its end.                                     *)
LEMMA EndReconcileType ==
  ASSUME TypeInductive, NEW newState, NEW newIdx, NEW newUpdated, NEW err,
         EndReconcile(newState, newIdx, newUpdated, err),
         newState \in {"", "Initial", "Upgrade", "Blocking", "Completed", "Finalizing"},
         newIdx \in StepIndices, newUpdated \in Nat
  PROVE  TypeInductive'
<1>0. /\ IsList(rs) /\ ReadyPods /\ OthersTyped /\ CountersTyped /\ LocalsTyped
      /\ IsCopy(cache, failures)
  BY TypeParts
<1>1. /\ UNCHANGED <<rs, cache, replicas, deStatus, scales, failures, faults, lost>>
      /\ pc' = "idle" /\ state' = newState /\ idx' = newIdx /\ updated' = newUpdated
      /\ rec' = NoLocals
  BY DEF EndReconcile, world, counters
<1>2. queued' \in BOOLEAN
  BY Zenon DEF EndReconcile
<1>3. OthersTyped'
  BY <1>0, <1>1, <1>2 DEF OthersTyped
<1>4. CountersTyped' /\ IsList(rs') /\ ReadyPods' /\ IsCopy(cache', failures')
  BY <1>0, <1>1 DEF CountersTyped, ReadyPods
<1>5. LocalsTyped'
  <2>1. /\ NoLocals \in [rs : {NoLocals.rs}, replicas : Nat, deStatus : StatusType,
                         todo : {NoLocals.todo}, scaled : BOOLEAN, failed : BOOLEAN,
                         missed : BOOLEAN, surplus : Nat]
        /\ NoLocals.rs = <<>> /\ NoLocals.todo = <<>>
    BY DEF NoLocals, StatusType
  <2>. QED
    BY <1>1, <2>1, EmptyList DEF LocalsTyped
<1>. QED
  BY <1>3, <1>4, <1>5, TypePartsNext

LEMMA EndType ==
  ASSUME TypeInductive, EndSync \/ EndUpgrade \/ EndStep
  PROVE  TypeInductive'
<1>0. OthersTyped /\ LocalsTyped
  BY TypeParts
<1>1. idx \in StepIndices /\ updated \in Nat
      /\ state \in {"", "Initial", "Upgrade", "Blocking", "Completed", "Finalizing"}
  BY <1>0 DEF OthersTyped
<1>2. CASE EndSync
  BY <1>1, <1>2, EndReconcileType DEF EndSync
<1>3. CASE EndUpgrade
  <2>1. CASE EndReconcile(state, idx, updated, TRUE)
    BY <1>1, <2>1, EndReconcileType
  <2>2. CASE ~EndReconcile(state, idx, updated, TRUE)
    <3>1. New \in DOMAIN rec.rs
      BY <1>0, <1>3, <2>2 DEF EndUpgrade, Told, LocalsTyped
    <3>2. rec.rs[New].ready \in Nat
      BY <1>0, <3>1 DEF LocalsTyped, IsList, SetType
    <3>3. \/ EndReconcile(state, idx, rec.rs[New].ready, FALSE)
          \/ EndReconcile(IF IsBatchReady THEN "Blocking" ELSE state, idx,
                          rec.rs[New].ready, ~IsBatchReady)
      BY <1>3, <2>2 DEF EndUpgrade
    <3>. QED
      BY <1>1, <3>2, <3>3, EndReconcileType
  <2>. QED
    BY <2>1, <2>2
<1>4. CASE EndStep
  <2>1. \/ \E next \in {"Blocking", "Completed", "Finalizing", "Upgrade"} :
             EndReconcile(next, idx, updated, FALSE)
        \/ ~LastStep /\ EndReconcile("Initial", idx + 1, updated, FALSE)
    <3>1. CASE state = "Blocking"
      BY <1>4, <3>1 DEF EndStep
    <3>2. CASE state = "Completed"
      BY <1>4, <3>2 DEF EndStep
    <3>3. CASE state \notin {"Blocking", "Completed"}
      BY <1>4, <3>3 DEF EndStep
    <3>. QED
      BY <3>1, <3>2, <3>3
  <2>2. ~LastStep => idx + 1 \in StepIndices
    <3>1. Len(Steps) \in Nat
      BY PlanAssumption
    <3>. DEFINE steps == Len(Steps)
    <3>2. idx \in 0 .. steps - 1 /\ (LastStep <=> idx = steps - 1)
      BY <1>1 DEF LastStep, StepIndices
    <3>3. steps \in Nat
      BY <3>1
    <3>. HIDE DEF steps
    <3>4. ~LastStep => idx + 1 \in 0 .. steps - 1
      BY <3>2, <3>3
    <3>. QED
      BY <3>4 DEF StepIndices, steps
  <2>. QED
    BY <1>1, <2>1, <2>2, EndReconcileType
<1>. QED
  BY <1>2, <1>3, <1>4

LEMMA ReconcileType ==
  ASSUME TypeInductive, Reconcile
  PROVE  TypeInductive'
<1>1. CASE StartSync
  BY <1>1, StartType DEF StartSync
<1>2. CASE StartUpgrade
  <2>. DEFINE stage == UpgradeStage(cache.rs, replicas, idx)
              create == [pc |-> "create", todo |-> <<>>]
  <2>1. stage.pc \in {"new", "up", "down"}
    BY UpgradeStagePc
  <2>. HIDE DEF stage
  <2>2. StartReconcile(IF New \in DOMAIN cache.rs THEN stage ELSE create)
    BY <1>2 DEF StartUpgrade, stage
  <2>3. CASE New \in DOMAIN cache.rs
    BY <2>1, <2>2, <2>3, StartType
  <2>4. CASE New \notin DOMAIN cache.rs
    BY <2>2, <2>4, StartType
  <2>. QED
    BY <2>3, <2>4
<1>3. CASE StartStep
  BY <1>3, StartType DEF StartStep
<1>. QED
  BY <1>1, <1>2, <1>3, CreateType, PatchType, EndType DEF Reconcile

(* One ReplicaSet changes on the API server.                               *)
LEMMA SetChanged ==
  ASSUME IsList(rs), ReadyPods, NEW r, NEW q,
         r \in DOMAIN rs => q \in SetType /\ q.ready <= q.pods,
         rs' = [rs EXCEPT ![r] = q]
  PROVE  IsList(rs') /\ ReadyPods'
<1>1. rs \in [DOMAIN rs -> SetType] /\ DOMAIN rs \subseteq Sets
  BY DEF IsList
<1>2. DOMAIN rs' = DOMAIN rs /\ \A x \in DOMAIN rs : rs'[x] = IF x = r THEN q ELSE rs[x]
  BY <1>1
<1>3. rs' \in [DOMAIN rs -> SetType]
  BY <1>1
<1>. QED
  BY <1>1, <1>2, <1>3 DEF IsList, ReadyPods

(* No other process touches the locals of a reconcile, or creates or       *)
(* deletes ReplicaSets.                                                    *)
LEMMA ClusterKeepsRec ==
  ASSUME Cluster \/ UNCHANGED vars
  PROVE  pc' = pc /\ rec' = rec /\ DOMAIN rs' = DOMAIN rs
<1>1. CASE Pod \/ \E r \in DOMAIN rs : PodFails(r)
  BY <1>1 DEF Pod, ReplicaSetControllerActs, PodBecomesReady, PodFails
<1>2. CASE NativeScales
  BY <1>2 DEF NativeScales, NativeResizes
<1>3. CASE NativeReports \/ (\E n \in Targets : UserScales(n)) \/ UserContinues
             \/ Deliver \/ UNCHANGED vars
  BY <1>3 DEF NativeReports, UserScales, UserContinues, Deliver, world, vars
<1>. QED
  BY <1>1, <1>2, <1>3 DEF Cluster

(* What it changes, the informer delivers at once or later.                *)
LEMMA ClusterWatched ==
  ASSUME Cluster \/ UNCHANGED vars
  PROVE  \/ Watch(FALSE)
         \/ cache' = cache /\ rs' = rs /\ failures' = failures
         \/ cache' = Copied(rs, failures) /\ rs' = rs /\ failures' = failures
<1>1. CASE Pod \/ NativeScales \/ \E r \in DOMAIN rs : PodFails(r)
  BY <1>1 DEF Pod, ReplicaSetControllerActs, PodBecomesReady, NativeScales, NativeResizes,
    PodFails
<1>2. CASE NativeReports \/ (\E n \in Targets : UserScales(n)) \/ UserContinues \/ UNCHANGED vars
  BY <1>2 DEF NativeReports, UserScales, UserContinues, world, counters, vars
<1>3. CASE Deliver
  BY <1>3 DEF Deliver, world, counters
<1>. QED
  BY <1>1, <1>2, <1>3 DEF Cluster

LEMMA ClusterType ==
  ASSUME TypeInductive, Cluster \/ UNCHANGED vars
  PROVE  TypeInductive'
<1>0. /\ IsList(rs) /\ ReadyPods /\ OthersTyped /\ CountersTyped /\ LocalsTyped
      /\ IsCopy(cache, failures)
  BY TypeParts
<1>1. \A r \in DOMAIN rs : rs[r] \in SetType /\ rs[r].ready <= rs[r].pods
  BY <1>0 DEF IsList, ReadyPods
<1>2. pc' = pc /\ rec' = rec
  BY ClusterKeepsRec
<1>3. LocalsTyped'
  BY <1>0, <1>2 DEF LocalsTyped
<1>4. IsList(rs') /\ ReadyPods'
  <2>1. CASE Pod
    <3>1. PICK r \in DOMAIN rs : ReplicaSetControllerActs(r) \/ PodBecomesReady(r)
      BY <2>1 DEF Pod
    <3>2. CASE ReplicaSetControllerActs(r)
      <4>. DEFINE q == [rs[r] EXCEPT !.pods = rs[r].size,
                                     !.ready = Lesser(rs[r].ready, rs[r].size)]
      <4>1. rs' = [rs EXCEPT ![r] = q]
        BY <3>2 DEF ReplicaSetControllerActs
      <4>2. q \in SetType /\ q.ready <= q.pods
        <5>. DEFINE least == Lesser(rs[r].ready, rs[r].size)
        <5>1. least \in Nat /\ least <= rs[r].size
          BY <1>1 DEF SetType, Lesser
        <5>. HIDE DEF least
        <5>2. q = [rs[r] EXCEPT !.pods = rs[r].size, !.ready = least]
          BY DEF least
        <5>. QED
          BY <1>1, <5>1, <5>2 DEF SetType
      <4>. HIDE DEF q
      <4>. QED
        BY <1>0, <4>1, <4>2, SetChanged
    <3>3. CASE PodBecomesReady(r)
      <4>. DEFINE q == [rs[r] EXCEPT !.ready = rs[r].ready + 1]
      <4>1. rs' = [rs EXCEPT ![r] = q] /\ rs[r].ready < rs[r].pods
        BY <3>3 DEF PodBecomesReady
      <4>2. q \in SetType /\ q.ready <= q.pods
        BY <1>1, <4>1 DEF SetType
      <4>. HIDE DEF q
      <4>. QED
        BY <1>0, <4>1, <4>2, SetChanged
    <3>. QED
      BY <3>1, <3>2, <3>3
  <2>2. CASE \E r \in DOMAIN rs : PodFails(r)
    <3>1. PICK r \in DOMAIN rs : PodFails(r)
      BY <2>2
    <3>. DEFINE q == [rs[r] EXCEPT !.ready = rs[r].ready - 1]
    <3>2. rs' = [rs EXCEPT ![r] = q] /\ rs[r].ready > 0
      BY <3>1 DEF PodFails
    <3>3. q \in SetType /\ q.ready <= q.pods
      BY <1>1, <3>2 DEF SetType
    <3>. HIDE DEF q
    <3>. QED
      BY <1>0, <3>2, <3>3, SetChanged
  <2>3. CASE NativeScales
    <3>1. PICK r : NativeResizes(r, replicas) \/ NativeResizes(r, 0)
      BY <2>3 DEF NativeScales
    <3>2. PICK size \in {replicas, 0} : NativeResizes(r, size)
      BY <3>1
    <3>. DEFINE q == [rs[r] EXCEPT !.size = size, !.desired = replicas, !.max = replicas]
    <3>3. rs' = [rs EXCEPT ![r] = q]
      BY <3>2 DEF NativeResizes
    <3>4. replicas \in Nat
      BY <1>0 DEF OthersTyped
    <3>5. r \in DOMAIN rs => q \in SetType /\ q.ready <= q.pods
      <4>1. size \in Nat
        BY <3>4
      <4>2. SUFFICES ASSUME r \in DOMAIN rs PROVE q \in SetType /\ q.ready <= q.pods
        OBVIOUS
      <4>3. rs[r] \in SetType /\ rs[r].ready <= rs[r].pods
        BY <1>1, <4>2
      <4>. QED
        BY <3>4, <4>1, <4>3 DEF SetType
    <3>. HIDE DEF q
    <3>. QED
      BY <1>0, <3>3, <3>5, SetChanged
  <2>4. CASE NativeReports \/ (\E n \in Targets : UserScales(n)) \/ UserContinues
               \/ Deliver \/ UNCHANGED vars
    <3>1. rs' = rs
      BY <2>4 DEF NativeReports, UserScales, UserContinues, Deliver, world, vars
    <3>. QED
      BY <1>0, <3>1 DEF ReadyPods
  <2>. QED
    BY <2>1, <2>2, <2>3, <2>4 DEF Cluster
<1>5. OthersTyped' /\ CountersTyped'
  <2>1. CASE Pod \/ NativeScales \/ Deliver \/ UNCHANGED vars
    <3>1. UNCHANGED <<replicas, deStatus, idx, state, updated, queued, pc,
                      scales, failures, faults, lost>>
      BY <2>1 DEF Pod, ReplicaSetControllerActs, PodBecomesReady, NativeScales, NativeResizes,
        Deliver, release, world, counters, vars
    <3>2. OthersTyped'
      BY <1>0, <3>1 DEF OthersTyped
    <3>3. CountersTyped'
      BY <1>0, <3>1 DEF CountersTyped
    <3>. QED BY <3>2, <3>3
  <2>2. CASE \E r \in DOMAIN rs : PodFails(r)
    <3>1. UNCHANGED <<replicas, deStatus, idx, state, updated, queued, pc>>
      BY <2>2 DEF PodFails, release
    <3>2. /\ scales' = scales /\ faults' = faults
          /\ failures < MaxFailures /\ failures' = failures + 1 /\ lost' = lost + 1
      BY <2>2 DEF PodFails
    <3>3. OthersTyped'
      BY <1>0, <3>1 DEF OthersTyped
    <3>4. CountersTyped'
      BY <1>0, <3>2, BoundsType DEF CountersTyped
    <3>. QED BY <3>3, <3>4
  <2>3. CASE NativeReports
    <3>1. UNCHANGED <<replicas, idx, state, updated, queued, pc, scales, failures, faults, lost>>
      BY <2>3 DEF NativeReports, release, counters
    <3>2. deStatus' = [replicas |-> Pods(rs, Sets), updated |-> Pods(rs, {New}), observed |-> TRUE]
      BY <2>3 DEF NativeReports
    <3>3. deStatus' \in StatusType
      BY <1>0, <3>2, SumsType DEF StatusType
    <3>4. OthersTyped'
      BY <1>0, <3>1, <3>3 DEF OthersTyped
    <3>5. CountersTyped'
      BY <1>0, <3>1 DEF CountersTyped
    <3>. QED BY <3>4, <3>5
  <2>4. CASE \E n \in Targets : UserScales(n)
    <3>1. PICK n \in Targets : UserScales(n)
      BY <2>4
    <3>2. n \in Nat
      BY SizeAssumption
    <3>3. /\ UNCHANGED <<idx, state, updated, pc>> /\ replicas' = n /\ queued' = TRUE
      BY <3>1 DEF UserScales, release
    <3>4. /\ UNCHANGED <<failures, faults, lost>>
          /\ scales < MaxScales /\ scales' = scales + 1
      BY <3>1 DEF UserScales
    <3>5. deStatus' \in StatusType
      <4>1. deStatus' = [deStatus EXCEPT !.observed = FALSE] /\ deStatus \in StatusType
        BY <1>0, <3>1 DEF UserScales, OthersTyped
      <4>. QED
        BY <4>1 DEF StatusType
    <3>6. OthersTyped'
      BY <1>0, <3>2, <3>3, <3>5 DEF OthersTyped
    <3>7. CountersTyped'
      BY <1>0, <3>4, BoundsType DEF CountersTyped
    <3>. QED BY <3>6, <3>7
  <2>5. CASE UserContinues
    <3>1. /\ UNCHANGED <<replicas, deStatus, idx, updated, pc>>
          /\ state' = "Completed" /\ queued' = TRUE
      BY <2>5 DEF UserContinues, world
    <3>2. UNCHANGED <<scales, failures, faults, lost>>
      BY <2>5 DEF UserContinues, counters
    <3>3. OthersTyped'
      BY <1>0, <3>1 DEF OthersTyped
    <3>4. CountersTyped'
      BY <1>0, <3>2 DEF CountersTyped
    <3>. QED BY <3>3, <3>4
  <2>. QED
    BY <2>1, <2>2, <2>3, <2>4, <2>5 DEF Cluster
<1>6. IsCopy(cache', failures')
  <2>1. failures \in Nat /\ failures' \in Nat
    BY <1>0, <1>5, BoundsType DEF CountersTyped
  <2>2. failures <= failures'
    <3>1. CASE \E r \in DOMAIN rs : PodFails(r)
      BY <2>1, <3>1 DEF PodFails
    <3>2. CASE ~\E r \in DOMAIN rs : PodFails(r)
      <4>1. failures' = failures
        BY <3>2 DEF Cluster, Pod, ReplicaSetControllerActs, PodBecomesReady, NativeScales,
          NativeResizes, NativeReports, Deliver, UserScales, UserContinues, counters, vars
      <4>. QED
        BY <2>1, <4>1
    <3>. QED
      BY <3>1, <3>2
  <2>3. CASE Watch(FALSE)
    BY <1>0, <1>4, <2>1, <2>2, <2>3, WatchType
  <2>4. CASE cache' = cache /\ failures' = failures
    BY <1>0, <2>4
  <2>5. CASE cache' = Copied(rs, failures) /\ failures' = failures
    BY <1>0, <2>1, <2>5, BoundsType DEF Copied, IsCopy
  <2>. QED
    BY <2>3, <2>4, <2>5, ClusterWatched
<1>. QED
  BY <1>3, <1>4, <1>5, <1>6, TypePartsNext

(* The copy is up to date, or what it was.                                 *)
LEMMA ClusterCopies ==
  ASSUME TypeInductive, Cluster \/ UNCHANGED vars
  PROVE  \/ cache' = Copied(rs', failures')
         \/ /\ cache'.rs = cache.rs /\ cache'.missed = cache.missed
            /\ cache'.failures = cache.failures
<1>1. IsCopy(cache, failures)
  BY TypeParts
<1>2. CASE Watch(FALSE)
  <2>1. CASE cache' = [cache EXCEPT !.behind = cache.behind + 1,
                                    !.missed = cache.missed \/ FALSE]
    <3>. DEFINE m == cache.missed \/ FALSE
    <3>1. m = cache.missed
      BY <1>1 DEF IsCopy
    <3>. HIDE DEF m
    <3>2. cache' = [cache EXCEPT !.behind = cache.behind + 1, !.missed = m]
      BY <2>1 DEF m
    <3>. QED
      BY <1>1, <3>1, <3>2 DEF IsCopy
  <2>. QED
    BY <1>2, <2>1 DEF Watch
<1>. QED
  BY <1>2, ClusterWatched

LEMMA TypeNext == TypeInductive /\ [Next]_vars => TypeInductive'
BY ReconcileType, ClusterType, NextIs

(* No ReplicaSet or counter ever becomes negative, no list of ReplicaSets  *)
(* is read past what it has, and CurrentStepIndex names a step, however    *)
(* many ReplicaSets there are and wherever reconciles are interrupted      *)
(* (rollingUpdate, scale, getNewReplicaSet, scaleReplicaSet).              *)
THEOREM TypeCorrect == Spec => []TypeOK
<1>1. TypeInductive => TypeOK
  BY DEF TypeInductive
<1>. QED
  BY <1>1, TypeInit, TypeNext, PTL DEF Spec

(* The reconciles of the batches are steps of ReleaseProtocol, whatever    *)
(* fails while ReplicaSets are patched and whatever users scale: a step is *)
(* left only once completed (stepByStep, sync).                            *)
THEOREM StepsAreProtocol == Spec => StepsKeepProtocol
<1>1. ProtocolInductive /\ [Next]_vars => ProtocolInductive'
  BY ReconcileKeepsProtocol, ClusterKeepsProtocol, NextIs
<1>2. TypeInductive /\ ProtocolInductive /\ [Next]_vars
        => [Protocol!StepMachine]_<<idx, state>>
  BY StepProtocol DEF TypeInductive
<1>. QED
  BY <1>1, <1>2, TypeInit, TypeNext, ProtocolInit, PTL DEF Spec, StepsKeepProtocol

(***************************************************************************)
(* Steps of a reconcile                                                    *)
(***************************************************************************)
LEMMA TypedFacts ==
  ASSUME TypeInductive
  PROVE  /\ IsList(rs) /\ IsList(rec.rs) /\ rec.replicas \in Nat /\ replicas \in Nat
         /\ idx \in 0 .. Len(Steps) - 1 /\ lost \in Nat
         /\ IsList(cache.rs) /\ IsCopy(cache, failures) /\ failures \in Nat
         /\ pc = "idle" => rec.todo = <<>>
         /\ pc = "create" => New \notin DOMAIN rec.rs /\ rec.todo = <<>>
         /\ pc \in {"up", "down"} => New \in DOMAIN rec.rs
<1>1. IsList(rs) /\ OthersTyped /\ CountersTyped /\ LocalsTyped /\ IsCopy(cache, failures)
  BY TypeParts
<1>2. replicas \in Nat /\ idx \in 0 .. Len(Steps) - 1
  BY <1>1 DEF OthersTyped, StepIndices
<1>3. lost \in Nat /\ failures \in Nat
  <2>1. failures \in Nat
    BY <1>1, BoundsType DEF CountersTyped
  <2>. QED
    BY <1>1, <2>1 DEF CountersTyped
<1>4. rec.replicas \in Nat /\ IsList(rec.rs)
  BY <1>1 DEF LocalsTyped
<1>5. /\ pc = "create" => New \notin DOMAIN rec.rs /\ rec.todo = <<>>
      /\ pc = "idle" => rec.todo = <<>>
  BY <1>1 DEF LocalsTyped
<1>6. pc \in {"up", "down"} => New \in DOMAIN rec.rs
  BY <1>1 DEF LocalsTyped
<1>7. IsList(cache.rs)
  BY <1>1 DEF IsCopy
<1>. QED
  BY <1>1, <1>2, <1>3, <1>4, <1>5, <1>6, <1>7

LEMMA Starts ==
  ASSUME TypeInductive, StartSync \/ StartUpgrade \/ StartStep
  PROVE  LET l == cache.rs
             stage == UpgradeStage(l, replicas, idx)
         IN /\ rs' = rs /\ cache' = cache /\ replicas' = replicas /\ idx' = idx
            /\ failures' = failures /\ deStatus' = deStatus /\ lost' = failures - cache.failures
            /\ rec'.rs = l /\ rec'.replicas = replicas /\ rec'.deStatus = deStatus
            /\ rec'.missed = cache.missed /\ rec'.surplus = Surplus(l)
            /\ \/ /\ pc' = "sync" /\ IsScalingEvent(l, replicas)
                  /\ rec'.todo = Scale(l, replicas)
               \/ pc' = "step" /\ rec'.todo = <<>>
               \/ /\ pc' = "create" /\ rec'.todo = <<>>
                  /\ ~IsScalingEvent(l, replicas) /\ New \notin DOMAIN l
               \/ /\ ~IsScalingEvent(l, replicas) /\ New \in DOMAIN l
                  /\ pc' = stage.pc /\ rec'.todo = stage.todo /\ pc' \in {"new", "up", "down"}
<1>. DEFINE l == cache.rs
            stage == UpgradeStage(l, replicas, idx)
            create == [pc |-> "create", todo |-> <<>>]
            then == IF New \in DOMAIN l THEN stage ELSE create
<1>1. ASSUME NEW goOn, StartReconcile(goOn)
      PROVE  /\ rs' = rs /\ cache' = cache /\ replicas' = replicas /\ idx' = idx
             /\ failures' = failures /\ deStatus' = deStatus /\ lost' = failures - cache.failures
             /\ rec'.rs = l /\ rec'.replicas = replicas /\ rec'.deStatus = deStatus
             /\ rec'.missed = cache.missed /\ rec'.surplus = Surplus(l)
             /\ pc' = goOn.pc /\ rec'.todo = goOn.todo
  BY <1>1 DEF StartReconcile, world, release
<1>2. stage.pc \in {"new", "up", "down"}
  BY UpgradeStagePc
<1>3. CASE StartSync
  <2>. DEFINE goOn == [pc |-> "sync", todo |-> Scale(l, replicas)]
  <2>1. StartReconcile(goOn) /\ IsScalingEvent(l, replicas)
    BY <1>3 DEF StartSync
  <2>2. goOn.pc = "sync" /\ goOn.todo = Scale(l, replicas)
    OBVIOUS
  <2>. HIDE DEF goOn, l
  <2>. QED
    BY <1>1, <2>1, <2>2 DEF l
<1>4. CASE StartStep
  <2>. DEFINE goOn == [pc |-> "step", todo |-> <<>>]
  <2>1. StartReconcile(goOn)
    BY <1>4 DEF StartStep
  <2>2. goOn.pc = "step" /\ goOn.todo = <<>>
    OBVIOUS
  <2>. HIDE DEF goOn, l
  <2>. QED
    BY <1>1, <2>1, <2>2 DEF l
<1>5. CASE StartUpgrade
  <2>1. StartReconcile(then) /\ ~IsScalingEvent(l, replicas)
    BY <1>5 DEF StartUpgrade
  <2>2. /\ New \in DOMAIN l => then.pc = stage.pc /\ then.todo = stage.todo
        /\ New \notin DOMAIN l => then.pc = "create" /\ then.todo = <<>>
    OBVIOUS
  <2>. HIDE DEF then, stage, l
  <2>. QED
    BY <1>1, <1>2, <2>1, <2>2 DEF stage, l
<1>. QED
  BY <1>3, <1>4, <1>5

(* A change of ours: the informer has delivered it, or the copy misses it. *)
Missable == cache' = Copied(rs', failures') \/ (cache'.rs = cache.rs /\ cache'.missed = TRUE)

LEMMA OursWatched ==
  ASSUME TypeInductive, Watch(TRUE)
  PROVE  Missable
<1>1. IsCopy(cache, failures)
  BY TypeParts
<1>2. CASE cache' = Copied(rs', failures')
  BY <1>2 DEF Missable
<1>3. CASE cache' = [cache EXCEPT !.behind = cache.behind + 1, !.missed = cache.missed \/ TRUE]
  <2>1. cache' = [cache EXCEPT !.behind = cache.behind + 1, !.missed = TRUE]
    BY <1>3
  <2>. QED
    BY <1>1, <2>1 DEF IsCopy, Missable
<1>. QED
  BY <1>2, <1>3 DEF Watch

(* What a reconcile leaves alone once it has begun.                        *)
Goes ==
  /\ idx' = idx /\ replicas' = replicas /\ lost' = lost /\ failures' = failures
  /\ deStatus' = deStatus
  /\ rec'.replicas = rec.replicas /\ rec'.deStatus = rec.deStatus
  /\ rec'.missed = rec.missed /\ rec'.surplus = rec.surplus

LEMMA Patches ==
  ASSUME TypeInductive, PatchNext
  PROVE  LET p == Head(rec.todo)
             n == rec.replicas
         IN /\ rec.todo # <<>> /\ p.size \in Nat /\ rs[p.rs] = rec.rs[p.rs]
            /\ rs' = Patched(rs, p, n) /\ rec'.rs = Patched(rec.rs, p, n)
            /\ rec'.todo = Tail(rec.todo)
            /\ pc' = pc /\ pc # "idle" /\ Goes /\ Missable
<1>. DEFINE p == Head(rec.todo)
            n == rec.replicas
            s == Patched(rec.rs, p, n)
            t == Patched(rs, p, n)
            scaled == rec.scaled \/ rec.rs[p.rs].size # p.size
            todo == Tail(rec.todo)
<1>0. LocalsTyped
  BY DEF TypeInductive
<1>1. /\ rec.todo # <<>> /\ p.size \in Nat /\ rs[p.rs] = rec.rs[p.rs]
      /\ rs' = t /\ pc' = pc /\ idx' = idx /\ replicas' = replicas /\ lost' = lost
      /\ failures' = failures /\ deStatus' = deStatus
      /\ rec' = [rec EXCEPT !.rs = s, !.todo = todo, !.scaled = scaled]
  BY DEF PatchNext, release, counters
<1>2. Missable
  <2>1. Watch(TRUE)
    BY DEF PatchNext
  <2>. QED
    BY <2>1, OursWatched
<1>. HIDE DEF s, t, scaled, todo
<1>3. /\ rec'.rs = s /\ rec'.todo = todo /\ rec'.replicas = rec.replicas
      /\ rec'.missed = rec.missed /\ rec'.surplus = rec.surplus /\ rec'.deStatus = rec.deStatus
  BY <1>0, <1>1 DEF LocalsTyped
<1>4. pc # "idle"
  BY <1>1, TypedFacts
<1>. QED
  BY <1>1, <1>2, <1>3, <1>4 DEF s, t, todo, Goes

LEMMA Fails ==
  ASSUME TypeInductive, PatchFails
  PROVE  /\ rec.todo # <<>> /\ rs' = rs /\ cache' = cache
         /\ rec'.rs = rec.rs /\ rec'.todo = <<>>
         /\ pc' = pc /\ pc # "idle" /\ Goes
<1>0. LocalsTyped
  BY DEF TypeInductive
<1>1. /\ rec.todo # <<>> /\ rec' = [rec EXCEPT !.todo = <<>>, !.failed = TRUE]
      /\ rs' = rs /\ pc' = pc /\ idx' = idx /\ replicas' = replicas /\ lost' = lost
      /\ cache' = cache /\ failures' = failures /\ deStatus' = deStatus
  BY DEF PatchFails, world, release
<1>2. /\ rec'.rs = rec.rs /\ rec'.todo = <<>> /\ rec'.replicas = rec.replicas
      /\ rec'.missed = rec.missed /\ rec'.surplus = rec.surplus /\ rec'.deStatus = rec.deStatus
  BY <1>0, <1>1 DEF LocalsTyped
<1>3. pc # "idle"
  BY <1>1, TypedFacts
<1>. QED
  BY <1>1, <1>2, <1>3 DEF Goes

(* getNewReplicaSet goes on with q, or gives up.                           *)
GoesOnWith(q) ==
  LET t == WithNew(rec.rs, q)
  IN /\ rec'.rs = t
     /\ rec'.todo = UpgradeStage(t, rec.replicas, idx).todo
     /\ pc' = UpgradeStage(t, rec.replicas, idx).pc
     /\ pc' \in {"new", "up", "down"}

GivesUp == rec'.rs = rec.rs /\ rec'.todo = <<>> /\ pc' = "new"

Creates(q) == /\ New \notin DOMAIN rs /\ IsFresh(q)
              /\ rs' = WithNew(rs, q) /\ Missable /\ (GoesOnWith(q) \/ GivesUp)

Finds == /\ rs' = rs /\ cache' = cache
         /\ \/ GivesUp
            \/ New \in DOMAIN rs /\ New \in DOMAIN cache.rs /\ GoesOnWith(cache.rs[New])

LEMMA Creating ==
  ASSUME TypeInductive, CreateNew \/ FindCreated \/ CreateFails
  PROVE  pc = "create" /\ Goes /\ (Finds \/ \E q : Creates(q))
<1>0. LocalsTyped /\ IsCopy(cache, failures)
  BY TypeParts
<1>1. /\ pc = "create" /\ idx' = idx /\ replicas' = replicas /\ lost' = lost
      /\ failures' = failures /\ deStatus' = deStatus
  BY DEF CreateNew, FindCreated, CreateFails, world, release, counters
<1>2. ASSUME Stuck
      PROVE  /\ GivesUp /\ rec'.replicas = rec.replicas /\ rec'.deStatus = rec.deStatus
             /\ rec'.missed = rec.missed /\ rec'.surplus = rec.surplus
  <2>1. rec' = [rec EXCEPT !.failed = TRUE] /\ pc' = "new" /\ rec.todo = <<>>
    BY <1>1, <1>2, TypedFacts DEF Stuck
  <2>. QED
    BY <1>0, <2>1 DEF LocalsTyped, GivesUp
<1>3. ASSUME NEW q \in SetType, GoOnWith(q)
      PROVE  /\ GoesOnWith(q) /\ rec'.replicas = rec.replicas /\ rec'.deStatus = rec.deStatus
             /\ rec'.missed = rec.missed /\ rec'.surplus = rec.surplus
  <2>. DEFINE t == WithNew(rec.rs, q)
              stage == UpgradeStage(t, rec.replicas, idx)
              todo == stage.todo
  <2>1. rec' = [rec EXCEPT !.rs = t, !.todo = todo] /\ pc' = stage.pc /\ pc' \in {"new", "up", "down"}
    BY <1>0, <1>3, GoOnIs
  <2>. HIDE DEF t, todo
  <2>2. /\ rec'.rs = t /\ rec'.todo = todo
        /\ rec'.replicas = rec.replicas /\ rec'.deStatus = rec.deStatus
        /\ rec'.missed = rec.missed /\ rec'.surplus = rec.surplus
    BY <1>0, <2>1 DEF LocalsTyped
  <2>. QED
    BY <2>1, <2>2 DEF GoesOnWith, t, todo
<1>4. CASE CreateNew
  <2>1. PICK q : IsFresh(q) /\ rs' = WithNew(rs, q) /\ (GoOnWith(q) \/ Stuck)
    BY <1>4, CreateAddsASet
  <2>2. q \in SetType
    BY <2>1 DEF IsFresh
  <2>3. Missable
    <3>1. Watch(TRUE)
      BY <1>4 DEF CreateNew
    <3>. QED
      BY <3>1, OursWatched
  <2>4. /\ GoesOnWith(q) \/ GivesUp
        /\ rec'.replicas = rec.replicas /\ rec'.deStatus = rec.deStatus
        /\ rec'.missed = rec.missed /\ rec'.surplus = rec.surplus
    BY <1>2, <1>3, <2>1, <2>2
  <2>. QED
    BY <1>1, <1>4, <2>1, <2>3, <2>4, CreateAddsASet DEF Creates, Goes
<1>5. CASE FindCreated \/ CreateFails
  <2>1. rs' = rs /\ cache' = cache
    BY <1>5 DEF FindCreated, CreateFails, world
  <2>2. Stuck \/ (New \in DOMAIN rs /\ New \in DOMAIN cache.rs /\ GoOnWith(cache.rs[New]))
    BY <1>5 DEF FindCreated, CreateFails, CreateErrs, Stuck
  <2>3. New \in DOMAIN cache.rs => cache.rs[New] \in SetType
    BY <1>0 DEF IsCopy, IsList
  <2>4. /\ rec'.replicas = rec.replicas /\ rec'.deStatus = rec.deStatus
        /\ rec'.missed = rec.missed /\ rec'.surplus = rec.surplus
    BY <1>2, <1>3, <2>2, <2>3
  <2>5. Finds
    BY <1>2, <1>3, <2>1, <2>2, <2>3 DEF Finds
  <2>. QED
    BY <1>1, <2>4, <2>5 DEF Goes
<1>. QED
  BY <1>4, <1>5

LEMMA Ends ==
  ASSUME EndSync \/ EndUpgrade \/ EndStep
  PROVE  /\ pc' = "idle" /\ rs' = rs /\ cache' = cache /\ replicas' = replicas
         /\ failures' = failures /\ deStatus' = deStatus /\ rec' = NoLocals
BY DEF EndSync, EndUpgrade, EndStep, EndReconcile, world, counters

LEMMA ReconcileIs ==
  Reconcile <=> \/ StartSync \/ StartUpgrade \/ StartStep
                \/ CreateNew \/ FindCreated \/ CreateFails \/ PatchNext \/ PatchFails
                \/ EndSync \/ EndUpgrade \/ EndStep
BY DEF Reconcile

(***************************************************************************)
(* Partitions never shrink the new ReplicaSet                              *)
(***************************************************************************)
LEMMA StageGrows ==
  ASSUME NEW s, IsList(s), New \in DOMAIN s, NEW n \in Nat, NEW i \in StepIndices,
         UpgradeStage(s, n, i).pc = "new"
  PROVE  \E size \in Nat : /\ UpgradeStage(s, n, i).todo = <<Patch(New, size)>>
                           /\ s[New].size <= n => size >= s[New].size
<1>. DEFINE size == IF s[New].size >= n THEN n ELSE NewSize(s, n, i)
<1>1. s[New].size \in Nat
  BY DEF IsList, SetType
<1>2. size \in Nat /\ (s[New].size <= n => size >= s[New].size)
  BY <1>1, NewSizeGrows DEF StepIndices
<1>3. ReconcileNew(s, n, i) # <<>> /\ UpgradeStage(s, n, i).todo = ReconcileNew(s, n, i)
  <2>1. OldStage(s, n, i).pc # "new"
    <3>. DEFINE olds == Active(s, Olds)
    <3>1. CASE olds = {}
      BY <3>1 DEF OldStage
    <3>2. CASE olds # {} /\ OldLimit(s, n, i, olds) <= 0
      BY <3>2 DEF OldStage
    <3>3. CASE olds # {} /\ ~(OldLimit(s, n, i, olds) <= 0)
      BY <3>3 DEF OldStage
    <3>. QED
      BY <3>1, <3>2, <3>3
  <2>. QED
    BY <2>1 DEF UpgradeStage
<1>4. ReconcileNew(s, n, i) = <<Patch(New, size)>>
  BY <1>3 DEF ReconcileNew, PatchIfResized
<1>. QED
  BY <1>2, <1>3, <1>4

LEMMA GrowthInit == Init => GrowthInductive
<1>. SUFFICES ASSUME Init PROVE GrowthInductive
  OBVIOUS
<1>1. rec.rs = <<>> /\ pc = "idle" /\ rec.todo = <<>> /\ cache.rs = rs
  <2>1. pc = "idle" /\ rec = NoLocals /\ cache = Copied(rs, 0)
    BY DEF Init
  <2>. QED
    BY <2>1 DEF NoLocals, Copied
<1>2. Olds \subseteq DOMAIN rs
  BY DEF Init, Sets
<1>. QED
  BY <1>1, <1>2 DEF GrowthInductive, Listed

(* What a plan grows is what it has listed.                                *)
LEMMA PlanGrows ==
  ASSUME NEW s, IsList(s), New \in DOMAIN s, NEW n \in Nat, NEW i \in StepIndices,
         UpgradeStage(s, n, i).pc = "new",
         rec'.rs = s, rec'.replicas = n, rec'.todo = UpgradeStage(s, n, i).todo
  PROVE  rec'.todo = <<Head(rec'.todo)>> /\ NewGrows(Head(rec.todo))'
<1>1. PICK size \in Nat : /\ rec'.todo = <<Patch(New, size)>>
                          /\ s[New].size <= n => size >= s[New].size
  BY StageGrows
<1>2. Head(rec'.todo) = Patch(New, size)
  BY <1>1
<1>. QED
  BY <1>1, <1>2 DEF NewGrows, Patch

(* What the informer has when it has all, and when it misses a patch.      *)
LEMMA CopyListed ==
  ASSUME Listed, DOMAIN rs \subseteq DOMAIN rs', Missable
  PROVE  /\ Olds \subseteq DOMAIN cache'.rs /\ DOMAIN cache'.rs \subseteq DOMAIN rs'
         /\ ~cache'.missed => DOMAIN cache'.rs = DOMAIN rs'
<1>1. CASE cache' = Copied(rs', failures')
  BY <1>1 DEF Listed, Copied
<1>2. CASE cache'.rs = cache.rs /\ cache'.missed = TRUE
  BY <1>2 DEF Listed
<1>. QED
  BY <1>1, <1>2 DEF Missable

LEMMA ListedNext ==
  ASSUME TypeInductive, Listed, Reconcile
  PROVE  Listed'
<1>0. IsList(rs) /\ IsList(rec.rs) /\ IsList(cache.rs)
  BY TypedFacts
<1>1. CASE StartSync \/ StartUpgrade \/ StartStep
  BY <1>1, Starts DEF Listed
<1>2. CASE CreateNew \/ FindCreated \/ CreateFails
  <2>1. pc = "create" /\ rec'.missed = rec.missed /\ (Finds \/ \E q : Creates(q))
    BY <1>2, Creating DEF Goes
  <2>2. Olds \subseteq DOMAIN rec.rs /\ DOMAIN rec.rs \subseteq DOMAIN rs
    BY <2>1 DEF Listed
  <2>3. ASSUME NEW q \in SetType
        PROVE  DOMAIN WithNew(rec.rs, q) = DOMAIN rec.rs \cup {New}
               /\ DOMAIN WithNew(rs, q) = DOMAIN rs \cup {New}
    BY <1>0, WithNewType
  <2>4. CASE Finds
    <3>1. rs' = rs /\ cache' = cache
      BY <2>4 DEF Finds
    <3>2. CASE GivesUp
      BY <2>2, <3>1, <3>2 DEF Listed, GivesUp
    <3>3. CASE New \in DOMAIN rs /\ New \in DOMAIN cache.rs /\ GoesOnWith(cache.rs[New])
      <4>1. cache.rs[New] \in SetType
        BY <1>0, <3>3 DEF IsList
      <4>2. DOMAIN rec'.rs = DOMAIN rec.rs \cup {New}
        BY <2>3, <3>3, <4>1 DEF GoesOnWith
      <4>3. rec.missed \/ DOMAIN rec'.rs = DOMAIN rs
        BY <2>1, <3>3, <4>2 DEF Listed
      <4>. QED
        BY <2>1, <2>2, <3>1, <3>3, <4>2, <4>3 DEF Listed
    <3>. QED
      BY <2>4, <3>2, <3>3 DEF Finds
  <2>5. ASSUME NEW q, Creates(q) PROVE Listed'
    <3>1. q \in SetType /\ rs' = WithNew(rs, q) /\ Missable
      BY <2>5 DEF Creates, IsFresh
    <3>2. DOMAIN rs' = DOMAIN rs \cup {New}
      BY <2>3, <3>1
    <3>3. /\ Olds \subseteq DOMAIN cache'.rs /\ DOMAIN cache'.rs \subseteq DOMAIN rs'
          /\ ~cache'.missed => DOMAIN cache'.rs = DOMAIN rs'
      BY <3>1, <3>2, CopyListed
    <3>4. CASE GivesUp
      BY <2>2, <3>2, <3>3, <3>4 DEF Listed, GivesUp
    <3>5. CASE GoesOnWith(q)
      <4>1. DOMAIN rec'.rs = DOMAIN rec.rs \cup {New}
        BY <2>3, <3>1, <3>5 DEF GoesOnWith
      <4>2. ~rec'.missed => DOMAIN rec'.rs = DOMAIN rs'
        BY <2>1, <3>2, <4>1 DEF Listed
      <4>. QED
        BY <2>2, <3>2, <3>3, <4>1, <4>2 DEF Listed
    <3>. QED
      BY <2>5, <3>4, <3>5 DEF Creates
  <2>. QED
    BY <2>1, <2>4, <2>5
<1>3. CASE PatchNext
  <2>1. /\ DOMAIN rs' = DOMAIN rs /\ DOMAIN rec'.rs = DOMAIN rec.rs
        /\ pc' = pc /\ rec'.missed = rec.missed /\ Missable
    BY <1>3, Patches DEF Patched, Goes
  <2>2. /\ Olds \subseteq DOMAIN cache'.rs /\ DOMAIN cache'.rs \subseteq DOMAIN rs'
        /\ ~cache'.missed => DOMAIN cache'.rs = DOMAIN rs'
    BY <2>1, CopyListed
  <2>. QED
    BY <2>1, <2>2 DEF Listed
<1>4. CASE PatchFails
  BY <1>4, Fails DEF Listed, Goes
<1>5. CASE EndSync \/ EndUpgrade \/ EndStep
  <2>1. pc' = "idle" /\ rs' = rs /\ cache' = cache /\ rec' = NoLocals
    BY <1>5, Ends
  <2>2. DOMAIN rec'.rs = {}
    BY <2>1 DEF NoLocals
  <2>. QED
    BY <2>1, <2>2 DEF Listed
<1>. QED
  BY <1>1, <1>2, <1>3, <1>4, <1>5, ReconcileIs

LEMMA GrowthReconcile ==
  ASSUME TypeInductive, GrowthInductive, Reconcile
  PROVE  GrowthInductive'
<1>0. /\ IsList(rs) /\ IsList(rec.rs) /\ IsList(cache.rs) /\ rec.replicas \in Nat
      /\ replicas \in Nat /\ idx \in StepIndices
  BY TypedFacts DEF StepIndices
<1>1. Listed'
  BY ListedNext DEF GrowthInductive
<1>. DEFINE Grows == rec'.todo = <<Head(rec'.todo)>> /\ NewGrows(Head(rec.todo))'
<1>. SUFFICES ASSUME pc' = "new", rec'.todo # <<>> PROVE Grows
  BY <1>1 DEF GrowthInductive
<1>2. CASE StartSync \/ StartUpgrade \/ StartStep
  <2>1. /\ New \in DOMAIN cache.rs /\ rec'.rs = cache.rs /\ rec'.replicas = replicas
        /\ UpgradeStage(cache.rs, replicas, idx).pc = "new"
        /\ rec'.todo = UpgradeStage(cache.rs, replicas, idx).todo
    BY <1>2, Starts
  <2>. QED
    BY <1>0, <2>1, PlanGrows
<1>3. CASE CreateNew \/ FindCreated \/ CreateFails
  <2>1. ASSUME NEW q \in SetType, GoesOnWith(q), rec'.replicas = rec.replicas PROVE Grows
    <3>. DEFINE l == rec.rs
                t == WithNew(l, q)
    <3>1. IsList(l)
      BY <1>0
    <3>. HIDE DEF l
    <3>2. IsList(t) /\ New \in DOMAIN t
      <4>1. IsList(t) /\ DOMAIN t = DOMAIN l \cup {New}
        BY <3>1, WithNewType
      <4>. QED
        BY <4>1
    <3>3. /\ rec'.rs = t /\ rec'.todo = UpgradeStage(t, rec.replicas, idx).todo
          /\ UpgradeStage(t, rec.replicas, idx).pc = "new"
      BY <2>1 DEF GoesOnWith, l
    <3>. HIDE DEF t
    <3>. QED
      BY <1>0, <2>1, <3>2, <3>3, PlanGrows
  <2>2. rec'.replicas = rec.replicas /\ (Finds \/ \E q : Creates(q))
    BY <1>3, Creating DEF Goes
  <2>3. \E q \in SetType : GoesOnWith(q)
    <3>1. New \in DOMAIN cache.rs => cache.rs[New] \in SetType
      BY <1>0 DEF IsList
    <3>. QED
      BY <2>2, <3>1 DEF Finds, Creates, GivesUp, IsFresh
  <2>. QED
    BY <2>1, <2>2, <2>3
<1>4. CASE PatchNext
  <2>. DEFINE p == Head(rec.todo)
  <2>1. pc' = pc /\ rec'.todo = Tail(rec.todo) /\ rec.todo # <<>>
    BY <1>4, Patches
  <2>2. rec.todo = <<p>>
    BY <2>1 DEF GrowthInductive
  <2>. HIDE DEF p
  <2>3. Tail(<<p>>) = <<>>
    OBVIOUS
  <2>4. rec'.todo = <<>>
    BY <2>1, <2>2, <2>3
  <2>. QED
    BY <2>4
<1>5. CASE PatchFails
  BY <1>5, Fails
<1>6. CASE EndSync \/ EndUpgrade \/ EndStep
  BY <1>6, Ends
<1>. QED
  BY <1>2, <1>3, <1>4, <1>5, <1>6, ReconcileIs

LEMMA GrowthCluster ==
  ASSUME TypeInductive, GrowthInductive, Cluster \/ UNCHANGED vars
  PROVE  GrowthInductive'
<1>1. pc' = pc /\ rec' = rec /\ DOMAIN rs' = DOMAIN rs
  BY ClusterKeepsRec
<1>2. /\ Olds \subseteq DOMAIN cache'.rs /\ DOMAIN cache'.rs \subseteq DOMAIN rs'
      /\ ~cache'.missed => DOMAIN cache'.rs = DOMAIN rs'
  BY <1>1, ClusterCopies DEF GrowthInductive, Listed, Copied
<1>. QED
  BY <1>1, <1>2 DEF GrowthInductive, Listed, NewGrows

LEMMA GrowthNext == TypeInductive /\ GrowthInductive /\ [Next]_vars => GrowthInductive'
BY GrowthReconcile, GrowthCluster, NextIs

(* The one patch of reconcileNewReplicaSet leaves the new ReplicaSet with  *)
(* what it was listed with, or more.                                       *)
LEMMA PartitionStep ==
  ASSUME TypeInductive, GrowthInductive, [Next]_vars,
         pc = "new", rec.todo # <<>>, rec'.rs # rec.rs, rec.rs[New].size <= rec.replicas
  PROVE  rs'[New].size >= rs[New].size
<1>0. IsList(rs) /\ ReadyPods /\ OthersTyped /\ CountersTyped /\ LocalsTyped
  BY TypeParts
<1>1. rec' # rec
  OBVIOUS
<1>2. PatchNext
  <2>1. Reconcile
    BY <1>1, ClusterKeepsRec, NextIs
  <2>2. ~PatchFails
    <3>1. SUFFICES ASSUME PatchFails PROVE rec'.rs = rec.rs
      OBVIOUS
    <3>2. rec' = [rec EXCEPT !.todo = <<>>, !.failed = TRUE]
      BY <3>1 DEF PatchFails
    <3>. QED
      BY <1>0, <3>2 DEF LocalsTyped
  <2>. QED
    BY <2>1, <2>2 DEF Reconcile, StartSync, StartUpgrade, StartStep, StartReconcile, CreateNew,
      FindCreated, CreateFails, EndSync, EndUpgrade, EndStep, EndReconcile
<1>. DEFINE p == Head(rec.todo)
            n == rec.replicas
            t == Patched(rs, p, n)
<1>3. /\ p.size \in Nat /\ rs[p.rs] = rec.rs[p.rs] /\ rs' = t
  BY <1>2 DEF PatchNext
<1>4. p.rs = New /\ p.size >= rec.rs[New].size
  BY DEF GrowthInductive, NewGrows
<1>5. New \in DOMAIN rec.rs /\ New \in DOMAIN rs /\ n \in Nat
  BY <1>0 DEF LocalsTyped, GrowthInductive, Listed
<1>. HIDE DEF p, n
<1>6. t[New].size = p.size
  BY <1>0, <1>3, <1>4, <1>5, PatchedType
<1>. QED
  BY <1>3, <1>4, <1>6

(* No partition takes replicas away from the new ReplicaSet, not even one  *)
(* below that of the step before, or no number at all (newRSNewReplicas,   *)
(* reconcileNewReplicaSet), whatever the plan and the fenceposts.          *)
THEOREM PartitionsNeverShrink == Spec => PartitionNeverShrinks
<1>2. TypeInductive /\ GrowthInductive /\ [Next]_vars =>
        [pc = "new" /\ rec.todo # <<>> /\ rec'.rs # rec.rs /\ rec.rs[New].size <= rec.replicas =>
           rs'[New].size >= rs[New].size]_rs
  BY PartitionStep
<1>. QED
  BY <1>2, TypeInit, TypeNext, GrowthInit, GrowthNext, PTL DEF Spec, PartitionNeverShrinks

(***************************************************************************)
(* Lists                                                                   *)
(***************************************************************************)
LEMMA SetsFinite == IsFiniteSet(Sets) /\ \A S \in SUBSET Sets : IsFiniteSet(S)
<1>1. IsFiniteSet(Sets)
  BY SetsAssumption, FS_AddElement DEF Sets
<1>. QED
  BY <1>1, FS_Subset

(* A list of all elements of a set, each once.                             *)
Lists(list, S) ==
  /\ list \in [1 .. Cardinality(S) -> S]
  /\ \A i, j \in 1 .. Cardinality(S) : list[i] = list[j] => i = j
  /\ \A x \in S : \E i \in 1 .. Cardinality(S) : list[i] = x
  /\ Cardinality(S) \in Nat

LEMMA ListsAll ==
  ASSUME NEW S, IsFiniteSet(S), NEW list \in [1 .. Cardinality(S) -> S], IsInjective(list)
  PROVE  Lists(list, S)
BY InjectiveIsOnto, FS_CardinalityType DEF Lists, IsInjective

(* Sorted orders the ReplicaSets: such an order exists.                    *)
LEMMA CreationSorts ==
  ASSUME NEW S \in SUBSET Sets
  PROVE  Lists(Sorted(S, ByCreation), S)
<1>. DEFINE list == Sorted(S, ByCreation)
<1>1. \A x \in S : Created[x] \in Nat
  BY OrderAssumption
<1>2. \A x, y \in S : Created[x] = Created[y] => x = y
  BY OrderAssumption DEF IsInjective
<1>3. PICK f : InOrder(f, Created, S)
  BY <1>1, <1>2, SetsFinite, OrderExists
<1>4. list \in [1 .. Cardinality(S) -> S] /\ IsInjective(list)
  <2>1. \E g \in [1 .. Cardinality(S) -> S] :
          IsInjective(g) /\ \A i, j \in DOMAIN g : i < j => ByCreation(g[i], g[j])
    BY <1>3 DEF InOrder, ByCreation
  <2>. QED
    BY <2>1 DEF Sorted
<1>. HIDE DEF list
<1>5. Lists(list, S)
  BY <1>4, SetsFinite, ListsAll
<1>. QED
  BY <1>5 DEF list

LEMMA RevisionSorts ==
  ASSUME NEW S \in SUBSET Olds
  PROVE  LET list == Sorted(S, BySmallerRevision)
         IN /\ Lists(list, S)
            /\ \A i, j \in 1 .. Cardinality(S) : i < j => Revision[list[i]] > Revision[list[j]]
<1>. DEFINE list == Sorted(S, BySmallerRevision)
<1>0. S \in SUBSET Sets
  BY DEF Sets
<1>1. \A x \in S : Revision[x] \in Nat
  BY OrderAssumption
<1>2. \A x, y \in S : Revision[x] = Revision[y] => x = y
  BY OrderAssumption DEF IsInjective
<1>3. \E f : InOrder(f, Revision, S)
  BY <1>0, <1>1, <1>2, SetsFinite, OrderExists
<1>4. /\ list \in [1 .. Cardinality(S) -> S] /\ IsInjective(list)
      /\ \A i, j \in DOMAIN list : i < j => BySmallerRevision(list[i], list[j])
  <2>1. \E g \in [1 .. Cardinality(S) -> S] :
          IsInjective(g) /\ \A i, j \in DOMAIN g : i < j => BySmallerRevision(g[i], g[j])
    BY <1>0, <1>3, SetsFinite, ReverseOrder DEF BySmallerRevision
  <2>. QED
    BY <2>1 DEF Sorted
<1>. HIDE DEF list
<1>5. Lists(list, S)
  BY <1>0, <1>4, SetsFinite, ListsAll
<1>. QED
  BY <1>4, <1>5 DEF list, BySmallerRevision

(* What Selected selects, in which order.                                  *)
Selects(todo, list, keep) ==
  \E m \in Nat : \E place \in [1 .. m -> keep] :
    /\ todo = [k \in 1 .. m |-> list[place[k]]]
    /\ \A i, j \in 1 .. m : i < j => place[i] < place[j]
    /\ \A x \in keep : \E k \in 1 .. m : place[k] = x

LEMMA SelectedSelects ==
  ASSUME NEW list, NEW n \in Nat, NEW keep \in SUBSET (1 .. n)
  PROVE  Selects(Selected(list, keep), list, keep)
<1>. DEFINE place == Sorted(keep, LAMBDA i, j : i < j)
            m == Cardinality(keep)
            key == [x \in keep |-> x]
<1>1. IsFiniteSet(keep) /\ m \in Nat
  <2>1. IsFiniteSet(1 .. n)
    BY FS_Interval
  <2>2. IsFiniteSet(keep)
    BY <2>1, FS_Subset
  <2>. QED
    BY <2>2, FS_CardinalityType
<1>2. \A x \in keep : key[x] \in Nat
  OBVIOUS
<1>3. \A x, y \in keep : key[x] = key[y] => x = y
  OBVIOUS
<1>4. PICK f : InOrder(f, key, keep)
  <2>. HIDE DEF key
  <2>. QED BY <1>1, <1>2, <1>3, OrderExists
<1>5. /\ place \in [1 .. m -> keep] /\ IsInjective(place)
      /\ \A i, j \in DOMAIN place : i < j => place[i] < place[j]
  <2>0. \A i, j \in DOMAIN f : i < j => f[i] < f[j]
    <3>1. f \in [1 .. m -> keep] /\ \A i, j \in DOMAIN f : i < j => key[f[i]] < key[f[j]]
      BY <1>4 DEF InOrder
    <3>2. \A i \in DOMAIN f : key[f[i]] = f[i]
      BY <3>1
    <3>. HIDE DEF key, m
    <3>. QED BY <3>1, <3>2
  <2>1. \E g \in [1 .. m -> keep] :
          IsInjective(g) /\ \A i, j \in DOMAIN g : i < j => g[i] < g[j]
    BY <1>4, <2>0 DEF InOrder
  <2>. QED
    BY <2>1 DEF Sorted
<1>6. Selected(list, keep) = [k \in DOMAIN place |-> list[place[k]]]
  BY DEF Selected
<1>. HIDE DEF place
<1>7. \A x \in keep : \E k \in 1 .. m : place[k] = x
  BY <1>1, <1>5, InjectiveIsOnto
<1>8. DOMAIN place = 1 .. m
  BY <1>5
<1>. HIDE DEF m
<1>9. /\ Selected(list, keep) = [k \in 1 .. m |-> list[place[k]]]
      /\ \A i, j \in 1 .. m : i < j => place[i] < place[j]
  BY <1>5, <1>6, <1>8
<1>. QED
  BY <1>1, <1>5, <1>7, <1>9 DEF Selects

(***************************************************************************)
(* TakeAway                                                                *)
(***************************************************************************)
TakenIs(t, list, most, share) ==
  t = [i \in 0 .. Len(list) |->
         IF i = 0 THEN 0
         ELSE t[i - 1] + Greater(Lesser(most - t[i - 1], share[list[i]]), 0)]

Taken(list, most, share) == CHOOSE t : TakenIs(t, list, most, share)

Offers(s, list, most, share) ==
  [i \in 1 .. Len(list) |->
     Patch(list[i],
       IF share[list[i]] < 0 /\ Taken(list, most, share)[i - 1] < most THEN InvalidRequest
       ELSE s[list[i]].size - (Taken(list, most, share)[i] - Taken(list, most, share)[i - 1]))]

LEMMA TakeAwayIs ==
  ASSUME NEW s, NEW list, NEW most, NEW share
  PROVE  TakeAway(s, list, most, share) = IfResized(s, Offers(s, list, most, share))
BY DEF TakeAway, Offers, Taken, TakenIs

(* The recursion of TakeAway has a solution.                               *)
LEMMA TakenExists ==
  ASSUME NEW list, NEW most, NEW share, Len(list) \in Nat
  PROVE  TakenIs(Taken(list, most, share), list, most, share)
<1>. DEFINE N == Len(list)
            next(v, i) == v + Greater(Lesser(most - v, share[list[i]]), 0)
            Fills(t, k) == t = [i \in 0 .. k |-> IF i = 0 THEN 0 ELSE next(t[i - 1], i)]
            Bad == {k \in Nat : ~ \E t : Fills(t, k)}
<1>1. \E t : Fills(t, 0)
  <2>. HIDE DEF next
  <2>1. Fills([i \in 0 .. 0 |-> 0], 0)
    OBVIOUS
  <2>. QED
    BY <2>1
<1>2. ASSUME NEW k \in Nat, NEW t, Fills(t, k) PROVE \E u : Fills(u, k + 1)
  <2>. HIDE DEF next
  <2>. DEFINE u == [i \in 0 .. k + 1 |-> IF i = 0 THEN 0 ELSE next(t[i - 1], i)]
  <2>1. \A i \in 0 .. k : t[i] = IF i = 0 THEN 0 ELSE next(t[i - 1], i)
    BY <1>2
  <2>2. \A i \in 0 .. k : u[i] = t[i]
    BY <2>1
  <2>3. \A i \in 0 .. k + 1 : u[i] = IF i = 0 THEN 0 ELSE next(t[i - 1], i)
    OBVIOUS
  <2>4. \A i \in 0 .. k + 1 : i # 0 => i - 1 \in 0 .. k
    OBVIOUS
  <2>5. u = [i \in 0 .. k + 1 |-> IF i = 0 THEN 0 ELSE next(u[i - 1], i)]
    BY <2>2, <2>4
  <2>. HIDE DEF u
  <2>. QED
    BY <2>5
<1>3. Bad = {}
  <2>. HIDE DEF Fills
  <2>1. SUFFICES ASSUME Bad # {} PROVE FALSE
    OBVIOUS
  <2>2. PICK k \in Bad : \A m \in Bad : k <= m
    <3>. Bad \in SUBSET Nat
      OBVIOUS
    <3>. HIDE DEF Bad
    <3>. QED BY <2>1, Least
  <2>3. k \in Nat /\ k # 0
    BY <1>1
  <2>4. k - 1 \in Nat /\ k - 1 \notin Bad
    BY <2>2, <2>3
  <2>5. \E u : Fills(u, (k - 1) + 1)
    BY <1>2, <2>4
  <2>. QED
    BY <2>3, <2>5
<1>4. \E t : Fills(t, N)
  <2>. HIDE DEF Fills
  <2>. QED BY <1>3
<1>5. \E t : TakenIs(t, list, most, share)
  BY <1>4 DEF TakenIs
<1>. QED
  BY <1>5 DEF Taken

(* What it adds up: it never takes more than it may, in all or from one.   *)
LEMMA TakenRow ==
  ASSUME NEW S, NEW list, Lists(list, S), NEW most \in Int,
         NEW share, \A x \in S : share[x] \in Int
  PROVE  LET t == Taken(list, most, share)
             N == Cardinality(S)
         IN /\ Len(list) = N
            /\ N \in Nat
            /\ t[0] = 0
            /\ \A i \in 0 .. N : t[i] \in Nat /\ t[i] <= Greater(most, 0)
            /\ \A i \in 1 .. N :
                 /\ t[i] = t[i - 1] + Greater(Lesser(most - t[i - 1], share[list[i]]), 0)
                 /\ t[i - 1] <= t[i]
                 /\ t[i] - t[i - 1] <= Greater(share[list[i]], 0)
                 /\ share[list[i]] < 0 => t[i] = t[i - 1]
<1>. DEFINE t == Taken(list, most, share)
            N == Cardinality(S)
            Good(k) == t[k] \in Nat /\ t[k] <= Greater(most, 0)
            Bad == {k \in Nat : k <= N /\ ~Good(k)}
<1>1. N \in Nat /\ list \in [1 .. N -> S]
  BY DEF Lists
<1>2. Len(list) = N
  <2>. HIDE DEF N
  <2>. QED BY <1>1
<1>3. TakenIs(t, list, most, share)
  BY <1>1, <1>2, TakenExists
<1>. HIDE DEF t
<1>4. /\ t[0] = 0
      /\ \A i \in 1 .. N : t[i] = t[i - 1] + Greater(Lesser(most - t[i - 1], share[list[i]]), 0)
  <2>. HIDE DEF N
  <2>1. \A i \in 0 .. N : t[i] = IF i = 0 THEN 0
          ELSE t[i - 1] + Greater(Lesser(most - t[i - 1], share[list[i]]), 0)
    BY <1>2, <1>3 DEF TakenIs
  <2>. QED
    BY <1>1, <2>1
<1>. HIDE DEF N
<1>5. \A i \in 1 .. N : share[list[i]] \in Int
  BY <1>1
<1>6. Good(0)
  BY <1>4 DEF Greater
<1>7. ASSUME NEW k \in 1 .. N, Good(k - 1) PROVE Good(k)
  BY <1>4, <1>5, <1>7 DEF Greater, Lesser
<1>8. Bad = {}
  <2>1. SUFFICES ASSUME Bad # {} PROVE FALSE
    OBVIOUS
  <2>2. PICK k \in Bad : \A m \in Bad : k <= m
    <3>. Bad \in SUBSET Nat
      OBVIOUS
    <3>. HIDE DEF Bad
    <3>. QED BY <2>1, Least
  <2>3. k \in Nat /\ k <= N /\ ~Good(k)
    OBVIOUS
  <2>. HIDE DEF Good
  <2>4. k # 0
    BY <1>6, <2>3
  <2>5. k - 1 \in Nat /\ k \in 1 .. N
    BY <1>1, <2>3, <2>4
  <2>6. Good(k - 1)
    BY <1>1, <2>2, <2>3, <2>5
  <2>. QED
    BY <1>7, <2>3, <2>5, <2>6
<1>9. \A i \in 0 .. N : Good(i)
  <2>. HIDE DEF Good
  <2>. QED BY <1>1, <1>8
<1>10. \A i \in 1 .. N : /\ t[i - 1] <= t[i]
                         /\ t[i] - t[i - 1] <= Greater(share[list[i]], 0)
                         /\ share[list[i]] < 0 => t[i] = t[i - 1]
  <2>. TAKE i \in 1 .. N
  <2>1. t[i - 1] \in Nat /\ share[list[i]] \in Int
    <3>1. i - 1 \in 0 .. N
      BY <1>1
    <3>. QED
      BY <1>5, <1>9, <3>1
  <2>2. t[i] = t[i - 1] + Greater(Lesser(most - t[i - 1], share[list[i]]), 0)
    BY <1>4
  <2>. QED
    BY <2>1, <2>2 DEF Greater, Lesser
<1>. QED
  BY <1>1, <1>2, <1>4, <1>9, <1>10 DEF t, N

(* A list of m patches.                                                    *)
Rows(todo, m) == todo = [k \in 1 .. m |-> todo[k]]

LEMMA RowsAreList ==
  ASSUME NEW todo, NEW m \in Nat, Rows(todo, m)
  PROVE  todo \in Seq(Range(todo))
<1>. DEFINE D == Range(todo)
<1>1. \A k \in 1 .. m : todo[k] \in D
  BY DEF Rows, Range
<1>. HIDE DEF D
<1>2. todo \in [1 .. m -> D]
  BY <1>1 DEF Rows
<1>3. todo \in Seq(D)
  BY <1>2
<1>. QED
  BY <1>3 DEF D

LEMMA ListHasRows ==
  ASSUME NEW todo, todo \in Seq(Range(todo))
  PROVE  Rows(todo, Len(todo)) /\ Len(todo) \in Nat
<1>. DEFINE D == Range(todo)
<1>1. todo \in Seq(D)
  OBVIOUS
<1>. HIDE DEF D
<1>. QED
  BY <1>1 DEF Rows

(* What a list of patches takes away: it leaves each ReplicaSet of S what  *)
(* "left" says, in one patch, unless there is an invalid one before.       *)
Takes(s, S, todo, left) ==
  /\ \E m \in Nat : Rows(todo, m)
  /\ \A i \in DOMAIN todo :
       /\ todo[i].rs \in S
       /\ \/ todo[i].size = InvalidRequest
          \/ todo[i].size = left[todo[i].rs] /\ todo[i].size < s[todo[i].rs].size
  /\ \A i, j \in DOMAIN todo : todo[i].rs = todo[j].rs => i = j
  /\ \A r \in DOMAIN s : left[r] < s[r].size =>
       \E i \in DOMAIN todo : todo[i].rs = r /\ todo[i].size = left[r]

Leaves(s, S, left, most, share) ==
  /\ left \in [DOMAIN s -> Nat]
  /\ \A r \in DOMAIN s : left[r] <= s[r].size /\ (r \notin S => left[r] = s[r].size)
  /\ \A r \in S : left[r] >= s[r].size - Greater(share[r], 0)
  /\ \A T \in SUBSET DOMAIN s : S \subseteq T =>
       SumFunctionOnSet(left, T) >= Total(s, T) - Greater(most, 0)

(* The same for the patches before IfResized.                              *)
LEMMA OffersLeave ==
  ASSUME NEW s, IsList(s), NEW S \in SUBSET DOMAIN s, NEW list, Lists(list, S), NEW most \in Int,
         NEW share, \A x \in S : share[x] \in Int /\ share[x] <= s[x].size
  PROVE  \E left :
           /\ Leaves(s, S, left, most, share)
           /\ DOMAIN Offers(s, list, most, share) = 1 .. Cardinality(S)
           /\ \A i \in 1 .. Cardinality(S) : LET p == Offers(s, list, most, share)[i] IN
                /\ p.rs = list[i]
                /\ \/ p.size = InvalidRequest /\ left[list[i]] = s[list[i]].size
                   \/ p.size = left[list[i]]
<1>. DEFINE t == Taken(list, most, share)
            N == Cardinality(S)
            offers == Offers(s, list, most, share)
            place(r) == CHOOSE i \in 1 .. N : list[i] = r
            count == [r \in DOMAIN s |-> IF r \in S THEN t[place(r)] - t[place(r) - 1] ELSE 0]
            left == [r \in DOMAIN s |-> s[r].size - count[r]]
<1>1. /\ Len(list) = N /\ N \in Nat /\ t[0] = 0
      /\ \A i \in 0 .. N : t[i] \in Nat /\ t[i] <= Greater(most, 0)
      /\ \A i \in 1 .. N : /\ t[i - 1] <= t[i]
                           /\ t[i] - t[i - 1] <= Greater(share[list[i]], 0)
                           /\ share[list[i]] < 0 => t[i] = t[i - 1]
  BY TakenRow
<1>2. /\ list \in [1 .. N -> S]
      /\ \A i, j \in 1 .. N : list[i] = list[j] => i = j
      /\ \A x \in S : \E i \in 1 .. N : list[i] = x
  BY DEF Lists
<1>3. /\ DOMAIN offers = 1 .. N
      /\ \A i \in 1 .. N :
           offers[i] = Patch(list[i], IF share[list[i]] < 0 /\ t[i - 1] < most THEN InvalidRequest
                                      ELSE s[list[i]].size - (t[i] - t[i - 1]))
  <2>. HIDE DEF N
  <2>. QED
    BY <1>1 DEF Offers, t
<1>4. \A r \in DOMAIN s : s[r].size \in Nat
  BY DEF IsList, SetType
<1>5. IsFiniteSet(S) /\ IsFiniteSet(DOMAIN s) /\ \A T \in SUBSET DOMAIN s : IsFiniteSet(T)
  BY SetsFinite, FS_Subset DEF IsList
<1>. HIDE DEF t, N, offers
<1>6. \A i \in 1 .. N : place(list[i]) = i
  BY <1>2
<1>7. \A i \in 1 .. N : list[i] \in S /\ list[i] \in DOMAIN s
  BY <1>2
<1>. HIDE DEF place
<1>8. \A i \in 1 .. N : count[list[i]] = t[i] - t[i - 1]
  BY <1>6, <1>7
<1>9. \A r \in DOMAIN s : r \notin S => count[r] = 0
  OBVIOUS
<1>10. \A i \in 1 .. N : t[i - 1] \in Nat /\ t[i] \in Nat
  BY <1>1
<1>11. \A r \in S : /\ count[r] \in Nat
                    /\ count[r] <= Greater(share[r], 0)
                    /\ share[r] < 0 => count[r] = 0
  <2>. HIDE DEF count
  <2>. TAKE r \in S
  <2>1. PICK i \in 1 .. N : list[i] = r
    BY <1>2
  <2>2. count[r] = t[i] - t[i - 1]
    BY <1>8, <2>1
  <2>. QED
    BY <1>1, <1>10, <2>1, <2>2
<1>. HIDE DEF count
<1>12. \A r \in DOMAIN s : left[r] = s[r].size - count[r]
  OBVIOUS
<1>13. \A r \in DOMAIN s : count[r] \in Nat /\ count[r] <= s[r].size
  <2>. TAKE r \in DOMAIN s
  <2>1. CASE r \in S
    <3>1. share[r] \in Int /\ share[r] <= s[r].size /\ s[r].size \in Nat
      BY <1>4, <2>1
    <3>. QED
      BY <1>11, <2>1, <3>1 DEF Greater
  <2>2. CASE r \notin S
    BY <1>4, <1>9, <2>2
  <2>. QED
    BY <2>1, <2>2
<1>14. DOMAIN left = DOMAIN s /\ left \in [DOMAIN s -> Nat]
  BY <1>4, <1>13
<1>15. SumFunctionOnSet(count, S) = t[N]
  <2>1. IsInjective(list)
    BY <1>2 DEF IsInjective
  <2>2. \A i \in 1 .. N : t[i - 1] \in Int /\ t[i] = t[i - 1] + count[list[i]]
    BY <1>8, <1>10
  <2>3. \A x \in S : count[x] \in Int
    BY <1>11
  <2>4. N = Cardinality(S)
    BY DEF N
  <2>5. t[0] = 0
    BY <1>1
  <2>6. list \in [1 .. Cardinality(S) -> S]
    BY <1>2, <2>4
  <2>7. AddsUp(t, count, list, Cardinality(S))
    BY <2>2, <2>4, <2>5 DEF AddsUp
  <2>8. SumFunctionOnSet(count, S) = t[Cardinality(S)]
    BY <1>5, <2>1, <2>3, <2>6, <2>7, SumAlong
  <2>. QED
    BY <2>4, <2>8
<1>. HIDE DEF left
<1>16. ASSUME NEW T \in SUBSET DOMAIN s, S \subseteq T
       PROVE  SumFunctionOnSet(left, T) >= Total(s, T) - Greater(most, 0)
  <2>. DEFINE size == [r \in DOMAIN s |-> s[r].size]
  <2>1. Total(s, T) = SumFunctionOnSet(size, T)
    <3>1. T \cap DOMAIN s = T
      OBVIOUS
    <3>. QED
      BY <3>1 DEF Total
  <2>2. \A r \in T : /\ size[r] \in Int /\ left[r] \in Int /\ count[r] \in Int
                     /\ size[r] <= left[r] + count[r]
    BY <1>4, <1>12, <1>13
  <2>. HIDE DEF size
  <2>3. SumFunctionOnSet(size, T) <= SumFunctionOnSet(left, T) + SumFunctionOnSet(count, T)
    BY <1>5, <2>2, SumCompare
  <2>4. SumFunctionOnSet(count, T) = SumFunctionOnSet(count, S)
    <3>1. \A x \in T \ S : count[x] = 0
      BY <1>9
    <3>2. IsFiniteSet(T) /\ \A x \in T : count[x] \in Int
      BY <1>5, <2>2
    <3>. QED
      BY <1>16, <3>1, <3>2, SumSupport
  <2>5. t[N] \in Nat /\ t[N] <= Greater(most, 0) /\ Greater(most, 0) \in Int
    BY <1>1 DEF Greater
  <2>6. SumFunctionOnSet(size, T) \in Int
    BY <1>5, <2>2, SumFacts
  <2>7. SumFunctionOnSet(left, T) \in Int
    BY <1>5, <2>2, SumFacts
  <2>. QED
    BY <1>15, <2>1, <2>3, <2>4, <2>5, <2>6, <2>7
<1>17. Leaves(s, S, left, most, share)
  <2>1. \A r \in DOMAIN s : left[r] <= s[r].size /\ (r \notin S => left[r] = s[r].size)
    BY <1>4, <1>9, <1>12, <1>13
  <2>2. \A r \in S : left[r] >= s[r].size - Greater(share[r], 0)
    <3>. TAKE r \in S
    <3>1. share[r] \in Int /\ s[r].size \in Nat /\ r \in DOMAIN s
      BY <1>4
    <3>2. Greater(share[r], 0) \in Int
      BY <3>1 DEF Greater
    <3>. QED
      BY <1>11, <1>12, <3>1, <3>2
  <2>. QED
    BY <1>14, <1>16, <2>1, <2>2 DEF Leaves
<1>18. \A i \in 1 .. N :
         /\ offers[i].rs = list[i]
         /\ \/ offers[i].size = InvalidRequest /\ left[list[i]] = s[list[i]].size
            \/ offers[i].size = left[list[i]]
  <2>. TAKE i \in 1 .. N
  <2>1. CASE share[list[i]] < 0 /\ t[i - 1] < most
    <3>1. offers[i] = Patch(list[i], InvalidRequest)
      BY <1>3, <2>1
    <3>2. left[list[i]] = s[list[i]].size
      BY <1>1, <1>4, <1>7, <1>8, <1>10, <1>12, <2>1
    <3>. QED
      BY <3>1, <3>2 DEF Patch
  <2>2. CASE ~(share[list[i]] < 0 /\ t[i - 1] < most)
    <3>1. offers[i] = Patch(list[i], s[list[i]].size - (t[i] - t[i - 1]))
      BY <1>3, <2>2
    <3>2. left[list[i]] = s[list[i]].size - (t[i] - t[i - 1])
      BY <1>7, <1>8, <1>12
    <3>. QED
      BY <3>1, <3>2 DEF Patch
  <2>. QED
    BY <2>1, <2>2
<1>. QED
  BY <1>3, <1>17, <1>18 DEF N, offers

LEMMA TakeAwayTakes ==
  ASSUME NEW s, IsList(s), NEW S \in SUBSET DOMAIN s, NEW list, Lists(list, S), NEW most \in Int,
         NEW share, \A x \in S : share[x] \in Int /\ share[x] <= s[x].size
  PROVE  \E left : /\ Leaves(s, S, left, most, share)
                   /\ Takes(s, S, TakeAway(s, list, most, share), left)
<1>. DEFINE offers == Offers(s, list, most, share)
            todo == TakeAway(s, list, most, share)
            N == Cardinality(S)
            keep == {i \in DOMAIN offers : s[offers[i].rs].size # offers[i].size}
<1>1. PICK left :
        /\ Leaves(s, S, left, most, share)
        /\ DOMAIN offers = 1 .. N
        /\ \A i \in 1 .. N :
             /\ offers[i].rs = list[i]
             /\ \/ offers[i].size = InvalidRequest /\ left[list[i]] = s[list[i]].size
                \/ offers[i].size = left[list[i]]
  BY OffersLeave
<1>2. todo = Selected(offers, keep)
  BY TakeAwayIs DEF IfResized
<1>. HIDE DEF offers, todo
<1>3. /\ N \in Nat /\ list \in [1 .. N -> S]
      /\ \A i, j \in 1 .. N : list[i] = list[j] => i = j
      /\ \A x \in S : \E i \in 1 .. N : list[i] = x
  BY DEF Lists
<1>. HIDE DEF N
<1>4. keep \in SUBSET (1 .. N)
  BY <1>1
<1>5. Selects(todo, offers, keep)
  <2>. HIDE DEF keep
  <2>1. N \in Nat
    BY <1>3
  <2>. QED
    BY <1>2, <1>4, <2>1, SelectedSelects
<1>0. PICK m \in Nat : \E place \in [1 .. m -> keep] :
        /\ todo = [k \in 1 .. m |-> offers[place[k]]]
        /\ \A i, j \in 1 .. m : i < j => place[i] < place[j]
        /\ \A x \in keep : \E k \in 1 .. m : place[k] = x
  <2>. HIDE DEF keep
  <2>. QED BY <1>5 DEF Selects
<1>6. PICK place \in [1 .. m -> keep] :
        /\ todo = [k \in 1 .. m |-> offers[place[k]]]
        /\ \A i, j \in 1 .. m : i < j => place[i] < place[j]
        /\ \A x \in keep : \E k \in 1 .. m : place[k] = x
  BY <1>0
<1>7. \A i \in 1 .. N : list[i] \in S /\ list[i] \in DOMAIN s /\ s[list[i]].size \in Nat
  <2>1. \A r \in DOMAIN s : s[r].size \in Nat
    BY DEF IsList, SetType
  <2>. QED
    BY <1>3, <2>1
<1>8. \A r \in DOMAIN s : left[r] \in Nat /\ left[r] <= s[r].size /\ (r \notin S => left[r] = s[r].size)
  BY <1>1 DEF Leaves
<1>9. \A i \in keep : /\ i \in 1 .. N
                      /\ offers[i].rs = list[i]
                      /\ \/ offers[i].size = InvalidRequest
                         \/ offers[i].size = left[list[i]] /\ offers[i].size < s[list[i]].size
  <2>. TAKE i \in keep
  <2>1. i \in 1 .. N /\ offers[i].rs = list[i] /\ s[list[i]].size # offers[i].size
    BY <1>1
  <2>. QED
    BY <1>1, <1>7, <1>8, <2>1
<1>10. DOMAIN todo = 1 .. m /\ \A k \in 1 .. m : place[k] \in keep /\ todo[k] = offers[place[k]]
  <2>. HIDE DEF keep
  <2>. QED BY <1>6
<1>11. \A i \in 1 .. N : left[list[i]] < s[list[i]].size => i \in keep /\ offers[i].size = left[list[i]]
  <2>. TAKE i \in 1 .. N
  <2>1. HAVE left[list[i]] < s[list[i]].size
  <2>2. left[list[i]] \in Nat /\ s[list[i]].size \in Nat
    BY <1>7, <1>8
  <2>3. offers[i].size = left[list[i]] /\ offers[i].rs = list[i]
    BY <1>1, <2>1, <2>2
  <2>. QED
    BY <1>1, <2>1, <2>2, <2>3
<1>. HIDE DEF keep
<1>12. \A i \in DOMAIN todo :
         /\ todo[i].rs \in S
         /\ \/ todo[i].size = InvalidRequest
            \/ todo[i].size = left[todo[i].rs] /\ todo[i].size < s[todo[i].rs].size
  BY <1>7, <1>9, <1>10
<1>13. \A i, j \in DOMAIN todo : todo[i].rs = todo[j].rs => i = j
  <2>. TAKE i, j \in DOMAIN todo
  <2>1. HAVE todo[i].rs = todo[j].rs
  <2>2. place[i] = place[j]
    BY <1>3, <1>9, <1>10, <2>1
  <2>3. i \in 1 .. m /\ j \in 1 .. m /\ place[i] \in Nat /\ place[j] \in Nat
    BY <1>9, <1>10
  <2>. QED
    BY <1>6, <2>2, <2>3
<1>14. \A r \in DOMAIN s : left[r] < s[r].size =>
         \E i \in DOMAIN todo : todo[i].rs = r /\ todo[i].size = left[r]
  <2>. TAKE r \in DOMAIN s
  <2>1. HAVE left[r] < s[r].size
  <2>2. r \in S
    <3>1. s[r].size \in Nat
      BY DEF IsList, SetType
    <3>. QED
      BY <1>8, <2>1, <3>1
  <2>3. PICK i \in 1 .. N : list[i] = r
    BY <1>3, <2>2
  <2>4. i \in keep /\ offers[i].size = left[r] /\ offers[i].rs = r
    BY <1>9, <1>11, <2>1, <2>3
  <2>5. PICK k \in 1 .. m : place[k] = i
    BY <1>6, <2>4
  <2>. QED
    BY <1>10, <2>4, <2>5
<1>15. Takes(s, S, todo, left)
  <2>1. todo = [k \in 1 .. m |-> todo[k]]
    BY <1>6
  <2>. QED
    BY <1>12, <1>13, <1>14, <2>1 DEF Takes, Rows
<1>. QED
  BY <1>1, <1>15 DEF todo

(* What applying such patches does to a list of ReplicaSets.               *)
HasSizes(c, s, left) ==
  /\ IsList(c)
  /\ DOMAIN c = DOMAIN s
  /\ \A r \in DOMAIN s : c[r].size = left[r] /\ c[r].ready = s[r].ready

LEMMA ApplyLeaves ==
  ASSUME NEW s, IsList(s), NEW S \in SUBSET DOMAIN s, NEW todo, NEW left \in [DOMAIN s -> Nat],
         \A r \in DOMAIN s : left[r] <= s[r].size, Takes(s, S, todo, left),
         \A i \in DOMAIN todo : todo[i].size # InvalidRequest, NEW n \in Nat
  PROVE  HasSizes(Apply(s, todo, n), s, left)
<1>. DEFINE c == Apply(s, todo, n)
<1>1. \A q \in SetType, k \in Nat :
        /\ Resized(q, k, n) \in SetType
        /\ Resized(q, k, n).size = k
        /\ Resized(q, k, n).pods = q.pods /\ Resized(q, k, n).ready = q.ready
  <2>. TAKE q \in SetType, k \in Nat
  <2>. DEFINE m == n + MaxSurge(n)
  <2>1. m \in Nat
    BY SurgeType
  <2>2. Resized(q, k, n) = [q EXCEPT !.size = k, !.desired = n, !.max = m]
    BY DEF Resized
  <2>. HIDE DEF m
  <2>. QED
    BY <2>1, <2>2 DEF SetType
<1>2. DOMAIN c = DOMAIN s
  BY DEF Apply
<1>3. ASSUME NEW r \in DOMAIN s
      PROVE  c[r] \in SetType /\ c[r].size = left[r] /\ c[r].ready = s[r].ready
  <2>0. s[r] \in SetType /\ s[r].size \in Nat /\ left[r] \in Nat
    BY DEF IsList, SetType
  <2>1. CASE \E i \in DOMAIN todo : todo[i].rs = r
    <3>. DEFINE p == CHOOSE q \in Range(todo) : q.rs = r
    <3>1. PICK i \in DOMAIN todo : todo[i].rs = r
      BY <2>1
    <3>2. p \in Range(todo) /\ p.rs = r
      BY <3>1 DEF Range
    <3>3. PICK j \in DOMAIN todo : p = todo[j]
      BY <3>2 DEF Range
    <3>4. p.size = left[r]
      <4>. HIDE DEF p
      <4>1. todo[j].size = left[todo[j].rs]
        BY DEF Takes
      <4>. QED
        BY <3>2, <3>3, <4>1
    <3>5. c[r] = Resized(s[r], p.size, n)
      BY <2>1 DEF Apply
    <3>. HIDE DEF p, c
    <3>. QED
      BY <1>1, <2>0, <3>4, <3>5
  <2>2. CASE ~ \E i \in DOMAIN todo : todo[i].rs = r
    <3>1. c[r] = s[r]
      BY <2>2 DEF Apply
    <3>2. ~(left[r] < s[r].size)
      BY <2>2 DEF Takes
    <3>3. left[r] <= s[r].size
      OBVIOUS
    <3>. HIDE DEF c
    <3>. QED
      BY <2>0, <3>1, <3>2, <3>3
  <2>. QED
    BY <2>1, <2>2
<1>4. IsList(c)
  <2>1. DOMAIN c \subseteq Sets
    BY <1>2 DEF IsList
  <2>2. c = [r \in DOMAIN c |-> c[r]]
    BY DEF Apply
  <2>. HIDE DEF c
  <2>. QED
    BY <1>2, <1>3, <2>1, <2>2 DEF IsList
<1>. QED
  BY <1>2, <1>3, <1>4 DEF HasSizes

(* Two lists of patches, one after the other.                              *)
Concatenates(todo, a, b, k, m) ==
  /\ Rows(todo, k + m)
  /\ DOMAIN todo = 1 .. k + m
  /\ \A i \in 1 .. k : todo[i] = a[i]
  /\ \A i \in 1 .. k + m : i \notin 1 .. k => i - k \in 1 .. m /\ todo[i] = b[i - k]

LEMMA Concatenated ==
  ASSUME NEW a, NEW b, NEW k \in Nat, NEW m \in Nat, Rows(a, k), Rows(b, m)
  PROVE  Concatenates(a \o b, a, b, k, m)
<1>. DEFINE D == {a[i] : i \in 1 .. k} \cup {b[i] : i \in 1 .. m}
<1>1. \A i \in 1 .. k : a[i] \in D
  OBVIOUS
<1>2. \A i \in 1 .. m : b[i] \in D
  OBVIOUS
<1>. HIDE DEF D
<1>3. a \in [1 .. k -> D] /\ b \in [1 .. m -> D]
  BY <1>1, <1>2 DEF Rows
<1>4. a \in Seq(D) /\ b \in Seq(D) /\ Len(a) = k /\ Len(b) = m
  BY <1>3
<1>5. /\ DOMAIN (a \o b) = 1 .. k + m
      /\ \A i \in 1 .. k + m : (a \o b)[i] = IF i <= k THEN a[i] ELSE b[i - k]
  BY <1>4
<1>6. \A i \in 1 .. k : i \in 1 .. k + m /\ i <= k
  OBVIOUS
<1>7. \A i \in 1 .. m : k + i \in 1 .. k + m /\ ~(k + i <= k) /\ (k + i) - k = i
  OBVIOUS
<1>8. \A i \in 1 .. k + m : i \notin 1 .. k => ~(i <= k) /\ i - k \in 1 .. m
  OBVIOUS
<1>9. Rows(a \o b, k + m)
  BY <1>4 DEF Rows
<1>. QED
  BY <1>5, <1>6, <1>7, <1>8, <1>9 DEF Concatenates

(***************************************************************************)
(* What a list of patches leaves                                           *)
(***************************************************************************)
LEMMA ListTyped ==
  ASSUME NEW s, IsList(s)
  PROVE  /\ IsFiniteSet(DOMAIN s) /\ \A T \in SUBSET DOMAIN s : IsFiniteSet(T)
         /\ \A r \in DOMAIN s : /\ r \in Sets
                                /\ s[r] \in SetType
                                /\ s[r].size \in Nat /\ s[r].ready \in Nat
                                /\ Lesser(s[r].size, s[r].ready) \in Nat
<1>1. IsFiniteSet(DOMAIN s) /\ \A T \in SUBSET DOMAIN s : IsFiniteSet(T)
  BY SetsFinite, FS_Subset DEF IsList
<1>2. \A r \in DOMAIN s : r \in Sets /\ s[r] \in SetType
  BY DEF IsList
<1>3. \A q \in SetType : q.size \in Nat /\ q.ready \in Nat /\ Lesser(q.size, q.ready) \in Nat
  BY DEF SetType, Lesser
<1>. QED
  BY <1>1, <1>2, <1>3

(* Lists compare as their ReplicaSets do.                                  *)
LEMMA TotalsCompare ==
  ASSUME NEW s, IsList(s), NEW u, IsList(u), DOMAIN u = DOMAIN s,
         \A r \in DOMAIN s : s[r].size <= u[r].size, NEW S
  PROVE  Total(s, S) <= Total(u, S)
<1>. DEFINE f == [r \in DOMAIN s |-> s[r].size]
            g == [r \in DOMAIN s |-> u[r].size]
            T == S \cap DOMAIN s
<1>1. Total(s, S) = SumFunctionOnSet(f, T) /\ Total(u, S) = SumFunctionOnSet(g, T)
  BY DEF Total
<1>2. IsFiniteSet(T)
  BY ListTyped
<1>3. \A r \in T : f[r] \in Int /\ g[r] \in Int /\ f[r] <= g[r]
  BY ListTyped
<1>. HIDE DEF f, g, T
<1>4. SumFunctionOnSet(f, T) <= SumFunctionOnSet(g, T)
  BY <1>2, <1>3, SumMonotone
<1>. QED
  BY <1>1, <1>4

LEMMA KeptCompare ==
  ASSUME NEW s, IsList(s), NEW u, IsList(u), DOMAIN u = DOMAIN s,
         \A r \in DOMAIN s : Lesser(s[r].size, s[r].ready) <= Lesser(u[r].size, u[r].ready)
  PROVE  Kept(s) <= Kept(u)
<1>. DEFINE f == [r \in DOMAIN s |-> Lesser(s[r].size, s[r].ready)]
            g == [r \in DOMAIN s |-> Lesser(u[r].size, u[r].ready)]
            T == DOMAIN s
<1>1. Kept(s) = SumFunctionOnSet(f, T) /\ Kept(u) = SumFunctionOnSet(g, T)
  BY DEF Kept, SumFunction
<1>2. IsFiniteSet(T)
  BY ListTyped
<1>3. \A r \in T : f[r] \in Int /\ g[r] \in Int /\ f[r] <= g[r]
  BY ListTyped
<1>. HIDE DEF f, g, T
<1>4. SumFunctionOnSet(f, T) <= SumFunctionOnSet(g, T)
  BY <1>2, <1>3, SumMonotone
<1>. QED
  BY <1>1, <1>4

LEMMA KeptType ==
  ASSUME NEW s, IsList(s)
  PROVE  Kept(s) \in Nat
<1>. DEFINE f == [r \in DOMAIN s |-> Lesser(s[r].size, s[r].ready)]
            D == Nat
<1>1. IsFiniteSet(DOMAIN s) /\ \A r \in DOMAIN s : f[r] \in D
  BY ListTyped
<1>2. Kept(s) = SumFunctionOnSet(f, DOMAIN s)
  BY DEF Kept, SumFunction
<1>3. D = Nat
  OBVIOUS
<1>. HIDE DEF f, D
<1>4. SumFunctionOnSet(f, DOMAIN s) \in D
  BY <1>1, <1>3, SumType
<1>. QED
  BY <1>2, <1>3, <1>4

(* What is left of each ReplicaSet when a plan is done.                    *)
LEMMA DoneSizes ==
  ASSUME NEW s, IsList(s), NEW todo
  PROVE  /\ IsList(Done(s, todo))
         /\ DOMAIN Done(s, todo) = DOMAIN s
         /\ \A r \in DOMAIN s :
              /\ Done(s, todo)[r].size \in Sizes(s, todo, r)
              /\ \A m \in Sizes(s, todo, r) : Done(s, todo)[r].size <= m
              /\ Sizes(s, todo, r) \subseteq Nat
              /\ Done(s, todo)[r].ready = s[r].ready
<1>. DEFINE d == Done(s, todo)
            least(r) == CHOOSE k \in Sizes(s, todo, r) : \A m \in Sizes(s, todo, r) : k <= m
<1>1. ASSUME NEW r \in DOMAIN s
      PROVE  /\ Sizes(s, todo, r) \subseteq Nat
             /\ least(r) \in Sizes(s, todo, r)
             /\ \A m \in Sizes(s, todo, r) : least(r) <= m
  <2>. DEFINE T == Sizes(s, todo, r)
  <2>1. T \in SUBSET Nat /\ T # {}
    BY ListTyped DEF Sizes, Pending
  <2>. HIDE DEF T
  <2>2. \E k \in T : \A m \in T : k <= m
    BY <2>1, Least
  <2>. QED
    BY <2>1, <2>2 DEF T
<1>2. d = [r \in DOMAIN s |-> [s[r] EXCEPT !.size = least(r)]]
  BY DEF Done
<1>. HIDE DEF least, d
<1>3. \A q \in SetType, k \in Nat :
        /\ [q EXCEPT !.size = k] \in SetType
        /\ [q EXCEPT !.size = k].size = k /\ [q EXCEPT !.size = k].ready = q.ready
  BY DEF SetType
<1>4. ASSUME NEW r \in DOMAIN s
      PROVE  d[r] \in SetType /\ d[r].size = least(r) /\ d[r].ready = s[r].ready
  <2>1. s[r] \in SetType /\ least(r) \in Nat
    BY <1>1, ListTyped
  <2>2. d[r] = [s[r] EXCEPT !.size = least(r)]
    BY <1>2
  <2>. QED
    BY <1>3, <2>1, <2>2
<1>5. IsList(d) /\ DOMAIN d = DOMAIN s
  <2>1. DOMAIN d = DOMAIN s
    BY <1>2
  <2>2. d = [r \in DOMAIN s |-> d[r]]
    BY <1>2
  <2>. QED
    BY <1>4, <2>1, <2>2 DEF IsList
<1>. QED
  BY <1>1, <1>4, <1>5 DEF d

(* If no patch asks for less than "least", the plan leaves that much.      *)
LEMMA DoneAtLeast ==
  ASSUME NEW s, IsList(s), NEW todo, NEW least \in [DOMAIN s -> Nat],
         \A r \in DOMAIN s : least[r] <= s[r].size,
         \A p \in Pending(todo) : p.rs \in DOMAIN s /\ least[p.rs] <= p.size
  PROVE  /\ \A S : SumFunctionOnSet(least, S \cap DOMAIN s) <= Total(Done(s, todo), S)
         /\ SumFunctionOnSet([r \in DOMAIN s |-> Lesser(least[r], s[r].ready)], DOMAIN s)
              <= Kept(Done(s, todo))
<1>. DEFINE d == Done(s, todo)
<1>1. \A r \in DOMAIN s : least[r] <= d[r].size
  <2>. TAKE r \in DOMAIN s
  <2>1. d[r].size \in Sizes(s, todo, r)
    BY DoneSizes
  <2>. HIDE DEF d
  <2>2. d[r].size = s[r].size \/ \E p \in Pending(todo) : p.rs = r /\ d[r].size = p.size
    BY <2>1 DEF Sizes
  <2>. QED
    BY <2>2
<1>2. IsList(d) /\ DOMAIN d = DOMAIN s /\ \A r \in DOMAIN s : d[r].ready = s[r].ready
  BY DoneSizes
<1>. HIDE DEF d
<1>3. \A r \in DOMAIN s : d[r].size \in Nat /\ d[r].ready \in Nat /\ least[r] \in Nat
  BY <1>2, ListTyped
<1>4. ASSUME NEW S PROVE SumFunctionOnSet(least, S \cap DOMAIN s) <= Total(d, S)
  <2>. DEFINE g == [r \in DOMAIN d |-> d[r].size]
              T == S \cap DOMAIN s
  <2>1. Total(d, S) = SumFunctionOnSet(g, T)
    BY <1>2 DEF Total
  <2>2. IsFiniteSet(T)
    BY ListTyped
  <2>3. \A r \in T : least[r] \in Int /\ g[r] \in Int /\ least[r] <= g[r]
    BY <1>1, <1>2, <1>3
  <2>. HIDE DEF g, T
  <2>4. SumFunctionOnSet(least, T) <= SumFunctionOnSet(g, T)
    BY <2>2, <2>3, SumMonotone
  <2>. QED
    BY <2>1, <2>4 DEF T
<1>5. SumFunctionOnSet([r \in DOMAIN s |-> Lesser(least[r], s[r].ready)], DOMAIN s) <= Kept(d)
  <2>. DEFINE f == [r \in DOMAIN s |-> Lesser(least[r], s[r].ready)]
              g == [r \in DOMAIN d |-> Lesser(d[r].size, d[r].ready)]
              T == DOMAIN s
  <2>1. Kept(d) = SumFunctionOnSet(g, T)
    BY <1>2 DEF Kept, SumFunction
  <2>2. IsFiniteSet(T)
    BY ListTyped
  <2>3. \A r \in T : f[r] \in Int /\ g[r] \in Int /\ f[r] <= g[r]
    BY <1>1, <1>2, <1>3 DEF Lesser
  <2>. HIDE DEF g, T, f
  <2>4. SumFunctionOnSet(f, T) <= SumFunctionOnSet(g, T)
    BY <2>2, <2>3, SumMonotone
  <2>. QED
    BY <2>1, <2>4 DEF T, f
<1>. QED
  BY <1>4, <1>5 DEF d

(* What the patches of one TakeAway do, and those of two.                  *)
TakesOnly(s, S, todo, least) ==
  /\ \E m \in Nat : Rows(todo, m)
  /\ \A p \in Range(todo) : p.rs \in S
  /\ Shrinks(s, todo)
  /\ \A p \in Pending(todo) : p.rs \in DOMAIN s /\ least[p.rs] <= p.size

LEMMA TakesOnce ==
  ASSUME NEW s, NEW S \in SUBSET DOMAIN s, NEW todo, NEW left \in [DOMAIN s -> Nat],
         Takes(s, S, todo, left)
  PROVE  TakesOnly(s, S, todo, left)
<1>1. \A i \in DOMAIN todo :
        /\ todo[i].rs \in S
        /\ \/ todo[i].size = InvalidRequest
           \/ todo[i].size = left[todo[i].rs] /\ todo[i].size < s[todo[i].rs].size
  BY DEF Takes
<1>2. \A i, j \in DOMAIN todo : todo[i].rs = todo[j].rs => i = j
  BY DEF Takes
<1>3. InvalidRequest \notin Nat
  BY DEF InvalidRequest
<1>4. PICK m \in Nat : Rows(todo, m)
  BY DEF Takes
<1>5. Shrinks(s, todo)
  <2>1. \A i \in DOMAIN todo : todo[i].size \in Nat => todo[i].size < s[todo[i].rs].size
    BY <1>1, <1>3
  <2>2. \A i \in DOMAIN todo : \A j \in 1 .. i - 1 : j \in DOMAIN todo /\ j # i
    <3>1. DOMAIN todo = 1 .. m
      BY <1>4 DEF Rows
    <3>. QED BY <3>1
  <2>. QED
    BY <1>2, <2>1, <2>2 DEF Shrinks
<1>6. \A p \in Range(todo) : \E i \in DOMAIN todo : p = todo[i]
  BY DEF Range
<1>7. \A p \in Pending(todo) : p.rs \in DOMAIN s /\ left[p.rs] <= p.size
  <2>. TAKE p \in Pending(todo)
  <2>1. p \in Range(todo) /\ p.size \in Nat
    BY DEF Pending
  <2>2. PICK i \in DOMAIN todo : p = todo[i]
    BY <1>6, <2>1
  <2>. QED
    BY <1>1, <1>3, <2>1, <2>2
<1>. QED
  BY <1>1, <1>4, <1>5, <1>6, <1>7 DEF TakesOnly

LEMMA TakesTwice ==
  ASSUME NEW s, NEW S \in SUBSET DOMAIN s, NEW a, NEW left \in [DOMAIN s -> Nat],
         Takes(s, S, a, left), \A i \in DOMAIN a : a[i].size # InvalidRequest,
         \A r \in DOMAIN s : left[r] <= s[r].size /\ s[r].size \in Nat,
         NEW c, DOMAIN c = DOMAIN s, \A r \in DOMAIN s : c[r].size = left[r],
         NEW b, NEW least \in [DOMAIN s -> Nat], \A r \in DOMAIN s : least[r] <= left[r],
         Takes(c, S, b, least)
  PROVE  TakesOnly(s, S, a \o b, least)
<1>. DEFINE todo == a \o b
<1>1. PICK k \in Nat : Rows(a, k)
  BY DEF Takes
<1>2. PICK m \in Nat : Rows(b, m)
  BY DEF Takes
<1>3. Concatenates(todo, a, b, k, m)
  BY <1>1, <1>2, Concatenated
<1>4. DOMAIN a = 1 .. k /\ DOMAIN b = 1 .. m
  BY <1>1, <1>2 DEF Rows
<1>. HIDE DEF todo
<1>3a. /\ Rows(todo, k + m)
       /\ DOMAIN todo = 1 .. k + m
       /\ \A i \in 1 .. k : todo[i] = a[i]
       /\ \A i \in 1 .. k + m : i \notin 1 .. k => i - k \in 1 .. m /\ todo[i] = b[i - k]
  BY <1>3 DEF Concatenates
<1>5. \A i \in 1 .. k : /\ a[i].rs \in S /\ a[i].rs \in DOMAIN s
                        /\ a[i].size = left[a[i].rs] /\ a[i].size < s[a[i].rs].size
  BY <1>4 DEF Takes
<1>6. \A i \in 1 .. m : /\ b[i].rs \in S /\ b[i].rs \in DOMAIN s
                        /\ \/ b[i].size = InvalidRequest
                           \/ b[i].size = least[b[i].rs] /\ b[i].size < left[b[i].rs]
  <2>. TAKE i \in 1 .. m
  <2>1. /\ b[i].rs \in S
        /\ \/ b[i].size = InvalidRequest
           \/ b[i].size = least[b[i].rs] /\ b[i].size < c[b[i].rs].size
    BY <1>4 DEF Takes
  <2>. QED
    BY <2>1
<1>7. /\ \A i, j \in 1 .. k : a[i].rs = a[j].rs => i = j
      /\ \A i, j \in 1 .. m : b[i].rs = b[j].rs => i = j
  BY <1>4 DEF Takes
<1>8. InvalidRequest \notin Nat
  BY DEF InvalidRequest
<1>9. \A r \in DOMAIN s : /\ least[r] \in Nat /\ left[r] \in Nat /\ s[r].size \in Nat
                          /\ least[r] <= left[r] /\ left[r] <= s[r].size
  OBVIOUS
<1>10. Shrinks(s, todo)
  <2>. SUFFICES ASSUME NEW i \in DOMAIN todo, todo[i].size \in Nat
                PROVE  /\ todo[i].size < s[todo[i].rs].size
                       /\ \A j \in 1 .. i - 1 : todo[j].rs = todo[i].rs /\ todo[j].size \in Nat =>
                            todo[i].size < todo[j].size
    BY DEF Shrinks
  <2>1. CASE i \in 1 .. k
    <3>1. \A j \in 1 .. i - 1 : j \in 1 .. k /\ j # i
      BY <2>1
    <3>. QED
      BY <1>3a, <1>5, <1>7, <2>1, <3>1
  <2>2. CASE i \notin 1 .. k
    <3>. DEFINE h == i - k
    <3>1. h \in 1 .. m /\ todo[i] = b[h]
      BY <1>3a, <2>2
    <3>2. b[h].size < left[b[h].rs] /\ b[h].rs \in DOMAIN s /\ b[h].size \in Nat
      BY <1>6, <1>8, <3>1
    <3>3. todo[i].size < s[todo[i].rs].size
      BY <1>9, <3>1, <3>2
    <3>4. ASSUME NEW j \in 1 .. i - 1, todo[j].rs = todo[i].rs, todo[j].size \in Nat
          PROVE  todo[i].size < todo[j].size
      <4>1. CASE j \in 1 .. k
        <5>1. todo[j] = a[j] /\ a[j].size = left[a[j].rs]
          BY <1>3a, <1>5, <4>1
        <5>. HIDE DEF h
        <5>. QED
          BY <3>1, <3>2, <3>4, <5>1
      <4>2. CASE j \notin 1 .. k
        <5>1. j \in 1 .. k + m /\ j # i
          BY <1>3a
        <5>2. j - k \in 1 .. m /\ todo[j] = b[j - k] /\ j - k # h
          BY <1>3a, <4>2, <5>1
        <5>. HIDE DEF h
        <5>. QED
          BY <1>7, <3>1, <3>4, <5>2
      <4>. QED
        BY <4>1, <4>2
    <3>. QED
      BY <3>3, <3>4
  <2>. QED
    BY <2>1, <2>2
<1>11. \A p \in Range(todo) : \E i \in DOMAIN todo : p = todo[i]
  BY DEF Range
<1>12. \A i \in DOMAIN todo :
         /\ todo[i].rs \in S /\ todo[i].rs \in DOMAIN s
         /\ todo[i].size \in Nat => least[todo[i].rs] <= todo[i].size
  <2>. TAKE i \in DOMAIN todo
  <2>1. CASE i \in 1 .. k
    BY <1>3a, <1>5, <1>9, <2>1
  <2>2. CASE i \notin 1 .. k
    <3>. DEFINE h == i - k
    <3>1. h \in 1 .. m /\ todo[i] = b[h]
      BY <1>3a, <2>2
    <3>. HIDE DEF h
    <3>. QED
      BY <1>6, <1>8, <1>9, <3>1
  <2>. QED
    BY <2>1, <2>2
<1>13. \A p \in Pending(todo) : p.rs \in DOMAIN s /\ least[p.rs] <= p.size
  <2>. TAKE p \in Pending(todo)
  <2>1. p \in Range(todo) /\ p.size \in Nat
    BY DEF Pending
  <2>2. PICK i \in DOMAIN todo : p = todo[i]
    BY <1>11, <2>1
  <2>. QED
    BY <1>12, <2>1, <2>2
<1>14. \A p \in Range(todo) : p.rs \in S
  BY <1>11, <1>12
<1>15. \E l \in Nat : Rows(todo, l)
  <2>1. k + m \in Nat
    OBVIOUS
  <2>. QED
    BY <1>3a, <2>1
<1>. QED
  BY <1>10, <1>13, <1>14, <1>15 DEF TakesOnly, todo

(***************************************************************************)
(* What reconcileOldReplicaSets plans                                      *)
(***************************************************************************)
LEMMA MinAvailableType ==
  ASSUME NEW n \in Nat
  PROVE  MinAvailable(n) \in 0 .. n
<1>1. Surge \in IntOrString /\ Unavailable \in IntOrString
  BY PlanAssumption
<1>2. GetScaledValue(Unavailable, n, FALSE) \in Nat
  BY <1>1, ScaledValue
<1>3. ResolveFenceposts(Surge, Unavailable, n).unavailable \in Nat
  BY <1>2 DEF ResolveFenceposts
<1>. QED
  BY <1>3 DEF MinAvailable, MaxUnavailable, Lesser

(* ReplicaSets without replicas do not count.                              *)
LEMMA ActiveTotal ==
  ASSUME NEW s, IsList(s), NEW c, IsList(c), DOMAIN c = DOMAIN s,
         \A r \in DOMAIN s : c[r].size <= s[r].size
  PROVE  Total(c, Active(s, Olds)) = Total(c, Olds)
<1>. DEFINE f == [r \in DOMAIN c |-> c[r].size]
            S == Olds \cap DOMAIN c
            T == Active(s, Olds)
<1>1. T \in SUBSET S /\ T \cap DOMAIN c = T
  BY DEF Active
<1>2. Total(c, T) = SumFunctionOnSet(f, T) /\ Total(c, Olds) = SumFunctionOnSet(f, S)
  BY <1>1 DEF Total
<1>3. IsFiniteSet(S) /\ \A r \in S : f[r] \in Int
  BY ListTyped
<1>4. \A r \in S \ T : f[r] = 0
  <2>. TAKE r \in S \ T
  <2>1. r \in DOMAIN s /\ c[r].size \in Nat /\ s[r].size \in Nat /\ c[r].size <= s[r].size
    BY ListTyped
  <2>2. ~(s[r].size > 0)
    BY <2>1 DEF Active
  <2>. QED
    BY <2>1, <2>2
<1>. HIDE DEF f, S, T
<1>5. SumFunctionOnSet(f, S) = SumFunctionOnSet(f, T)
  BY <1>1, <1>3, <1>4, SumSupport
<1>. QED
  BY <1>2, <1>5 DEF T

LEMMA ActiveAvailable ==
  ASSUME NEW s, IsList(s), New \in DOMAIN s,
         NEW c, IsList(c), DOMAIN c = DOMAIN s, \A r \in DOMAIN s : c[r].ready = s[r].ready
  PROVE  Available(c, Active(s, Olds) \cup {New})
           <= SumFunctionOnSet([r \in DOMAIN s |-> s[r].ready], DOMAIN s)
<1>. DEFINE f == [r \in DOMAIN c |-> c[r].ready]
            g == [r \in DOMAIN s |-> s[r].ready]
            T == Active(s, Olds) \cup {New}
            D == DOMAIN s
            N == Nat
<1>1. T \in SUBSET D /\ T \cap DOMAIN c = T
  BY DEF Active
<1>2. f = g
  OBVIOUS
<1>3. Available(c, T) = SumFunctionOnSet(f, T)
  BY <1>1 DEF Available
<1>4. IsFiniteSet(D) /\ \A r \in D : g[r] \in N /\ g[r] \in Int
  BY ListTyped
<1>5. N = Nat
  OBVIOUS
<1>. HIDE DEF f, g, T, D, N
<1>6. SumFunctionOnSet(g, D) = SumFunctionOnSet(g, T) + SumFunctionOnSet(g, D \ T)
  BY <1>1, <1>4, SumParts
<1>7. SumFunctionOnSet(g, D \ T) \in N
  <2>1. IsFiniteSet(D \ T)
    BY <1>4, FS_Subset
  <2>. QED
    BY <1>4, <1>5, <2>1, SumType
<1>8. SumFunctionOnSet(g, T) \in Int
  BY <1>1, <1>4, SumFacts
<1>. QED
  BY <1>2, <1>3, <1>5, <1>6, <1>7, <1>8 DEF T, g, D

(* The plan keeps what AvailabilityKept and OldShareKept are about.        *)
PlanKeeps(s, todo, n, i) ==
  /\ OnlyOlds(s, todo)
  /\ Shrinks(s, todo)
  /\ LeavesOlds(s, todo, n, i)
  /\ LeavesAvailable(s, todo, n, Surplus(s))

LEMMA PlanOf ==
  ASSUME NEW s, IsList(s), New \in DOMAIN s, NEW n \in Nat, NEW i \in 0 .. Len(Steps) - 1,
         NEW S \in SUBSET (Olds \cap DOMAIN s), NEW todo, NEW least \in [DOMAIN s -> Nat],
         \A r \in DOMAIN s : least[r] <= s[r].size, TakesOnly(s, S, todo, least),
         SumFunctionOnSet(least, Olds \cap DOMAIN s) >= n - Greater(Limit(i, n), s[New].size),
         \/ \A p \in Pending(todo) : p.size >= s[p.rs].ready
         \/ SumFunctionOnSet([r \in DOMAIN s |-> Lesser(least[r], s[r].ready)], DOMAIN s)
              + Surplus(s) >= MinAvailable(n)
  PROVE  PlanKeeps(s, todo, n, i)
<1>. DEFINE d == Done(s, todo)
            f == [r \in DOMAIN s |-> Lesser(least[r], s[r].ready)]
<1>1. /\ SumFunctionOnSet(least, Olds \cap DOMAIN s) <= Total(d, Olds)
      /\ SumFunctionOnSet(f, DOMAIN s) <= Kept(d)
  <2>1. \A p \in Pending(todo) : p.rs \in DOMAIN s /\ least[p.rs] <= p.size
    BY DEF TakesOnly
  <2>. QED
    BY <2>1, DoneAtLeast
<1>2. IsList(d)
  BY DoneSizes
<1>3. Total(d, Olds) \in Nat /\ Kept(d) \in Nat
  BY <1>2, SumsType, KeptType
<1>4. /\ SumFunctionOnSet(least, Olds \cap DOMAIN s) \in Int
      /\ SumFunctionOnSet(f, DOMAIN s) \in Int
  <2>1. IsFiniteSet(DOMAIN s) /\ \A r \in DOMAIN s : least[r] \in Int /\ f[r] \in Int
    BY ListTyped DEF Lesser
  <2>. HIDE DEF f
  <2>2. SumFunctionOnSet(least, Olds \cap DOMAIN s) \in Int
    BY <2>1, SumFacts
  <2>3. SumFunctionOnSet(f, DOMAIN s) \in Int
    BY <2>1, SumFacts
  <2>. QED
    BY <2>2, <2>3
<1>5. /\ n - Greater(Limit(i, n), s[New].size) \in Int
      /\ MinAvailable(n) \in Int
  <2>1. Limit(i, n) \in Int
    BY LimitType
  <2>2. s[New].size \in Int
    BY ListTyped
  <2>3. MinAvailable(n) \in Int
    BY MinAvailableType
  <2>. QED
    BY <2>1, <2>2, <2>3 DEF Greater
<1>. HIDE DEF d, f
<1>6. LeavesOlds(s, todo, n, i)
  BY <1>1, <1>3, <1>4, <1>5 DEF LeavesOlds, d
<1>7. LeavesAvailable(s, todo, n, Surplus(s))
  <2>0. Surplus(s) \in Nat
    BY SurplusType
  <2>1. SumFunctionOnSet(f, DOMAIN s) + Surplus(s) >= MinAvailable(n)
          => Kept(d) + Surplus(s) >= MinAvailable(n)
    BY <1>1, <1>3, <1>4, <1>5, <2>0
  <2>. QED
    BY <2>1 DEF LeavesAvailable, d, f
<1>8. OnlyOlds(s, todo) /\ Shrinks(s, todo)
  <2>1. todo \in Seq(Range(todo))
    BY RowsAreList DEF TakesOnly
  <2>. QED
    BY <2>1 DEF TakesOnly, OnlyOlds
<1>. QED
  BY <1>6, <1>7, <1>8 DEF PlanKeeps

LEMMA EmptyTakes ==
  ASSUME NEW s, NEW S, NEW left, \A r \in DOMAIN s : left[r] = s[r].size,
         \A r \in DOMAIN s : s[r].size \in Nat
  PROVE  Takes(s, S, <<>>, left)
<1>1. Rows(<<>>, 0)
  BY DEF Rows
<1>2. \A r \in DOMAIN s : ~(left[r] < s[r].size)
  OBVIOUS
<1>. QED
  BY <1>1, <1>2 DEF Takes

LEMMA CleanupTakes ==
  ASSUME NEW s, IsList(s), NEW most \in Int
  PROVE  LET olds == Active(s, Olds) IN
         \E left : /\ left \in [DOMAIN s -> Nat]
                   /\ \A r \in DOMAIN s : left[r] <= s[r].size
                   /\ \A r \in DOMAIN s \ olds : left[r] = s[r].size
                   /\ \A r \in DOMAIN s : left[r] >= Lesser(s[r].size, s[r].ready)
                   /\ SumFunctionOnSet(left, Olds \cap DOMAIN s) >= Total(s, Olds) - Greater(most, 0)
                   /\ Takes(s, olds, CleanupUnhealthyReplicas(s, olds, most), left)
<1>. DEFINE olds == Active(s, Olds)
            share == [r \in olds |-> IF s[r].size = 0 THEN 0 ELSE s[r].size - s[r].ready]
            list == Sorted(olds, ByCreation)
<1>1. /\ olds \in SUBSET DOMAIN s /\ olds \in SUBSET Sets /\ olds \in SUBSET (Olds \cap DOMAIN s)
      /\ \A r \in olds : s[r].size > 0
  BY DEF Active, Sets
<1>2. Lists(list, olds)
  <2>. HIDE DEF olds
  <2>. QED BY <1>1, CreationSorts
<1>3. \A r \in DOMAIN s : s[r].size \in Nat /\ s[r].ready \in Nat
  BY ListTyped
<1>4. \A r \in olds : share[r] \in Int /\ share[r] <= s[r].size /\ share[r] = s[r].size - s[r].ready
  <2>. HIDE DEF olds
  <2>. QED BY <1>1, <1>3
<1>5. CleanupUnhealthyReplicas(s, olds, most) = TakeAway(s, list, most, share)
  BY DEF CleanupUnhealthyReplicas
<1>. HIDE DEF olds, share, list
<1>6. PICK left : /\ Leaves(s, olds, left, most, share)
                  /\ Takes(s, olds, TakeAway(s, list, most, share), left)
  BY <1>1, <1>2, <1>4, TakeAwayTakes
<1>7. /\ left \in [DOMAIN s -> Nat]
      /\ \A r \in DOMAIN s : left[r] <= s[r].size /\ (r \notin olds => left[r] = s[r].size)
      /\ \A r \in olds : left[r] >= s[r].size - Greater(share[r], 0)
      /\ \A T \in SUBSET DOMAIN s : olds \subseteq T =>
           SumFunctionOnSet(left, T) >= Total(s, T) - Greater(most, 0)
  BY <1>6 DEF Leaves
<1>8. \A r \in DOMAIN s : left[r] >= Lesser(s[r].size, s[r].ready)
  <2>. TAKE r \in DOMAIN s
  <2>1. s[r].size \in Nat /\ s[r].ready \in Nat /\ left[r] \in Nat
    BY <1>3, <1>7
  <2>2. CASE r \in olds
    <3>1. share[r] = s[r].size - s[r].ready /\ left[r] >= s[r].size - Greater(share[r], 0)
      BY <1>4, <1>7, <2>2
    <3>. QED
      BY <2>1, <3>1 DEF Greater, Lesser
  <2>3. CASE r \notin olds
    BY <1>7, <2>1, <2>3 DEF Lesser
  <2>. QED
    BY <2>2, <2>3
<1>9. SumFunctionOnSet(left, Olds \cap DOMAIN s) >= Total(s, Olds) - Greater(most, 0)
  <2>. DEFINE T == Olds \cap DOMAIN s
  <2>1. Total(s, T) = Total(s, Olds)
    <3>1. T \cap DOMAIN s = Olds \cap DOMAIN s
      OBVIOUS
    <3>. QED
      BY <3>1 DEF Total
  <2>2. T \in SUBSET DOMAIN s /\ olds \subseteq T
    BY <1>1
  <2>. HIDE DEF T
  <2>3. SumFunctionOnSet(left, T) >= Total(s, T) - Greater(most, 0)
    BY <1>7, <2>2
  <2>. QED
    BY <2>1, <2>3 DEF T
<1>10. \A r \in DOMAIN s \ olds : left[r] = s[r].size
  BY <1>7
<1>. QED
  BY <1>5, <1>6, <1>7, <1>8, <1>9, <1>10 DEF olds

LEMMA ScaleDownTakes ==
  ASSUME NEW c, IsList(c), New \in DOMAIN c, NEW n \in Nat, NEW i \in 0 .. Len(Steps) - 1,
         NEW olds \in SUBSET (Olds \cap DOMAIN c), AppendReallocates(Cardinality(olds)),
         Available(c, olds \cup {New}) > MinAvailable(n)
  PROVE  \E least :
           /\ least \in [DOMAIN c -> Nat]
           /\ \A r \in DOMAIN c : least[r] <= c[r].size
           /\ Takes(c, olds, ScaleDownOld(c, n, i, olds), least)
           /\ \A T \in SUBSET DOMAIN c : olds \subseteq T =>
                /\ SumFunctionOnSet(least, T) >= Total(c, T) - Greater(OldLimit(c, n, i, olds), 0)
                /\ SumFunctionOnSet(least, T)
                     >= Total(c, T) - (Available(c, olds \cup {New}) - MinAvailable(n))
<1>. DEFINE list == ScaleDownList(olds)
            limit == OldLimit(c, n, i, olds)
            room == Available(c, olds \cup {New}) - MinAvailable(n)
            most == Lesser(room, limit)
            share == [r \in olds |-> c[r].size]
<1>1. Lists(list, olds)
  <2>1. list = Sorted(olds, BySmallerRevision)
    BY DEF ScaleDownList
  <2>. HIDE DEF list
  <2>2. Lists(Sorted(olds, BySmallerRevision), olds)
    BY RevisionSorts
  <2>. QED
    BY <2>1, <2>2
<1>2. ToSet(list) = olds
  <2>. HIDE DEF list
  <2>. QED BY <1>1 DEF Lists, ToSet
<1>3. ScaleDownOld(c, n, i, olds) = TakeAway(c, list, most, share)
  <2>1. ~(Available(c, olds \cup {New}) <= MinAvailable(n))
    <3>1. Available(c, olds \cup {New}) \in Int
      BY SumsType
    <3>2. MinAvailable(n) \in Int
      BY MinAvailableType
    <3>. QED
      BY <3>1, <3>2
  <2>. QED
    BY <1>2, <2>1 DEF ScaleDownOld
<1>4. room \in Nat /\ limit \in Int
  <2>1. Available(c, olds \cup {New}) \in Int
    BY SumsType
  <2>2. MinAvailable(n) \in Int
    BY MinAvailableType
  <2>3. Total(c, olds) \in Int
    BY SumsType
  <2>4. Limit(i, n) \in Int
    BY LimitType
  <2>5. c[New].size \in Int
    BY ListTyped
  <2>6. limit \in Int
    BY <2>3, <2>4, <2>5 DEF OldLimit, ScaleDownLimitForOld, Greater
  <2>. QED
    BY <2>1, <2>2, <2>6
<1>5. most \in Int /\ Greater(most, 0) <= Greater(limit, 0) /\ Greater(most, 0) <= room
  <2>. HIDE DEF room, limit
  <2>. QED BY <1>4 DEF Lesser, Greater
<1>6. \A r \in olds : share[r] \in Int /\ share[r] <= c[r].size
  BY ListTyped
<1>. HIDE DEF list, limit, room, most, share
<1>7. PICK least : /\ Leaves(c, olds, least, most, share)
                   /\ Takes(c, olds, TakeAway(c, list, most, share), least)
  <2>1. olds \in SUBSET DOMAIN c
    OBVIOUS
  <2>. QED
    BY <1>1, <1>5, <1>6, <2>1, TakeAwayTakes
<1>8. ASSUME NEW T \in SUBSET DOMAIN c, olds \subseteq T
      PROVE  /\ SumFunctionOnSet(least, T) >= Total(c, T) - Greater(limit, 0)
             /\ SumFunctionOnSet(least, T) >= Total(c, T) - room
  <2>1. SumFunctionOnSet(least, T) >= Total(c, T) - Greater(most, 0)
    BY <1>7, <1>8 DEF Leaves
  <2>2. Total(c, T) \in Int
    BY SumsType
  <2>3. SumFunctionOnSet(least, T) \in Int
    <3>1. IsFiniteSet(T)
      BY ListTyped
    <3>2. \A r \in T : least[r] \in Int
      BY <1>7 DEF Leaves
    <3>. QED
      BY <3>1, <3>2, SumFacts
  <2>4. Greater(most, 0) \in Int /\ Greater(limit, 0) \in Int
    BY <1>4, <1>5 DEF Greater
  <2>. QED
    BY <1>4, <1>5, <2>1, <2>2, <2>3, <2>4
<1>9. /\ least \in [DOMAIN c -> Nat]
      /\ \A r \in DOMAIN c : least[r] <= c[r].size
  BY <1>7 DEF Leaves
<1>. QED
  BY <1>3, <1>7, <1>8, <1>9 DEF limit, room

(* What the two limits leave, of the olds and of the ready pods.           *)
LEMMA KeptAfterScaleDown ==
  ASSUME NEW s, IsList(s), New \in DOMAIN s, NEW n \in Nat, NEW left \in [DOMAIN s -> Nat],
         \A r \in DOMAIN s : left[r] >= Lesser(s[r].size, s[r].ready),
         NEW c, IsList(c), DOMAIN c = DOMAIN s,
         \A r \in DOMAIN s : c[r].size = left[r] /\ c[r].ready = s[r].ready,
         NEW least \in [DOMAIN s -> Nat], \A r \in DOMAIN s : least[r] <= left[r],
         SumFunctionOnSet(least, DOMAIN s) >= Total(c, DOMAIN s)
           - (Available(c, Active(s, Olds) \cup {New}) - MinAvailable(n))
  PROVE  SumFunctionOnSet([r \in DOMAIN s |-> Lesser(least[r], s[r].ready)], DOMAIN s)
           + Surplus(s) >= MinAvailable(n)
<1>. DEFINE D == DOMAIN s
            extra == [r \in D |-> Greater(s[r].ready - s[r].size, 0)]
            ready == [r \in D |-> s[r].ready]
            size == [r \in D |-> c[r].size]
            kept == [r \in D |-> Lesser(least[r], s[r].ready)]
            a == [r \in D |-> ready[r] + least[r]]
            b == [r \in D |-> kept[r] + size[r]]
            e == [r \in D |-> b[r] + extra[r]]
<1>1. IsFiniteSet(D) /\ \A r \in D : /\ ready[r] \in Int /\ size[r] \in Int /\ kept[r] \in Int
                                     /\ least[r] \in Int /\ extra[r] \in Int
  BY ListTyped DEF Lesser, Greater
<1>2. \A r \in D : a[r] <= e[r]
  <2>. TAKE r \in D
  <2>1. /\ a[r] = s[r].ready + least[r]
        /\ e[r] = Lesser(least[r], s[r].ready) + left[r] + Greater(s[r].ready - s[r].size, 0)
        /\ s[r].ready \in Nat /\ least[r] \in Nat /\ left[r] \in Nat /\ s[r].size \in Nat
        /\ least[r] <= left[r] /\ left[r] >= Lesser(s[r].size, s[r].ready)
    BY ListTyped
  <2>. HIDE DEF a, e
  <2>. QED
    BY <2>1 DEF Lesser, Greater
<1>3. \A r \in D : /\ a[r] = ready[r] + least[r] /\ b[r] = kept[r] + size[r]
                   /\ e[r] = b[r] + extra[r]
  OBVIOUS
<1>4. Available(c, Active(s, Olds) \cup {New}) <= SumFunctionOnSet(ready, D)
  BY ActiveAvailable
<1>5. Total(c, D) = SumFunctionOnSet(size, D)
  <2>1. D \cap DOMAIN c = D
    OBVIOUS
  <2>. QED
    BY <2>1 DEF Total
<1>5a. Surplus(s) = SumFunctionOnSet(extra, D)
  BY DEF Surplus, SumFunction
<1>5b. Available(c, Active(s, Olds) \cup {New}) \in Int
  BY SumsType
<1>. HIDE DEF D, ready, size, kept, extra, a, b, e
<1>6. \A r \in D : a[r] \in Int /\ b[r] \in Int /\ e[r] \in Int
  BY <1>1, <1>3
<1>7. SumFunctionOnSet(a, D) = SumFunctionOnSet(ready, D) + SumFunctionOnSet(least, D)
  BY <1>1, <1>3, SumPlus
<1>8. SumFunctionOnSet(b, D) = SumFunctionOnSet(kept, D) + SumFunctionOnSet(size, D)
  BY <1>1, <1>3, SumPlus
<1>8a. SumFunctionOnSet(e, D) = SumFunctionOnSet(b, D) + SumFunctionOnSet(extra, D)
  BY <1>1, <1>3, <1>6, SumPlus
<1>8b. SumFunctionOnSet(extra, D) \in Int
  BY <1>1, SumFacts
<1>9. SumFunctionOnSet(a, D) <= SumFunctionOnSet(e, D)
  BY <1>1, <1>2, <1>6, SumMonotone
<1>10. SumFunctionOnSet(ready, D) \in Int
  BY <1>1, SumFacts
<1>11. SumFunctionOnSet(size, D) \in Int
  BY <1>1, SumFacts
<1>12. SumFunctionOnSet(kept, D) \in Int
  BY <1>1, SumFacts
<1>13. SumFunctionOnSet(least, D) \in Int
  BY <1>1, SumFacts
<1>14. MinAvailable(n) \in Int
  BY MinAvailableType
<1>15. SumFunctionOnSet(least, D) >=
         SumFunctionOnSet(size, D) - (SumFunctionOnSet(ready, D) - MinAvailable(n))
  BY <1>4, <1>5, <1>5b, <1>10, <1>11, <1>13, <1>14 DEF D
<1>16. SumFunctionOnSet(kept, D) + Surplus(s) >= MinAvailable(n)
  BY <1>5a, <1>7, <1>8, <1>8a, <1>8b, <1>9, <1>10, <1>11, <1>12, <1>13, <1>14, <1>15
<1>. QED
  BY <1>16 DEF kept, D

LEMMA ReconcileOldKeeps ==
  ASSUME NEW s, IsList(s), New \in DOMAIN s, NEW n \in Nat, NEW i \in 0 .. Len(Steps) - 1,
         OldLimit(s, n, i, Active(s, Olds)) > 0,
         AppendReallocates(Cardinality(Active(s, Olds)))
  PROVE  PlanKeeps(s, ReconcileOld(s, n, i), n, i)
<1>. DEFINE olds == Active(s, Olds)
            limit == OldLimit(s, n, i, olds)
            most == Lesser(limit, Total(s, Sets) - MinAvailable(n) - (s[New].size - s[New].ready))
            cleanup == CleanupUnhealthyReplicas(s, olds, most)
            c == Apply(s, cleanup, n)
            down == ScaleDownOld(c, n, i, olds)
            size == [r \in DOMAIN s |-> s[r].size]
            share == n - Greater(Limit(i, n), s[New].size)
            todo == ReconcileOld(s, n, i)
<1>1. /\ olds \in SUBSET (Olds \cap DOMAIN s) /\ olds \in SUBSET DOMAIN s
      /\ New \notin olds
  BY SetsAssumption DEF Active
<1>2. \A r \in DOMAIN s : s[r].size \in Nat /\ s[r].ready \in Nat /\ size[r] = s[r].size
  BY ListTyped
<1>3. size \in [DOMAIN s -> Nat]
  BY <1>2
<1>4. share \in Int /\ Total(s, Olds) \in Int /\ limit = Total(s, Olds) - share
  <2>1. Limit(i, n) \in Int
    BY LimitType
  <2>2. share \in Int
    BY <1>2, <2>1 DEF Greater
  <2>3. Total(s, Olds) \in Int
    BY SumsType
  <2>4. Total(s, olds) = Total(s, Olds)
    <3>1. \A r \in DOMAIN s : s[r].size <= s[r].size
      BY <1>2
    <3>. QED
      BY <3>1, ActiveTotal
  <2>. QED
    BY <2>2, <2>3, <2>4 DEF OldLimit, ScaleDownLimitForOld
<1>5. limit > 0 /\ limit \in Int
  BY <1>4
<1>6. most \in Int /\ most <= limit
  <2>1. Total(s, Sets) \in Int
    BY SumsType
  <2>2. MinAvailable(n) \in Int
    BY MinAvailableType
  <2>. HIDE DEF limit
  <2>. QED
    BY <1>2, <1>5, <2>1, <2>2 DEF Lesser
<1>7. /\ most <= 0 => todo = <<>>
      /\ most > 0 /\ (\E j \in DOMAIN cleanup : cleanup[j].size = InvalidRequest) => todo = cleanup
      /\ most > 0 /\ ~(\E j \in DOMAIN cleanup : cleanup[j].size = InvalidRequest)
           => todo = cleanup \o down
  <2>1. most > 0 => ~(most <= 0)
    <3>. HIDE DEF most
    <3>. QED BY <1>6
  <2>. HIDE DEF cleanup, down
  <2>. QED
    BY <2>1 DEF ReconcileOld, cleanup, down, c
<1>8. CASE most <= 0
  <2>1. todo = <<>>
    BY <1>7, <1>8
  <2>2. Takes(s, olds, <<>>, size)
    BY <1>2, EmptyTakes
  <2>3. TakesOnly(s, olds, <<>>, size)
    <3>. HIDE DEF size, olds
    <3>. QED BY <1>1, <1>3, <2>2, TakesOnce
  <2>4. SumFunctionOnSet(size, Olds \cap DOMAIN s) = Total(s, Olds)
    BY DEF Total
  <2>5. SumFunctionOnSet(size, Olds \cap DOMAIN s) >= share
    <3>. HIDE DEF share, limit, size
    <3>. QED BY <1>4, <1>5, <2>4
  <2>6. \A p \in Pending(<<>>) : p.size >= s[p.rs].ready
    BY DEF Pending, Range
  <2>7. \A r \in DOMAIN s : size[r] <= s[r].size
    BY <1>2
  <2>8. PlanKeeps(s, <<>>, n, i)
    <3>. HIDE DEF size, olds
    <3>. QED BY <1>1, <1>3, <2>3, <2>5, <2>6, <2>7, PlanOf
  <2>. QED
    BY <2>1, <2>8
<1>9. PICK left :
        /\ left \in [DOMAIN s -> Nat]
        /\ \A r \in DOMAIN s : left[r] <= s[r].size
        /\ \A r \in DOMAIN s \ olds : left[r] = s[r].size
        /\ \A r \in DOMAIN s : left[r] >= Lesser(s[r].size, s[r].ready)
        /\ SumFunctionOnSet(left, Olds \cap DOMAIN s) >= Total(s, Olds) - Greater(most, 0)
        /\ Takes(s, olds, cleanup, left)
  <2>1. most \in Int
    BY <1>6
  <2>. HIDE DEF most
  <2>. QED
    BY <2>1, CleanupTakes
<1>10. SumFunctionOnSet(left, Olds \cap DOMAIN s) \in Int
  <2>1. IsFiniteSet(Olds \cap DOMAIN s)
    BY ListTyped
  <2>2. \A r \in Olds \cap DOMAIN s : left[r] \in Int
    BY <1>9
  <2>. QED
    BY <2>1, <2>2, SumFacts
<1>11. most > 0 => SumFunctionOnSet(left, Olds \cap DOMAIN s) >= share
  <2>1. most > 0 => Greater(most, 0) = most
    <3>. HIDE DEF most
    <3>. QED BY <1>6 DEF Greater
  <2>. HIDE DEF most, limit, share
  <2>. QED
    BY <1>4, <1>6, <1>9, <1>10, <2>1
<1>. HIDE DEF most, limit, cleanup
<1>12. ASSUME NEW plan, TakesOnly(s, olds, plan, left), most > 0
       PROVE  PlanKeeps(s, plan, n, i)
  <2>1. \A p \in Pending(plan) : p.size >= s[p.rs].ready
    <3>. TAKE p \in Pending(plan)
    <3>1. p.rs \in DOMAIN s /\ left[p.rs] <= p.size /\ p.size \in Nat
      BY <1>12 DEF TakesOnly, Pending
    <3>2. p.size < s[p.rs].size
      <4>1. PICK j \in DOMAIN plan : p = plan[j]
        BY DEF Pending, Range
      <4>2. Shrinks(s, plan)
        BY <1>12 DEF TakesOnly
      <4>. QED
        BY <3>1, <4>1, <4>2 DEF Shrinks
    <3>3. /\ left[p.rs] \in Nat /\ left[p.rs] >= Lesser(s[p.rs].size, s[p.rs].ready)
          /\ s[p.rs].ready \in Nat /\ s[p.rs].size \in Nat
      BY <1>2, <1>9, <3>1
    <3>. QED
      BY <3>1, <3>2, <3>3 DEF Lesser
  <2>. HIDE DEF olds
  <2>. QED
    BY <1>1, <1>9, <1>11, <1>12, <2>1, PlanOf
<1>13. CASE most > 0 /\ \E j \in DOMAIN cleanup : cleanup[j].size = InvalidRequest
  <2>1. todo = cleanup
    BY <1>7, <1>13
  <2>2. TakesOnly(s, olds, cleanup, left)
    <3>. HIDE DEF olds
    <3>. QED BY <1>1, <1>9, TakesOnce
  <2>. QED
    BY <1>12, <1>13, <2>1, <2>2
<1>14. CASE most > 0 /\ ~ \E j \in DOMAIN cleanup : cleanup[j].size = InvalidRequest
  <2>1. todo = cleanup \o down
    BY <1>7, <1>14
  <2>2. \A j \in DOMAIN cleanup : cleanup[j].size # InvalidRequest
    BY <1>14
  <2>3. /\ IsList(c) /\ DOMAIN c = DOMAIN s
        /\ \A r \in DOMAIN s : c[r].size = left[r] /\ c[r].ready = s[r].ready
    <3>1. olds \in SUBSET DOMAIN s
      BY <1>1
    <3>2. left \in [DOMAIN s -> Nat] /\ \A r \in DOMAIN s : left[r] <= s[r].size
      BY <1>9
    <3>3. Takes(s, olds, cleanup, left)
      BY <1>9
    <3>. HIDE DEF olds
    <3>4. HasSizes(Apply(s, cleanup, n), s, left)
      BY <2>2, <3>1, <3>2, <3>3, ApplyLeaves
    <3>. QED
      BY <3>4 DEF HasSizes
  <2>. HIDE DEF c
  <2>4. CASE Available(c, olds \cup {New}) <= MinAvailable(n)
    <3>1. down = <<>>
      BY <2>4 DEF ScaleDownOld
    <3>2. Takes(c, olds, <<>>, left)
      <4>1. \A r \in DOMAIN c : left[r] = c[r].size /\ c[r].size \in Nat
        BY <1>9, <2>3
      <4>. QED
        BY <4>1, EmptyTakes
    <3>3. \A r \in DOMAIN s : left[r] <= left[r] /\ left[r] <= s[r].size /\ s[r].size \in Nat
      BY <1>2, <1>9
    <3>4. TakesOnly(s, olds, cleanup \o <<>>, left)
      <4>. HIDE DEF olds
      <4>. QED BY <1>1, <1>9, <2>2, <2>3, <3>2, <3>3, TakesTwice
    <3>. QED
      BY <1>12, <1>14, <2>1, <3>1, <3>4
  <2>5. CASE ~(Available(c, olds \cup {New}) <= MinAvailable(n))
    <3>1. Available(c, olds \cup {New}) \in Int
      BY <2>3, SumsType
    <3>2. MinAvailable(n) \in Int
      BY MinAvailableType
    <3>3. Available(c, olds \cup {New}) > MinAvailable(n)
      BY <2>5, <3>1, <3>2
    <3>4. olds \in SUBSET (Olds \cap DOMAIN c) /\ New \in DOMAIN c
      BY <1>1, <2>3
    <3>5. PICK least :
            /\ least \in [DOMAIN c -> Nat]
            /\ \A r \in DOMAIN c : least[r] <= c[r].size
            /\ Takes(c, olds, down, least)
            /\ \A T \in SUBSET DOMAIN c : olds \subseteq T =>
                 /\ SumFunctionOnSet(least, T) >= Total(c, T) - Greater(OldLimit(c, n, i, olds), 0)
                 /\ SumFunctionOnSet(least, T)
                      >= Total(c, T) - (Available(c, olds \cup {New}) - MinAvailable(n))
      <4>. HIDE DEF olds
      <4>. QED BY <2>3, <3>3, <3>4, ScaleDownTakes DEF olds
    <3>. HIDE DEF down
    <3>6. /\ least \in [DOMAIN s -> Nat]
          /\ \A r \in DOMAIN s : least[r] <= left[r] /\ least[r] <= s[r].size
      <4>1. \A r \in DOMAIN s : /\ least[r] \in Nat /\ left[r] \in Nat /\ s[r].size \in Nat
                                /\ least[r] <= left[r] /\ left[r] <= s[r].size
        BY <1>2, <1>9, <2>3, <3>5
      <4>. QED
        BY <2>3, <3>5, <4>1
    <3>7. TakesOnly(s, olds, cleanup \o down, least)
      <4>1. \A r \in DOMAIN s : left[r] <= s[r].size /\ s[r].size \in Nat
        BY <1>2, <1>9
      <4>. HIDE DEF olds
      <4>. QED BY <1>1, <1>9, <2>2, <2>3, <3>5, <3>6, <4>1, TakesTwice
    <3>8. SumFunctionOnSet(least, Olds \cap DOMAIN s) >= share
      <4>. DEFINE T == Olds \cap DOMAIN s
      <4>1. SumFunctionOnSet(least, T) >= Total(c, T) - Greater(OldLimit(c, n, i, olds), 0)
        BY <1>1, <2>3, <3>5
      <4>2. Total(c, T) = Total(c, Olds) /\ Total(c, T) = SumFunctionOnSet(left, T)
        <5>1. T \cap DOMAIN c = Olds \cap DOMAIN c /\ T \cap DOMAIN c = T
          BY <2>3
        <5>2. [r \in DOMAIN c |-> c[r].size] = left
          BY <1>9, <2>3
        <5>. QED
          BY <5>1, <5>2 DEF Total
      <4>3. Total(c, olds) = Total(c, Olds)
        BY <1>9, <2>3, ActiveTotal
      <4>4. c[New].size = s[New].size
        BY <1>1, <1>9, <2>3
      <4>5. OldLimit(c, n, i, olds) = Total(c, T) - share
        BY <4>2, <4>3, <4>4 DEF OldLimit, ScaleDownLimitForOld
      <4>6. Total(c, T) >= share /\ Total(c, T) \in Int
        BY <1>10, <1>11, <1>14, <4>2
      <4>7. SumFunctionOnSet(least, T) \in Int
        <5>1. IsFiniteSet(T)
          BY ListTyped
        <5>2. \A r \in T : least[r] \in Int
          BY <3>6
        <5>. QED
          BY <5>1, <5>2, SumFacts
      <4>. HIDE DEF T, share
      <4>8. Greater(OldLimit(c, n, i, olds), 0) = Total(c, T) - share
        BY <1>4, <4>5, <4>6 DEF Greater
      <4>. QED
        BY <1>4, <4>1, <4>6, <4>7, <4>8 DEF T
    <3>9. SumFunctionOnSet([r \in DOMAIN s |-> Lesser(least[r], s[r].ready)], DOMAIN s)
            + Surplus(s) >= MinAvailable(n)
      <4>1. SumFunctionOnSet(least, DOMAIN s) >= Total(c, DOMAIN s)
              - (Available(c, Active(s, Olds) \cup {New}) - MinAvailable(n))
        BY <1>1, <2>3, <3>5
      <4>2. \A r \in DOMAIN s : left[r] >= Lesser(s[r].size, s[r].ready)
        BY <1>9
      <4>3. left \in [DOMAIN s -> Nat]
        BY <1>9
      <4>4. least \in [DOMAIN s -> Nat] /\ \A r \in DOMAIN s : least[r] <= left[r]
        BY <3>6
      <4>. QED
        BY <2>3, <4>1, <4>2, <4>3, <4>4, KeptAfterScaleDown
    <3>10. PlanKeeps(s, cleanup \o down, n, i)
      <4>. HIDE DEF olds
      <4>. QED BY <1>1, <3>6, <3>7, <3>8, <3>9, PlanOf
    <3>. QED
      BY <2>1, <3>10
  <2>. QED
    BY <2>4, <2>5
<1>15. most <= 0 \/ most > 0
  BY <1>6
<1>. QED
  BY <1>8, <1>13, <1>14, <1>15

(* Whatever old ReplicaSets are listed, the list has no room to spare: so  *)
(* it is with one or two of them.                                          *)
Reallocates == \A k \in 1 .. Cardinality(Olds) : AppendReallocates(k)

LEMMA DownStage ==
  ASSUME NEW s, IsList(s), New \in DOMAIN s, NEW n \in Nat, NEW i \in 0 .. Len(Steps) - 1,
         Reallocates, UpgradeStage(s, n, i).pc = "down"
  PROVE  /\ UpgradeStage(s, n, i).todo = ReconcileOld(s, n, i)
         /\ OldLimit(s, n, i, Active(s, Olds)) > 0
         /\ AppendReallocates(Cardinality(Active(s, Olds)))
<1>. DEFINE olds == Active(s, Olds)
<1>1. UpgradeStage(s, n, i) = OldStage(s, n, i)
  BY DEF UpgradeStage
<1>2. /\ olds # {} /\ ~(OldLimit(s, n, i, olds) <= 0)
      /\ OldStage(s, n, i).todo = ReconcileOld(s, n, i)
  <2>1. CASE olds = {}
    BY <1>1, <2>1 DEF OldStage
  <2>2. CASE olds # {} /\ OldLimit(s, n, i, olds) <= 0
    BY <1>1, <2>2 DEF OldStage
  <2>3. CASE olds # {} /\ ~(OldLimit(s, n, i, olds) <= 0)
    BY <2>3 DEF OldStage
  <2>. QED
    BY <2>1, <2>2, <2>3
<1>3. OldLimit(s, n, i, olds) > 0
  <2>1. Total(s, olds) \in Int
    BY SumsType
  <2>2. Limit(i, n) \in Int
    BY LimitType
  <2>3. s[New].size \in Int
    BY ListTyped
  <2>4. OldLimit(s, n, i, olds) \in Int
    BY <2>1, <2>2, <2>3 DEF OldLimit, ScaleDownLimitForOld, Greater
  <2>. QED
    BY <1>2, <2>4
<1>4. AppendReallocates(Cardinality(olds))
  <2>1. IsFiniteSet(Olds)
    BY SetsAssumption
  <2>2. olds \in SUBSET Olds
    BY DEF Active
  <2>. HIDE DEF olds
  <2>3. IsFiniteSet(olds) /\ Cardinality(olds) <= Cardinality(Olds)
    BY <2>1, <2>2, FS_Subset
  <2>4. Cardinality(olds) \in Nat /\ Cardinality(Olds) \in Nat
    BY <2>1, <2>3, FS_CardinalityType
  <2>5. Cardinality(olds) # 0
    BY <1>2, <2>3, FS_EmptySet
  <2>. QED
    BY <2>3, <2>4, <2>5 DEF Reallocates
<1>. QED
  BY <1>1, <1>2, <1>3, <1>4

LEMMA UpgradeStageKeeps ==
  ASSUME NEW s, IsList(s), New \in DOMAIN s, NEW n \in Nat, NEW i \in 0 .. Len(Steps) - 1,
         Reallocates, UpgradeStage(s, n, i).pc = "down"
  PROVE  PlanKeeps(s, UpgradeStage(s, n, i).todo, n, i)
BY DownStage, ReconcileOldKeeps

(* A patch resizes one ReplicaSet of a list.                               *)
ResizesOne(t, s, p) ==
  /\ IsList(t) /\ DOMAIN t = DOMAIN s
  /\ \A r \in DOMAIN s : /\ t[r].ready = s[r].ready
                         /\ r = p.rs => t[r].size = p.size
                         /\ r # p.rs => t[r] = s[r]

LEMMA PatchedResizes ==
  ASSUME NEW s, IsList(s), NEW p, p.size \in Nat, NEW n \in Nat
  PROVE  ResizesOne(Patched(s, p, n), s, p)
BY PatchedType DEF ResizesOne

(* What is planned is kept by patching the first of it, and by giving up.  *)
LEMMA PatchKeepsPlan ==
  ASSUME NEW s, IsList(s), NEW todo, NEW m \in Nat, Rows(todo, m), m > 0,
         NEW n \in Nat, NEW i \in 0 .. Len(Steps) - 1, New \in DOMAIN s, NEW x \in Nat,
         todo[1].size \in Nat, OnlyOlds(s, todo), Shrinks(s, todo)
  PROVE  LET t == Patched(s, Head(todo), n) IN
         /\ OnlyOlds(t, Tail(todo))
         /\ Shrinks(t, Tail(todo))
         /\ LeavesOlds(s, todo, n, i) => LeavesOlds(t, Tail(todo), n, i)
         /\ LeavesAvailable(s, todo, n, x) => LeavesAvailable(t, Tail(todo), n, x)
<1>. DEFINE p == Head(todo)
            rest == Tail(todo)
            t == Patched(s, p, n)
<1>1. /\ p = todo[1]
      /\ DOMAIN rest = 1 .. m - 1 /\ Rows(rest, m - 1)
      /\ \A k \in 1 .. m - 1 : k + 1 \in 1 .. m /\ rest[k] = todo[k + 1]
  <2>. DEFINE D == {todo[k] : k \in 1 .. m}
  <2>1. \A k \in 1 .. m : todo[k] \in D
    OBVIOUS
  <2>. HIDE DEF D
  <2>2. todo \in [1 .. m -> D]
    BY <2>1 DEF Rows
  <2>3. todo \in Seq(D) /\ Len(todo) = m
    BY <2>2
  <2>. QED
    BY <2>3 DEF Rows
<1>2. DOMAIN todo = 1 .. m
  BY DEF Rows
<1>3. p \in Range(todo) /\ p.rs \in Olds /\ p.rs \in DOMAIN s /\ p.size \in Nat
      /\ p.size < s[p.rs].size
  <2>1. 1 \in DOMAIN todo
    BY <1>2
  <2>2. todo[1] \in Range(todo)
    BY <2>1 DEF Range
  <2>3. todo[1].rs \in Olds \cap DOMAIN s
    BY <2>2 DEF OnlyOlds
  <2>4. todo[1].size < s[todo[1].rs].size
    BY <2>1 DEF Shrinks
  <2>. HIDE DEF p
  <2>. QED
    BY <1>1, <2>2, <2>3, <2>4
<1>. HIDE DEF p, rest
<1>4. /\ IsList(t) /\ DOMAIN t = DOMAIN s
      /\ \A r \in DOMAIN s : /\ t[r].ready = s[r].ready
                             /\ r = p.rs => t[r].size = p.size
                             /\ r # p.rs => t[r] = s[r]
  <2>1. p.size \in Nat
    BY <1>3
  <2>2. ResizesOne(Patched(s, p, n), s, p)
    BY <2>1, PatchedResizes
  <2>. QED
    BY <2>2 DEF ResizesOne
<1>. HIDE DEF t
<1>5. \A k \in DOMAIN rest : k + 1 \in DOMAIN todo /\ rest[k] = todo[k + 1]
  BY <1>1, <1>2
<1>6. \A q \in Range(rest) : q \in Range(todo)
  BY <1>5 DEF Range
<1>7. OnlyOlds(t, rest)
  <2>1. m - 1 \in Nat
    OBVIOUS
  <2>2. rest \in Seq(Range(rest))
    BY <1>1, <2>1, RowsAreList
  <2>. QED
    BY <1>4, <1>6, <2>2 DEF OnlyOlds
<1>8. Shrinks(t, rest)
  <2>. SUFFICES ASSUME NEW k \in DOMAIN rest, rest[k].size \in Nat
                PROVE  /\ rest[k].size < t[rest[k].rs].size
                       /\ \A j \in 1 .. k - 1 : rest[j].rs = rest[k].rs /\ rest[j].size \in Nat =>
                            rest[k].size < rest[j].size
    BY DEF Shrinks
  <2>. DEFINE l == k + 1
  <2>1. k \in Nat /\ k \in 1 .. m - 1 /\ l \in DOMAIN todo /\ rest[k] = todo[l]
    <3>1. k \in 1 .. m - 1
      BY <1>1
    <3>2. l \in DOMAIN todo /\ rest[k] = todo[l]
      BY <1>5
    <3>. QED
      BY <3>1, <3>2
  <2>2. /\ todo[l].size < s[todo[l].rs].size
        /\ \A j \in 1 .. l - 1 : todo[j].rs = todo[l].rs /\ todo[j].size \in Nat =>
             todo[l].size < todo[j].size
    BY <2>1 DEF Shrinks
  <2>3. todo[l].rs \in DOMAIN s
    BY <2>1 DEF OnlyOlds, Range
  <2>4. 1 \in 1 .. l - 1
    BY <1>1, <2>1
  <2>5. rest[k].size < t[rest[k].rs].size
    <3>1. CASE todo[l].rs = p.rs
      <4>1. todo[l].size < todo[1].size
        BY <1>1, <2>1, <2>2, <2>4, <3>1
      <4>2. t[p.rs].size = p.size
        BY <1>3, <1>4
      <4>. HIDE DEF l
      <4>. QED
        BY <1>1, <2>1, <3>1, <4>1, <4>2
    <3>2. CASE todo[l].rs # p.rs
      BY <1>4, <2>1, <2>2, <2>3, <3>2
    <3>. QED
      BY <3>1, <3>2
  <2>6. \A j \in 1 .. k - 1 : j + 1 \in 1 .. l - 1 /\ rest[j] = todo[j + 1]
    <3>. TAKE j \in 1 .. k - 1
    <3>1. j \in 1 .. m - 1 /\ j + 1 \in 1 .. l - 1
      BY <2>1
    <3>. QED
      BY <1>1, <3>1
  <2>. QED
    BY <2>1, <2>2, <2>5, <2>6
<1>9. \A q \in Pending(rest) : q \in Pending(todo)
  BY <1>6 DEF Pending
<1>10. \A r \in DOMAIN s : Sizes(t, rest, r) \subseteq Sizes(s, todo, r)
  <2>. TAKE r \in DOMAIN s
  <2>1. t[r].size \in Sizes(s, todo, r)
    <3>1. CASE r = p.rs
      <4>1. t[r].size = p.size /\ p \in Pending(todo)
        BY <1>3, <1>4, <3>1 DEF Pending
      <4>. QED
        BY <3>1, <4>1 DEF Sizes
    <3>2. CASE r # p.rs
      BY <1>4, <3>2 DEF Sizes
    <3>. QED
      BY <3>1, <3>2
  <2>. QED
    BY <1>9, <2>1 DEF Sizes
<1>. DEFINE d == Done(s, todo)
            e == Done(t, rest)
<1>11. /\ IsList(d) /\ IsList(e) /\ DOMAIN d = DOMAIN s /\ DOMAIN e = DOMAIN s
       /\ \A r \in DOMAIN s : /\ d[r].size <= e[r].size
                              /\ d[r].ready = e[r].ready
  <2>1. /\ IsList(d) /\ DOMAIN d = DOMAIN s
        /\ \A r \in DOMAIN s : /\ \A k \in Sizes(s, todo, r) : d[r].size <= k
                               /\ d[r].ready = s[r].ready
    BY DoneSizes
  <2>2. /\ IsList(e) /\ DOMAIN e = DOMAIN t
        /\ \A r \in DOMAIN t : /\ e[r].size \in Sizes(t, rest, r)
                               /\ e[r].ready = t[r].ready
    BY <1>4, DoneSizes
  <2>. HIDE DEF d, e
  <2>. QED
    BY <1>4, <1>10, <2>1, <2>2
<1>. HIDE DEF d, e
<1>12. Total(d, Olds) <= Total(e, Olds)
  BY <1>11, TotalsCompare
<1>13. Kept(d) <= Kept(e)
  <2>1. \A r \in DOMAIN d : Lesser(d[r].size, d[r].ready) <= Lesser(e[r].size, e[r].ready)
    <3>. TAKE r \in DOMAIN d
    <3>1. d[r].size \in Nat /\ d[r].ready \in Nat /\ e[r].size \in Nat /\ e[r].ready \in Nat
      BY <1>11, ListTyped
    <3>. QED
      BY <1>11, <3>1 DEF Lesser
  <2>. QED
    BY <1>11, <2>1, KeptCompare
<1>14. /\ Total(d, Olds) \in Nat /\ Total(e, Olds) \in Nat
       /\ Kept(d) \in Nat /\ Kept(e) \in Nat
  BY <1>11, SumsType, KeptType
<1>15. t[New].size = s[New].size
  <2>1. New # p.rs
    BY <1>3, SetsAssumption
  <2>. QED
    BY <1>4, <2>1
<1>16. LeavesOlds(s, todo, n, i) => LeavesOlds(t, rest, n, i)
  <2>. DEFINE share == n - Greater(Limit(i, n), s[New].size)
  <2>1. share \in Int
    <3>1. Limit(i, n) \in Int
      BY LimitType
    <3>2. s[New].size \in Int
      BY ListTyped
    <3>. QED
      BY <3>1, <3>2 DEF Greater
  <2>2. /\ LeavesOlds(s, todo, n, i) <=> Total(d, Olds) >= share
        /\ LeavesOlds(t, rest, n, i) <=> Total(e, Olds) >= share
    BY <1>15 DEF LeavesOlds, d, e
  <2>. HIDE DEF share
  <2>. QED
    BY <1>12, <1>14, <2>1, <2>2
<1>17. LeavesAvailable(s, todo, n, x) => LeavesAvailable(t, rest, n, x)
  <2>1. CASE \A q \in Pending(todo) : q.size >= s[q.rs].ready
    <3>1. \A q \in Pending(rest) : q.rs \in DOMAIN s
      BY <1>6 DEF Pending, OnlyOlds
    <3>2. \A q \in Pending(rest) : q.size >= t[q.rs].ready
      BY <1>4, <1>9, <2>1, <3>1
    <3>. QED
      BY <3>2 DEF LeavesAvailable
  <2>2. CASE Kept(d) + x >= MinAvailable(n)
    <3>1. MinAvailable(n) \in Int
      BY MinAvailableType
    <3>2. Kept(e) + x >= MinAvailable(n)
      BY <1>13, <1>14, <2>2, <3>1
    <3>. QED
      BY <3>2 DEF LeavesAvailable, e
  <2>. QED
    BY <2>1, <2>2 DEF LeavesAvailable, d
<1>. QED
  BY <1>7, <1>8, <1>16, <1>17 DEF p, rest, t

(***************************************************************************)
(* What reconcileOldReplicaSets has yet to do stays within its bounds      *)
(***************************************************************************)
Planned(s, todo, n, i, m, k) ==
  /\ OnlyOlds(s, todo)
  /\ Shrinks(s, todo)
  /\ LeavesOlds(s, todo, n, i)
  /\ ~m => LeavesAvailable(s, todo, n, k)

LEMMA PlanIs ==
  PlanInductive <=>
    /\ pc = "create" => Surplus(rec.rs) = rec.surplus
    /\ pc = "down" => Planned(rec.rs, rec.todo, rec.replicas, idx, rec.missed, rec.surplus)
BY DEF PlanInductive, Planned

LEMMA PlanIsNext ==
  PlanInductive' <=>
    /\ pc' = "create" => Surplus(rec'.rs) = rec'.surplus
    /\ pc' = "down" => Planned(rec'.rs, rec'.todo, rec'.replicas, idx', rec'.missed, rec'.surplus)
BY DEF PlanInductive, Planned

LEMMA PlanInit == Init => PlanInductive
BY DEF Init, PlanInductive

LEMMA StagePlanned ==
  ASSUME Reallocates, NEW s, IsList(s), New \in DOMAIN s, NEW n \in Nat,
         NEW i \in 0 .. Len(Steps) - 1, UpgradeStage(s, n, i).pc = "down",
         NEW m, NEW k, ~m => k = Surplus(s)
  PROVE  Planned(s, UpgradeStage(s, n, i).todo, n, i, m, k)
<1>. DEFINE todo == UpgradeStage(s, n, i).todo
<1>1. PlanKeeps(s, todo, n, i)
  BY UpgradeStageKeeps
<1>. HIDE DEF todo
<1>2. OnlyOlds(s, todo) /\ Shrinks(s, todo) /\ LeavesOlds(s, todo, n, i)
  BY <1>1 DEF PlanKeeps
<1>3. ~m => LeavesAvailable(s, todo, n, k)
  BY <1>1 DEF PlanKeeps
<1>. QED
  BY <1>2, <1>3 DEF Planned, todo

LEMMA PlanStarts ==
  ASSUME TypeInductive, Reallocates, StartSync \/ StartUpgrade \/ StartStep
  PROVE  PlanInductive'
<1>. DEFINE l == cache.rs
            stage == UpgradeStage(l, replicas, idx)
<1>1. /\ idx' = idx /\ rec'.rs = l /\ rec'.replicas = replicas /\ rec'.surplus = Surplus(l)
      /\ pc' = "down" => New \in DOMAIN l /\ stage.pc = "down" /\ rec'.todo = stage.todo
  BY Starts
<1>2. IsList(l) /\ replicas \in Nat /\ idx \in 0 .. Len(Steps) - 1
  BY TypedFacts
<1>. HIDE DEF l
<1>3. pc' = "down" => Planned(l, stage.todo, replicas, idx, rec'.missed, Surplus(l))
  BY <1>1, <1>2, StagePlanned
<1>. QED
  BY <1>1, <1>3, PlanIsNext

(* The ReplicaSet that is created has no pods yet.                         *)
LEMMA SurplusWithNew ==
  ASSUME NEW s, IsList(s), New \notin DOMAIN s, NEW q \in SetType, q.ready = 0
  PROVE  Surplus(WithNew(s, q)) = Surplus(s)
<1>. DEFINE t == WithNew(s, q)
            D == DOMAIN s
            E == D \cup {New}
            f == [r \in D |-> Greater(s[r].ready - s[r].size, 0)]
            g == [r \in E |-> Greater(t[r].ready - t[r].size, 0)]
            h == [r \in E |-> IF r \in D THEN f[r] ELSE 0]
<1>1. /\ IsList(t) /\ DOMAIN t = E
      /\ \A r \in E : t[r] = IF r \in D THEN s[r] ELSE q
  BY WithNewType
<1>2. IsFiniteSet(D) /\ IsFiniteSet(E)
  BY <1>1, ListTyped
<1>3. \A r \in D : f[r] \in Int
  BY ListTyped DEF Greater
<1>4. g[New] = 0
  <2>1. t[New] = q
    BY <1>1
  <2>2. q.size \in Nat
    BY DEF SetType
  <2>. HIDE DEF t
  <2>. QED
    BY <2>1, <2>2 DEF Greater
<1>5. \A r \in D : g[r] = f[r]
  BY <1>1
<1>6. Surplus(t) = SumFunctionOnSet(g, E) /\ Surplus(s) = SumFunctionOnSet(f, D)
  BY <1>1 DEF Surplus, SumFunction
<1>7. New \in E /\ E \ {New} = D
  OBVIOUS
<1>. HIDE DEF t, D, E, f, g
<1>8. \A r \in E : g[r] \in Int
  BY <1>3, <1>4, <1>5, <1>7
<1>9. SumFunctionOnSet(g, E) = SumFunctionOnSet(g, D)
  <2>1. D \in SUBSET E /\ \A r \in E \ D : g[r] = 0
    BY <1>4, <1>7
  <2>. QED
    BY <1>2, <1>8, <2>1, SumSupport
<1>10. SumFunctionOnSet(g, D) = SumFunctionOnSet(f, D)
  <2>1. SumFunctionOnSet(g, D) <= SumFunctionOnSet(f, D)
    BY <1>2, <1>3, <1>5, SumMonotone
  <2>2. SumFunctionOnSet(f, D) <= SumFunctionOnSet(g, D)
    BY <1>2, <1>3, <1>5, SumMonotone
  <2>3. SumFunctionOnSet(f, D) \in Int
    BY <1>2, <1>3, SumFacts
  <2>4. SumFunctionOnSet(g, D) \in Int
    BY <1>2, <1>3, <1>5, SumFacts
  <2>. QED
    BY <2>1, <2>2, <2>3, <2>4
<1>. QED
  BY <1>6, <1>9, <1>10 DEF t

LEMMA PlanCreates ==
  ASSUME TypeInductive, GrowthInductive, PlanInductive, Reallocates,
         CreateNew \/ FindCreated \/ CreateFails
  PROVE  PlanInductive'
<1>. DEFINE s == rec.rs
            n == rec.replicas
<1>1. pc = "create" /\ Goes /\ (Finds \/ \E q : Creates(q))
  BY Creating
<1>2. /\ IsList(s) /\ n \in Nat /\ idx \in 0 .. Len(Steps) - 1
      /\ New \notin DOMAIN s /\ IsList(cache.rs)
  BY <1>1, TypedFacts
<1>3. idx' = idx /\ rec'.replicas = n /\ rec'.missed = rec.missed /\ rec'.surplus = rec.surplus
  BY <1>1 DEF Goes
<1>4. Surplus(s) = rec.surplus
  BY <1>1, PlanIs
<1>5. CASE GivesUp
  <2>1. pc' = "new"
    BY <1>5 DEF GivesUp
  <2>. QED
    BY <2>1, PlanIsNext
<1>6. ASSUME NEW q \in SetType, GoesOnWith(q), ~rec.missed => q.ready = 0
      PROVE  PlanInductive'
  <2>. DEFINE t == WithNew(s, q)
              stage == UpgradeStage(t, n, idx)
  <2>1. rec'.rs = t /\ rec'.todo = stage.todo /\ pc' = stage.pc /\ pc' \in {"new", "up", "down"}
    BY <1>6 DEF GoesOnWith
  <2>. HIDE DEF s, n
  <2>2. IsList(t) /\ New \in DOMAIN t
    <3>1. IsList(t) /\ DOMAIN t = DOMAIN s \cup {New}
      BY <1>2, WithNewType
    <3>. HIDE DEF t
    <3>. QED BY <3>1
  <2>3. ~rec.missed => rec.surplus = Surplus(t)
    BY <1>2, <1>4, <1>6, SurplusWithNew
  <2>. HIDE DEF t
  <2>4. stage.pc = "down" => Planned(t, stage.todo, n, idx, rec.missed, rec.surplus)
    BY <1>2, <2>2, <2>3, StagePlanned
  <2>. HIDE DEF stage
  <2>. QED
    BY <1>3, <2>1, <2>4, PlanIsNext
<1>7. CASE Finds
  <2>1. CASE New \in DOMAIN rs /\ New \in DOMAIN cache.rs /\ GoesOnWith(cache.rs[New])
    <3>1. cache.rs[New] \in SetType
      BY <1>2, <2>1 DEF IsList
    <3>2. rec.missed
      <4>1. pc = "create" /\ ~rec.missed => DOMAIN rec.rs = DOMAIN rs
        BY DEF GrowthInductive, Listed
      <4>. QED
        BY <1>1, <1>2, <2>1, <4>1
    <3>. QED
      BY <1>6, <2>1, <3>1, <3>2
  <2>. QED
    BY <1>5, <1>7, <2>1 DEF Finds
<1>8. ASSUME NEW q, Creates(q)
      PROVE  PlanInductive'
  <2>1. q \in SetType /\ q.ready = 0 /\ (GoesOnWith(q) \/ GivesUp)
    BY <1>8 DEF Creates, IsFresh
  <2>. QED
    BY <1>5, <1>6, <2>1
<1>. QED
  BY <1>1, <1>7, <1>8

LEMMA PlanPatches ==
  ASSUME TypeInductive, PlanInductive, PatchNext
  PROVE  PlanInductive'
<1>. DEFINE s == rec.rs
            todo == rec.todo
            n == rec.replicas
            t == Patched(s, Head(todo), n)
            x == rec.surplus
            m == Len(todo)
<1>1. /\ todo # <<>> /\ Head(todo).size \in Nat /\ rec'.rs = t
      /\ rec'.todo = Tail(todo) /\ rec'.replicas = n /\ pc' = pc /\ idx' = idx
      /\ rec'.missed = rec.missed /\ rec'.surplus = x
  BY Patches DEF Goes
<1>2. pc # "create"
  BY <1>1, TypedFacts
<1>3. CASE pc = "down"
  <2>1. Planned(s, todo, n, idx, rec.missed, x)
    BY <1>3, PlanIs
  <2>2. IsList(s) /\ New \in DOMAIN s /\ n \in Nat /\ idx \in 0 .. Len(Steps) - 1
    BY <1>3, TypedFacts
  <2>2a. x \in Nat
    BY TypeParts DEF LocalsTyped
  <2>. HIDE DEF s, todo, n, x
  <2>3. OnlyOlds(s, todo) /\ Shrinks(s, todo)
    BY <2>1 DEF Planned
  <2>4. todo \in Seq(Range(todo))
    BY <2>3 DEF OnlyOlds
  <2>5. Rows(todo, m) /\ m \in Nat
    BY <2>4, ListHasRows
  <2>6. m > 0 /\ todo[1].size \in Nat
    BY <1>1, <2>4
  <2>. HIDE DEF m
  <2>7. /\ OnlyOlds(t, Tail(todo)) /\ Shrinks(t, Tail(todo))
        /\ LeavesOlds(s, todo, n, idx) => LeavesOlds(t, Tail(todo), n, idx)
        /\ LeavesAvailable(s, todo, n, x) => LeavesAvailable(t, Tail(todo), n, x)
    BY <2>2, <2>2a, <2>3, <2>5, <2>6, PatchKeepsPlan
  <2>. HIDE DEF t
  <2>8. Planned(t, Tail(todo), n, idx, rec.missed, x)
    BY <2>1, <2>7 DEF Planned
  <2>. QED
    BY <1>1, <1>2, <2>8, PlanIsNext
<1>4. CASE pc # "down"
  BY <1>1, <1>2, <1>4, PlanIsNext
<1>. QED
  BY <1>3, <1>4

(* Giving up leaves everything as it is.                                   *)
LEMMA PlanFails ==
  ASSUME TypeInductive, PlanInductive, PatchFails
  PROVE  PlanInductive'
<1>. DEFINE s == rec.rs
            todo == rec.todo
            n == rec.replicas
            d == Done(s, todo)
            e == Done(s, <<>>)
<1>1. /\ todo # <<>> /\ rec'.rs = s /\ rec'.todo = <<>>
      /\ rec'.replicas = n /\ pc' = pc /\ idx' = idx
      /\ rec'.missed = rec.missed /\ rec'.surplus = rec.surplus
  BY Fails DEF Goes
<1>2. pc # "create"
  BY <1>1, TypedFacts
<1>3. CASE pc = "down"
  <2>1. Planned(s, todo, n, idx, rec.missed, rec.surplus)
    BY <1>3, PlanIs
  <2>2. IsList(s) /\ New \in DOMAIN s /\ n \in Nat /\ idx \in 0 .. Len(Steps) - 1
    BY <1>3, TypedFacts
  <2>. HIDE DEF s, todo, n
  <2>3. Range(<<>>) = {} /\ Pending(<<>>) = {}
    BY DEF Range, Pending
  <2>4. OnlyOlds(s, <<>>) /\ Shrinks(s, <<>>)
    BY <2>3 DEF OnlyOlds, Shrinks
  <2>5. /\ IsList(d) /\ DOMAIN d = DOMAIN s
        /\ \A r \in DOMAIN s : /\ \A k \in Sizes(s, todo, r) : d[r].size <= k
                               /\ d[r].ready = s[r].ready
    BY <2>2, DoneSizes
  <2>6. /\ IsList(e) /\ DOMAIN e = DOMAIN s
        /\ \A r \in DOMAIN s : /\ e[r].size \in Sizes(s, <<>>, r)
                               /\ e[r].ready = s[r].ready
    BY <2>2, DoneSizes
  <2>7. \A r \in DOMAIN s : Sizes(s, <<>>, r) \subseteq Sizes(s, todo, r)
    BY <2>3 DEF Sizes
  <2>. HIDE DEF d, e
  <2>8. \A r \in DOMAIN d : d[r].size <= e[r].size /\ d[r].ready = e[r].ready
    BY <2>5, <2>6, <2>7
  <2>9. Total(d, Olds) <= Total(e, Olds)
    BY <2>5, <2>6, <2>8, TotalsCompare
  <2>10. Total(d, Olds) \in Nat /\ Total(e, Olds) \in Nat
    BY <2>5, <2>6, SumsType
  <2>11. LeavesOlds(s, <<>>, n, idx)
    <3>. DEFINE share == n - Greater(Limit(idx, n), s[New].size)
    <3>1. share \in Int
      <4>1. Limit(idx, n) \in Int
        BY <2>2, LimitType
      <4>2. s[New].size \in Int
        BY <2>2, ListTyped
      <4>. QED
        BY <2>2, <4>1, <4>2 DEF Greater
    <3>2. Total(d, Olds) >= share
      BY <2>1 DEF Planned, LeavesOlds, d
    <3>. HIDE DEF share
    <3>3. Total(e, Olds) >= share
      BY <2>9, <2>10, <3>1, <3>2
    <3>. QED
      BY <3>3 DEF LeavesOlds, e, share
  <2>12. LeavesAvailable(s, <<>>, n, rec.surplus)
    BY <2>3 DEF LeavesAvailable
  <2>13. Planned(s, <<>>, n, idx, rec.missed, rec.surplus)
    BY <2>4, <2>11, <2>12 DEF Planned
  <2>. QED
    BY <1>1, <1>2, <2>13, PlanIsNext
<1>4. CASE pc # "down"
  BY <1>1, <1>2, <1>4, PlanIsNext
<1>. QED
  BY <1>3, <1>4

LEMMA PlanReconcile ==
  ASSUME TypeInductive, GrowthInductive, PlanInductive, Reallocates, Reconcile
  PROVE  PlanInductive'
<1>1. CASE EndSync \/ EndUpgrade \/ EndStep
  <2>1. pc' = "idle"
    BY <1>1, Ends
  <2>. QED
    BY <2>1, PlanIsNext
<1>. QED
  BY <1>1, PlanStarts, PlanCreates, PlanPatches, PlanFails, ReconcileIs

LEMMA PlanCluster ==
  ASSUME PlanInductive, Cluster \/ UNCHANGED vars
  PROVE  PlanInductive'
<1>1. pc' = pc /\ rec' = rec
  BY ClusterKeepsRec
<1>2. idx' = idx
  <2>1. CASE UserContinues
    BY <2>1 DEF UserContinues
  <2>2. CASE ~UserContinues
    BY <2>2, ClusterKeepsRelease DEF release
  <2>. QED
    BY <2>1, <2>2
<1>. QED
  BY <1>1, <1>2, PlanIs, PlanIsNext

LEMMA PlanNext ==
  Reallocates /\ TypeInductive /\ GrowthInductive /\ PlanInductive /\ [Next]_vars
    => PlanInductive'
BY PlanReconcile, PlanCluster, NextIs

(***************************************************************************)
(* What may have happened since a reconcile listed                         *)
(***************************************************************************)
(* The ready pods a ReplicaSet keeps.                                      *)
KeptOf(q) == Lesser(q.size, q.ready)

(* One ReplicaSet of a list changes.                                       *)
Changes(t, s, r) ==
  /\ IsList(t) /\ DOMAIN t = DOMAIN s
  /\ \A x \in DOMAIN s \ {r} : t[x] = s[x]

LEMMA KeptChange ==
  ASSUME NEW s, IsList(s), NEW r \in DOMAIN s, NEW t, Changes(t, s, r)
  PROVE  Kept(t) - KeptOf(t[r]) = Kept(s) - KeptOf(s[r])
<1>. DEFINE f == [x \in DOMAIN s |-> KeptOf(s[x])]
            g == [x \in DOMAIN s |-> KeptOf(t[x])]
            S == DOMAIN s
            T == S \ {r}
<1>1. IsFiniteSet(S) /\ IsFiniteSet(T)
  BY ListTyped
<1>2. \A x \in S : f[x] \in Int /\ g[x] \in Int
  BY ListTyped DEF Changes, KeptOf
<1>3. Kept(s) = SumFunctionOnSet(f, S) /\ Kept(t) = SumFunctionOnSet(g, S)
  BY DEF Kept, SumFunction, KeptOf, Changes
<1>4. f[r] = KeptOf(s[r]) /\ g[r] = KeptOf(t[r])
  OBVIOUS
<1>5. \A x \in T : f[x] = g[x]
  BY DEF Changes
<1>6. r \in S
  OBVIOUS
<1>. HIDE DEF f, g, S
<1>7. /\ SumFunctionOnSet(f, S) = f[r] + SumFunctionOnSet(f, T)
      /\ SumFunctionOnSet(g, S) = g[r] + SumFunctionOnSet(g, T)
  BY <1>1, <1>2, <1>6, SumSplit
<1>8. /\ SumFunctionOnSet(f, T) <= SumFunctionOnSet(g, T)
      /\ SumFunctionOnSet(g, T) <= SumFunctionOnSet(f, T)
  <2>1. \A x \in T : /\ f[x] \in Int /\ g[x] \in Int
                     /\ f[x] <= g[x] /\ g[x] <= f[x]
    BY <1>2, <1>5
  <2>. HIDE DEF T
  <2>. QED
    BY <1>1, <2>1, SumMonotone
<1>9. /\ SumFunctionOnSet(f, T) \in Int /\ SumFunctionOnSet(g, T) \in Int
      /\ f[r] \in Int /\ g[r] \in Int
  BY <1>1, <1>2, <1>6, SumFacts
<1>. HIDE DEF T
<1>. QED
  BY <1>3, <1>4, <1>7, <1>8, <1>9

(* A ReplicaSet without ready pods keeps none.                             *)
LEMMA KeptWithNew ==
  ASSUME NEW s, IsList(s), New \notin DOMAIN s, NEW q \in SetType, q.ready = 0
  PROVE  Kept(WithNew(s, q)) = Kept(s)
<1>. DEFINE t == WithNew(s, q)
            f == [x \in DOMAIN s |-> KeptOf(s[x])]
            g == [x \in DOMAIN t |-> KeptOf(t[x])]
            S == DOMAIN s
            T == DOMAIN t
<1>1. /\ IsList(t) /\ T = S \cup {New}
      /\ \A r \in S \cup {New} : t[r] = IF r \in S THEN s[r] ELSE q
  BY WithNewType
<1>2. KeptOf(q) = 0
  BY DEF KeptOf, Lesser, SetType
<1>3. Kept(s) = SumFunctionOnSet(f, S) /\ Kept(t) = SumFunctionOnSet(g, T)
  BY DEF Kept, SumFunction, KeptOf
<1>4. /\ \A x \in S : f[x] = KeptOf(s[x]) /\ f[x] \in Int
      /\ \A x \in T : g[x] = KeptOf(t[x]) /\ g[x] \in Int
  <2>. HIDE DEF t
  <2>. QED BY <1>1, ListTyped DEF KeptOf
<1>5. IsFiniteSet(S) /\ IsFiniteSet(T)
  <2>. HIDE DEF t
  <2>. QED BY <1>1, ListTyped
<1>. HIDE DEF t, f, g, T
<1>6. \A x \in T \ S : g[x] = 0
  BY <1>1, <1>2, <1>4
<1>7. S \in SUBSET T
  BY <1>1
<1>8. \A x \in S : f[x] = g[x]
  BY <1>1, <1>4
<1>. HIDE DEF S
<1>9. SumFunctionOnSet(g, T) = SumFunctionOnSet(g, S)
  BY <1>4, <1>5, <1>6, <1>7, SumSupport
<1>10. /\ SumFunctionOnSet(f, S) <= SumFunctionOnSet(g, S)
       /\ SumFunctionOnSet(g, S) <= SumFunctionOnSet(f, S)
  <2>1. \A x \in S : /\ f[x] \in Int /\ g[x] \in Int
                     /\ f[x] <= g[x] /\ g[x] <= f[x]
    BY <1>4, <1>7, <1>8
  <2>. QED
    BY <1>5, <2>1, SumMonotone
<1>11. SumFunctionOnSet(f, S) \in Int /\ SumFunctionOnSet(g, S) \in Int
  BY <1>4, <1>5, <1>7, SumFacts
<1>12. Kept(t) = Kept(s)
  BY <1>3, <1>9, <1>10, <1>11
<1>. QED
  BY <1>12 DEF t

LEMMA SinceIs ==
  SinceInductive <=>
    /\ replicas > 0 /\ (pc # "idle" => rec.replicas > 0)
    /\ ~cache.missed => CopiedSince(rs, cache.rs, failures - cache.failures)
    /\ pc = "create" /\ ~rec.missed => CreatesSince(rs, rec.rs, lost)
    /\ pc = "down" /\ ~rec.missed => PatchesSince(rs, rec.rs, rec.todo, rec.replicas, lost)
BY DEF SinceInductive

LEMMA SinceIsNext ==
  SinceInductive' <=>
    /\ replicas' > 0 /\ (pc' # "idle" => rec'.replicas > 0)
    /\ ~cache'.missed => CopiedSince(rs', cache'.rs, failures' - cache'.failures)
    /\ pc' = "create" /\ ~rec'.missed => CreatesSince(rs', rec'.rs, lost')
    /\ pc' = "down" /\ ~rec'.missed =>
         PatchesSince(rs', rec'.rs, rec'.todo, rec'.replicas, lost')
BY DEF SinceInductive

(* Nothing has happened to what has just been copied.                      *)
LEMMA CopiedSelf ==
  ASSUME NEW s, IsList(s)
  PROVE  CopiedSince(s, s, 0)
<1>1. Kept(s) \in Nat
  BY KeptType
<1>2. KeptSince(s, s, 0) /\ Unresized(s, s, Sets)
  BY <1>1 DEF KeptSince, Unresized
<1>. QED
  BY <1>2 DEF CopiedSince, Undisturbed

LEMMA UpToDate ==
  ASSUME IsList(rs'), failures' \in Nat, cache' = Copied(rs', failures')
  PROVE  ~cache'.missed => CopiedSince(rs', cache'.rs, failures' - cache'.failures)
<1>. DEFINE k == failures'
<1>1. cache'.rs = rs' /\ cache'.failures = k /\ k \in Nat
  BY DEF Copied
<1>2. \A x \in Nat : x - x = 0
  OBVIOUS
<1>. HIDE DEF k
<1>3. k - cache'.failures = 0
  BY <1>1, <1>2
<1>. QED
  BY <1>1, <1>3, CopiedSelf DEF k

LEMMA MissableSince ==
  ASSUME IsList(rs'), failures' \in Nat, Missable
  PROVE  ~cache'.missed => CopiedSince(rs', cache'.rs, failures' - cache'.failures)
BY UpToDate DEF Missable

LEMMA SinceInit == ASSUME Inhabited, Init PROVE SinceInductive
<1>1. pc = "idle" /\ replicas \in Replicas
  BY Zenon DEF Init
<1>2. IsList(rs) /\ failures = 0 /\ cache = Copied(rs, 0)
  BY TypeInit, TypedFacts DEF Init
<1>3. cache.rs = rs /\ failures - cache.failures = 0
  BY <1>2 DEF Copied
<1>4. CopiedSince(rs, cache.rs, failures - cache.failures)
  BY <1>2, <1>3, CopiedSelf
<1>5. replicas > 0
  BY <1>1, SizeAssumption DEF Inhabited
<1>. QED
  BY <1>1, <1>4, <1>5, SinceIs

(* A pending patch is of an old ReplicaSet that has more than it asks for. *)
LEMMA PendingShrinks ==
  ASSUME NEW s, IsList(s), NEW todo, OnlyOlds(s, todo), Shrinks(s, todo)
  PROVE  \A p \in Pending(todo) : /\ p.rs \in Olds /\ p.rs \in DOMAIN s /\ p.rs # New
                                  /\ p.size \in Nat
                                  /\ s[p.rs].size > p.size /\ s[p.rs].size > 0
<1>. TAKE p \in Pending(todo)
<1>1. PICK j \in DOMAIN todo : p = todo[j]
  BY DEF Pending, Range
<1>2. p.size \in Nat
  BY DEF Pending
<1>3. p.rs \in Olds /\ p.rs \in DOMAIN s
  BY DEF Pending, OnlyOlds
<1>4. p.size < s[p.rs].size
  BY <1>1, <1>2 DEF Shrinks
<1>5. s[p.rs].size \in Nat
  BY <1>3, ListTyped
<1>. QED
  BY <1>2, <1>3, <1>4, <1>5, SetsAssumption

(* What has happened to the informer's copy since it was made is what has  *)
(* happened to a list that is made of it.                                  *)
LEMMA CreatesFromCopy ==
  ASSUME NEW s, NEW l, DOMAIN s = DOMAIN l, New \notin DOMAIN l, NEW k, CopiedSince(s, l, k)
  PROVE  CreatesSince(s, l, k)
BY DEF CopiedSince, Undisturbed, Filled, NewAlone, CreatesSince

LEMMA PatchesFromCopy ==
  ASSUME NEW s, IsList(s), NEW l, IsList(l), DOMAIN s = DOMAIN l, New \in DOMAIN l,
         NEW n \in Nat, ~IsScalingEvent(l, n), NEW k \in Nat, CopiedSince(s, l, k),
         NEW todo, OnlyOlds(l, todo), Shrinks(l, todo)
  PROVE  PatchesSince(s, l, todo, n, k)
<1>1. \A p \in Pending(todo) : p.rs \in DOMAIN s /\ p.rs # New /\ l[p.rs].size > 0
  BY PendingShrinks
<1>2. \A r \in DOMAIN l : l[r].size > 0 => l[r].desired = n
  BY ListTyped DEF IsScalingEvent, Active
<1>3. \A r \in DOMAIN s : r \in Sets /\ s[r].size \in Nat /\ l[r].size \in Nat /\ l[r].ready \in Nat
  BY ListTyped
<1>4. CASE Undisturbed(s, l, k)
  <2>1. \A r \in DOMAIN s : s[r].size = l[r].size
    BY <1>3, <1>4 DEF Undisturbed, Unresized
  <2>2. \A S : Unresized(s, l, S)
    BY <2>1 DEF Unresized
  <2>3. s[New].size > 0 => s[New].desired = n
    BY <1>2, <1>4, <2>1 DEF Undisturbed
  <2>4. \A p \in Pending(todo) : s[p.rs].size > 0
    BY <1>1, <2>1
  <2>5. KeptSince(s, l, k)
    BY <1>4 DEF Undisturbed
  <2>. QED
    BY <2>2, <2>3, <2>4, <2>5 DEF OthersUnresized, PatchesSince
<1>5. ASSUME NEW r \in DOMAIN s, Single(s, l, r) PROVE PatchesSince(s, l, todo, n, k)
  <2>1. s[r].size > 0 /\ \A q \in DOMAIN s \ {r} : s[q].size = 0 /\ l[q].size = 0
    BY <1>5 DEF Single
  <2>2. CASE r = New
    <3>1. Alone(s, todo)
      BY <1>1, <2>1, <2>2 DEF Alone
    <3>. QED
      BY <3>1 DEF PatchesSince
  <2>3. CASE r # New
    <3>1. s[New].size = 0
      BY <2>1, <2>3
    <3>2. \A p \in Pending(todo) : p.rs = r
      <4>. TAKE p \in Pending(todo)
      <4>1. p.rs \in DOMAIN s /\ l[p.rs].size > 0
        BY <1>1
      <4>. QED
        BY <2>1, <4>1
    <3>3. Unresized(s, l, Sets \ {r})
      BY <2>1 DEF Unresized
    <3>4. NoneKept(l, Sets \ {r})
      <4>1. \A x \in DOMAIN l \ {r} : Lesser(l[x].size, l[x].ready) = 0
        BY <1>3, <2>1 DEF Lesser
      <4>. QED
        BY <4>1 DEF NoneKept
    <3>5. ~(s[New].size > 0)
      BY <3>1
    <3>6. \A p \in Pending(todo) : /\ s[p.rs].size > 0 /\ Unresized(s, l, Sets \ {p.rs})
                                   /\ NoneKept(l, Sets \ {p.rs})
      BY <2>1, <3>2, <3>3, <3>4
    <3>7. OthersUnresized(s, l, todo, n, k)
      BY <3>5, <3>6 DEF OthersUnresized
    <3>. QED
      BY <3>7 DEF PatchesSince
  <2>. QED
    BY <2>2, <2>3
<1>6. CASE Filled(s, l, k)
  <2>1. l[New].desired = n
    BY <1>2, <1>6 DEF Filled
  <2>2. Saturated(s, n, k)
    BY <1>6, <2>1 DEF Filled
  <2>. QED
    BY <2>2 DEF PatchesSince
<1>7. CASE NewAlone(s)
  <2>1. Alone(s, todo)
    BY <1>1, <1>7 DEF NewAlone, Alone
  <2>. QED
    BY <2>1 DEF PatchesSince
<1>. QED
  BY <1>4, <1>5, <1>6, <1>7 DEF CopiedSince

LEMMA SinceStarts ==
  ASSUME TypeInductive, GrowthInductive, PlanInductive', SinceInductive,
         StartSync \/ StartUpgrade \/ StartStep
  PROVE  SinceInductive'
<1>. DEFINE l == cache.rs
            k == failures - cache.failures
            todo == rec'.todo
<1>1. /\ rs' = rs /\ cache' = cache /\ failures' = failures /\ replicas' = replicas /\ lost' = k
      /\ rec'.rs = l /\ rec'.replicas = replicas /\ rec'.missed = cache.missed
      /\ pc' = "create" => New \notin DOMAIN l
      /\ pc' = "down" => New \in DOMAIN l /\ ~IsScalingEvent(l, replicas)
  BY Starts
<1>2. IsList(rs) /\ IsList(l) /\ replicas \in Nat /\ k \in Nat
  BY TypedFacts DEF IsCopy
<1>3. replicas > 0 /\ (~cache.missed => CopiedSince(rs, l, k))
  BY SinceIs
<1>4. ~cache.missed => DOMAIN rs = DOMAIN l
  BY DEF GrowthInductive, Listed
<1>5. pc' = "down" => OnlyOlds(l, todo) /\ Shrinks(l, todo)
  BY <1>1, PlanIsNext DEF Planned
<1>. HIDE DEF l, k, todo
<1>6. ASSUME ~cache.missed, pc' = "create" PROVE CreatesSince(rs, l, k)
  BY <1>1, <1>3, <1>4, <1>6, CreatesFromCopy
<1>7. ASSUME ~cache.missed, pc' = "down" PROVE PatchesSince(rs, l, todo, replicas, k)
  BY <1>1, <1>2, <1>3, <1>4, <1>5, <1>7, PatchesFromCopy
<1>8. cache'.rs = l /\ failures' - cache'.failures = k /\ rec'.todo = todo
  BY <1>1 DEF l, k, todo
<1>. QED
  BY <1>1, <1>3, <1>6, <1>7, <1>8, SinceIsNext

(* The new ReplicaSet is created on the API server and listed at once.     *)
LEMMA BothHaveNew ==
  ASSUME NEW s, IsList(s), NEW l, IsList(l), DOMAIN s = DOMAIN l, New \notin DOMAIN l,
         NEW n \in Nat, NEW q \in SetType, q.ready = 0, q.desired = n,
         NEW k \in Nat, NEW todo,
         CreatesSince(s, l, k), OnlyOlds(WithNew(l, q), todo), Shrinks(WithNew(l, q), todo)
  PROVE  OthersUnresized(WithNew(s, q), WithNew(l, q), todo, n, k)
<1>. DEFINE t == WithNew(s, q)
            u == WithNew(l, q)
            S == DOMAIN s
<1>1. /\ IsList(t) /\ DOMAIN t = S \cup {New}
      /\ \A r \in S \cup {New} : t[r] = IF r \in S THEN s[r] ELSE q
  BY WithNewType
<1>2. /\ IsList(u) /\ DOMAIN u = S \cup {New}
      /\ \A r \in S \cup {New} : u[r] = IF r \in S THEN l[r] ELSE q
  BY WithNewType
<1>3. Kept(t) = Kept(s) /\ Kept(u) = Kept(l)
  BY KeptWithNew
<1>4. KeptOf(q) = 0
  BY DEF KeptOf, Lesser, SetType
<1>. HIDE DEF t, u
<1>5. \A p \in Pending(todo) : /\ p.rs \in S /\ p.rs # New /\ u[p.rs].size > 0
                               /\ l[p.rs].size > 0 /\ t[p.rs] = s[p.rs]
  <2>1. \A p \in Pending(todo) : p.rs \in DOMAIN u /\ p.rs # New /\ u[p.rs].size > 0
    BY <1>2, PendingShrinks DEF u
  <2>. QED
    BY <1>1, <1>2, <2>1
<1>6. t[New] = q
  BY <1>1
<1>7. CASE KeptSince(s, l, k) /\ Unresized(s, l, Sets)
  <2>1. S \subseteq Sets
    BY DEF IsList
  <2>2. \A r \in S : s[r].size = l[r].size
    BY <1>7, <2>1 DEF Unresized
  <2>3. \A r \in DOMAIN t : t[r].size = u[r].size
    BY <1>1, <1>2, <2>2
  <2>4. \A T : Unresized(t, u, T)
    BY <2>3 DEF Unresized
  <2>5. \A p \in Pending(todo) : t[p.rs].size > 0
    BY <1>5, <2>2
  <2>6. KeptSince(t, u, k)
    BY <1>3, <1>7 DEF KeptSince
  <2>7. OthersUnresized(t, u, todo, n, k)
    BY <1>6, <2>4, <2>5, <2>6 DEF OthersUnresized
  <2>. QED
    BY <2>7 DEF t, u
<1>8. ASSUME NEW r \in S, Single(s, l, r) PROVE OthersUnresized(t, u, todo, n, k)
  <2>1. s[r].size > 0 /\ \A x \in S \ {r} : s[x].size = 0 /\ l[x].size = 0
    BY <1>8 DEF Single
  <2>2. \A p \in Pending(todo) : p.rs = r
    <3>. TAKE p \in Pending(todo)
    <3>1. p.rs \in S /\ l[p.rs].size > 0
      BY <1>5
    <3>. QED
      BY <2>1, <3>1
  <2>3. \A x \in DOMAIN t \ {r} : t[x].size = u[x].size /\ KeptOf(u[x]) = 0
    <3>. TAKE x \in DOMAIN t \ {r}
    <3>1. CASE x \in S
      <4>1. t[x].size = 0 /\ u[x].size = 0
        BY <1>1, <1>2, <2>1, <3>1
      <4>2. u[x].ready \in Nat
        BY <1>1, <1>2, ListTyped
      <4>. QED
        BY <4>1, <4>2 DEF KeptOf, Lesser
    <3>2. CASE x \notin S
      BY <1>1, <1>2, <1>4, <3>2
    <3>. QED
      BY <3>1, <3>2
  <2>4. Unresized(t, u, Sets \ {r}) /\ NoneKept(u, Sets \ {r})
    BY <1>1, <1>2, <2>3 DEF Unresized, NoneKept, KeptOf
  <2>5. \A p \in Pending(todo) : t[p.rs].size > 0
    BY <1>5, <2>1, <2>2
  <2>. QED
    BY <1>6, <2>2, <2>4, <2>5 DEF OthersUnresized
<1>. QED
  BY <1>7, <1>8 DEF CreatesSince, t, u

LEMMA SinceCreates ==
  ASSUME TypeInductive, GrowthInductive, PlanInductive', SinceInductive,
         CreateNew \/ FindCreated \/ CreateFails
  PROVE  SinceInductive'
<1>. DEFINE l == rec.rs
            n == rec.replicas
            todo == rec'.todo
<1>1. pc = "create" /\ Goes /\ (Finds \/ \E q : Creates(q))
  BY Creating
<1>2. /\ IsList(rs) /\ IsList(l) /\ n \in Nat /\ lost \in Nat /\ failures \in Nat
      /\ New \notin DOMAIN l
  BY <1>1, TypedFacts
<1>3. /\ rec'.replicas = n /\ rec'.missed = rec.missed
      /\ replicas' = replicas /\ lost' = lost /\ failures' = failures
  BY <1>1 DEF Goes
<1>4. /\ replicas > 0 /\ n > 0
      /\ ~cache.missed => CopiedSince(rs, cache.rs, failures - cache.failures)
      /\ ~rec.missed => CreatesSince(rs, l, lost)
  BY <1>1, SinceIs
<1>5. ~rec.missed => DOMAIN l = DOMAIN rs
  BY <1>1 DEF GrowthInductive, Listed
<1>6. /\ GivesUp => pc' = "new"
      /\ \A q : GoesOnWith(q) => pc' # "create"
  BY DEF GivesUp, GoesOnWith
<1>7. CASE Finds
  <2>1. rs' = rs /\ cache' = cache /\ (GivesUp \/ (New \in DOMAIN rs /\ GoesOnWith(cache.rs[New])))
    BY <1>7 DEF Finds
  <2>2. pc' = "new" \/ (pc' # "create" /\ rec.missed)
    BY <1>2, <1>5, <1>6, <2>1
  <2>. QED
    BY <1>3, <1>4, <2>1, <2>2, SinceIsNext
<1>8. ASSUME NEW q, Creates(q)
      PROVE  SinceInductive'
  <2>. DEFINE t == WithNew(rs, q)
              u == WithNew(l, q)
  <2>1. /\ q \in SetType /\ q.ready = 0 /\ q.desired = n /\ rs' = t /\ Missable
        /\ GoesOnWith(q) \/ GivesUp
    BY <1>8 DEF Creates, IsFresh
  <2>2. GoesOnWith(q) => rec'.rs = u
    BY DEF GoesOnWith
  <2>3. pc' = "down" => GoesOnWith(q) /\ OnlyOlds(u, todo) /\ Shrinks(u, todo)
    BY <1>6, <2>1, <2>2, PlanIsNext DEF Planned
  <2>. HIDE DEF l, n, todo
  <2>4. ~rec.missed /\ pc' = "down" => OthersUnresized(t, u, todo, n, lost)
    BY <1>2, <1>4, <1>5, <2>1, <2>3, BothHaveNew
  <2>5. ~rec.missed /\ pc' = "down" => PatchesSince(t, u, todo, n, lost)
    BY <2>4 DEF PatchesSince
  <2>6. IsList(t)
    BY <1>2, <2>1, WithNewType
  <2>. HIDE DEF t, u
  <2>7. ~cache'.missed => CopiedSince(rs', cache'.rs, failures' - cache'.failures)
    BY <1>2, <1>3, <2>1, <2>6, MissableSince
  <2>8. rec'.todo = todo
    BY DEF todo
  <2>9. pc' # "create"
    BY <1>6, <2>1
  <2>. QED
    BY <1>3, <1>4, <2>1, <2>2, <2>3, <2>5, <2>7, <2>8, <2>9, SinceIsNext
<1>. QED
  BY <1>1, <1>7, <1>8

(* A patch does to what is there what it does to the list.                 *)
LEMMA PatchKeepsKept ==
  ASSUME NEW s, IsList(s), NEW l, IsList(l), DOMAIN s = DOMAIN l,
         NEW r \in DOMAIN s, s[r] = l[r], NEW t, NEW u, Changes(t, s, r), Changes(u, l, r),
         t[r] = u[r], NEW k \in Nat, KeptSince(s, l, k)
  PROVE  KeptSince(t, u, k)
<1>1. /\ Kept(t) - KeptOf(t[r]) = Kept(s) - KeptOf(s[r])
      /\ Kept(u) - KeptOf(u[r]) = Kept(l) - KeptOf(l[r])
  BY KeptChange
<1>2. IsList(t) /\ IsList(u) /\ DOMAIN t = DOMAIN s /\ DOMAIN u = DOMAIN l
  BY DEF Changes
<1>3. Kept(t) \in Nat /\ Kept(s) \in Nat /\ Kept(u) \in Nat /\ Kept(l) \in Nat
  BY <1>2, KeptType
<1>4. KeptOf(t[r]) \in Nat /\ KeptOf(s[r]) \in Nat
  BY <1>2, ListTyped DEF KeptOf
<1>. QED
  BY <1>1, <1>3, <1>4 DEF KeptSince

LEMMA PatchedChanges ==
  ASSUME NEW s, IsList(s), NEW p, p.size \in Nat, NEW n \in Nat, p.rs \in DOMAIN s
  PROVE  /\ Changes(Patched(s, p, n), s, p.rs)
         /\ Patched(s, p, n)[p.rs] = Resized(s[p.rs], p.size, n)
<1>. DEFINE t == Patched(s, p, n)
<1>1. /\ IsList(t) /\ DOMAIN t = DOMAIN s
      /\ \A r \in DOMAIN s : r # p.rs => t[r] = s[r]
  BY PatchedType
<1>2. t[p.rs] = Resized(s[p.rs], p.size, n)
  BY DEF Patched
<1>. HIDE DEF t
<1>3. Changes(t, s, p.rs)
  BY <1>1 DEF Changes
<1>. QED
  BY <1>2, <1>3 DEF t

(* The old ReplicaSet p.rs is patched in both lists, from what l has.      *)
LEMMA PatchesOthers ==
  ASSUME NEW s, IsList(s), NEW l, IsList(l), DOMAIN s = DOMAIN l, New \in DOMAIN l,
         NEW n \in Nat, NEW k \in Nat, NEW todo, NEW rest, NEW p \in Pending(todo),
         \A q \in Pending(rest) : q \in Pending(todo),
         OnlyOlds(l, todo), Shrinks(l, todo),
         OnlyOlds(Patched(l, p, n), rest), Shrinks(Patched(l, p, n), rest),
         s[p.rs] = l[p.rs], OthersUnresized(s, l, todo, n, k)
  PROVE  OthersUnresized(Patched(s, p, n), Patched(l, p, n), rest, n, k)
<1>. DEFINE t == Patched(s, p, n)
            u == Patched(l, p, n)
<1>1. p.rs \in DOMAIN l /\ p.rs # New /\ p.size \in Nat /\ l[p.rs].size > p.size
  BY PendingShrinks
<1>2. Changes(t, s, p.rs) /\ Changes(u, l, p.rs) /\ t[p.rs] = u[p.rs]
  BY <1>1, PatchedChanges
<1>3. u[p.rs].ready = l[p.rs].ready /\ u[p.rs].size = p.size
  <2>1. ResizesOne(u, l, p)
    BY <1>1, PatchedResizes
  <2>. HIDE DEF u
  <2>. QED BY <1>1, <2>1 DEF ResizesOne
<1>. HIDE DEF t, u
<1>4. /\ IsList(t) /\ DOMAIN t = DOMAIN s /\ \A x \in DOMAIN s \ {p.rs} : t[x] = s[x]
      /\ IsList(u) /\ DOMAIN u = DOMAIN s /\ \A x \in DOMAIN s \ {p.rs} : u[x] = l[x]
  BY <1>2 DEF Changes
<1>5. t[New] = s[New]
  BY <1>1, <1>4
<1>6. s[New].size > 0 => s[New].desired = n
  BY DEF OthersUnresized
<1>7. ASSUME NEW q \in Pending(rest)
      PROVE  t[q.rs].size > 0 /\ Unresized(t, u, Sets \ {q.rs})
  <2>1. q.rs \in DOMAIN u /\ u[q.rs].size > 0
    BY <1>4, PendingShrinks DEF u
  <2>2. s[q.rs].size > 0 /\ Unresized(s, l, Sets \ {q.rs})
    BY <1>7 DEF OthersUnresized
  <2>3. t[q.rs].size > 0
    BY <1>2, <1>4, <2>1, <2>2
  <2>4. ASSUME NEW x \in DOMAIN t \cap (Sets \ {q.rs}) PROVE t[x].size = u[x].size
    <3>1. CASE x = p.rs
      BY <1>2, <3>1
    <3>2. CASE x # p.rs
      <4>1. s[x].size = l[x].size
        BY <1>4, <2>2 DEF Unresized
      <4>. QED
        BY <1>4, <3>2, <4>1
    <3>. QED
      BY <3>1, <3>2
  <2>. QED
    BY <2>3, <2>4 DEF Unresized
<1>8. CASE KeptSince(s, l, k)
  <2>1. KeptSince(t, u, k)
    BY <1>1, <1>2, <1>8, PatchKeepsKept
  <2>2. OthersUnresized(t, u, rest, n, k)
    BY <1>5, <1>6, <1>7, <2>1 DEF OthersUnresized
  <2>. QED
    BY <2>2 DEF t, u
<1>9. CASE \A q \in Pending(todo) : NoneKept(l, Sets \ {q.rs})
  <2>1. ASSUME NEW q \in Pending(rest), NEW x \in DOMAIN u \cap (Sets \ {q.rs})
        PROVE  Lesser(u[x].size, u[x].ready) = 0
    <3>1. Lesser(l[x].size, l[x].ready) = 0
      BY <1>4, <1>9 DEF NoneKept
    <3>2. CASE x = p.rs
      <4>1. l[x].size \in Nat /\ l[x].ready \in Nat
        BY <1>1, <3>2, ListTyped
      <4>. QED
        BY <1>1, <1>3, <3>1, <3>2, <4>1 DEF Lesser
    <3>3. CASE x # p.rs
      BY <1>4, <3>1, <3>3
    <3>. QED
      BY <3>2, <3>3
  <2>2. \A q \in Pending(rest) : NoneKept(u, Sets \ {q.rs})
    BY <2>1 DEF NoneKept
  <2>3. OthersUnresized(t, u, rest, n, k)
    BY <1>5, <1>6, <1>7, <2>2 DEF OthersUnresized
  <2>. QED
    BY <2>3 DEF t, u
<1>. QED
  BY <1>8, <1>9 DEF OthersUnresized

LEMMA HeadAndTail ==
  ASSUME NEW todo, todo \in Seq(Range(todo)), todo # <<>>
  PROVE  /\ Head(todo) \in Range(todo)
         /\ \A q \in Pending(Tail(todo)) : q \in Pending(todo)
<1>. DEFINE D == Range(todo)
<1>1. todo \in Seq(D)
  OBVIOUS
<1>. HIDE DEF D
<1>2. Head(todo) \in D /\ Tail(todo) \in Seq(D)
  BY <1>1
<1>3. \A q \in Range(Tail(todo)) : q \in D
  BY <1>2 DEF Range
<1>. QED
  BY <1>2, <1>3 DEF D, Pending

LEMMA SincePatches ==
  ASSUME TypeInductive, GrowthInductive, PlanInductive, PlanInductive', SinceInductive, PatchNext
  PROVE  SinceInductive'
<1>. DEFINE s == rs
            l == rec.rs
            todo == rec.todo
            p == Head(todo)
            rest == Tail(todo)
            n == rec.replicas
            t == Patched(s, p, n)
            u == Patched(l, p, n)
<1>1. /\ todo # <<>> /\ p.size \in Nat /\ s[p.rs] = l[p.rs]
      /\ rs' = t /\ rec'.rs = u /\ rec'.todo = rest /\ rec'.replicas = n
      /\ pc' = pc /\ pc # "idle" /\ replicas' = replicas /\ lost' = lost /\ failures' = failures
      /\ rec'.missed = rec.missed /\ Missable
  BY Patches DEF Goes
<1>2. pc # "create"
  BY <1>1, TypedFacts
<1>3. /\ IsList(s) /\ IsList(l) /\ n \in Nat /\ lost \in Nat /\ failures \in Nat
      /\ pc = "down" => New \in DOMAIN l
  BY TypedFacts
<1>4. /\ replicas > 0 /\ n > 0
      /\ pc = "down" /\ ~rec.missed => PatchesSince(s, l, todo, n, lost)
      /\ pc = "down" /\ ~rec.missed => DOMAIN l = DOMAIN s
  BY <1>1, SinceIs DEF GrowthInductive, Listed
<1>5. pc = "down" => /\ OnlyOlds(l, todo) /\ Shrinks(l, todo)
                     /\ OnlyOlds(u, rest) /\ Shrinks(u, rest)
  BY <1>1, PlanIs, PlanIsNext DEF Planned
<1>6. IsList(t)
  <2>. HIDE DEF s, l, p, n
  <2>. QED BY <1>1, <1>3, PatchedType
<1>. HIDE DEF s, l, todo, n
<1>7. ASSUME pc = "down", ~rec.missed PROVE PatchesSince(t, u, rest, n, lost)
  <2>1. OnlyOlds(l, todo)
    BY <1>5, <1>7
  <2>2. p \in Pending(todo) /\ \A q \in Pending(rest) : q \in Pending(todo)
    <3>1. todo \in Seq(Range(todo))
      BY <2>1 DEF OnlyOlds
    <3>. QED
      BY <1>1, <3>1, HeadAndTail DEF Pending
  <2>3. /\ p.rs \in DOMAIN l /\ p.rs # New /\ l[p.rs].size > 0
    <3>1. OnlyOlds(l, todo) /\ Shrinks(l, todo)
      BY <1>5, <1>7
    <3>. HIDE DEF p
    <3>. QED
      BY <1>3, <2>2, <3>1, PendingShrinks
  <2>4. New \in DOMAIN s /\ t[New] = s[New]
    <3>1. New \in DOMAIN s /\ New # p.rs
      BY <1>3, <1>4, <1>7, <2>3
    <3>2. ResizesOne(t, s, p)
      <4>. HIDE DEF p
      <4>. QED BY <1>1, <1>3, PatchedResizes
    <3>. HIDE DEF t, p
    <3>. QED
      BY <3>1, <3>2 DEF ResizesOne
  <2>5. CASE OthersUnresized(s, l, todo, n, lost)
    <3>1. OthersUnresized(t, u, rest, n, lost)
      <4>1. /\ OnlyOlds(l, todo) /\ Shrinks(l, todo)
            /\ OnlyOlds(u, rest) /\ Shrinks(u, rest)
        BY <1>5, <1>7
      <4>2. New \in DOMAIN l /\ DOMAIN s = DOMAIN l
        BY <1>3, <1>4, <1>7
      <4>. HIDE DEF p, rest
      <4>. QED BY <1>1, <1>3, <2>2, <2>5, <4>1, <4>2, PatchesOthers
    <3>. QED
      BY <3>1 DEF PatchesSince
  <2>6. CASE Saturated(s, n, lost)
    <3>. HIDE DEF t
    <3>. QED BY <2>4, <2>6 DEF Saturated, PatchesSince
  <2>7. CASE Alone(s, todo)
    BY <1>1, <2>2, <2>3, <2>7 DEF Alone
  <2>. QED
    BY <1>4, <1>7, <2>5, <2>6, <2>7 DEF PatchesSince
<1>. HIDE DEF t, u, rest
<1>8. ~cache'.missed => CopiedSince(rs', cache'.rs, failures' - cache'.failures)
  BY <1>1, <1>3, <1>6, MissableSince
<1>. QED
  BY <1>1, <1>2, <1>4, <1>7, <1>8, SinceIsNext

LEMMA SinceFails ==
  ASSUME TypeInductive, SinceInductive, PatchFails
  PROVE  SinceInductive'
<1>1. /\ rec.todo # <<>> /\ rs' = rs /\ rec'.rs = rec.rs /\ rec'.todo = <<>>
      /\ rec'.replicas = rec.replicas /\ rec'.missed = rec.missed
      /\ pc' = pc /\ pc # "idle" /\ replicas' = replicas /\ lost' = lost
      /\ cache' = cache /\ failures' = failures
  BY Fails DEF Goes
<1>2. pc # "create"
  BY <1>1, TypedFacts
<1>3. Pending(<<>>) = {}
  BY DEF Pending, Range
<1>4. ASSUME NEW s, NEW l, NEW todo, NEW n, NEW k, PatchesSince(s, l, todo, n, k)
      PROVE  PatchesSince(s, l, <<>>, n, k)
  BY <1>3, <1>4 DEF PatchesSince, OthersUnresized, Alone
<1>5. pc = "down" /\ ~rec.missed =>
        PatchesSince(rs, rec.rs, rec.todo, rec.replicas, lost)
  BY SinceIs
<1>6. pc = "down" /\ ~rec.missed =>
        PatchesSince(rs, rec.rs, <<>>, rec.replicas, lost)
  BY <1>4, <1>5
<1>. QED
  BY <1>1, <1>2, <1>6, SinceIs, SinceIsNext

LEMMA SinceEnds ==
  ASSUME SinceInductive, EndSync \/ EndUpgrade \/ EndStep
  PROVE  SinceInductive'
BY Ends, SinceIs, SinceIsNext

(* Pods start, become ready and fail: no ReplicaSet is resized, and each   *)
(* pod lost is counted.                                                    *)
PodsChange(t, m, s, k, r) ==
  /\ Changes(t, s, r)
  /\ t[r].size = s[r].size /\ t[r].desired = s[r].desired
  /\ m >= k
  /\ KeptOf(t[r]) + m >= KeptOf(s[r]) + k

LEMMA PodsKeepSince ==
  ASSUME NEW s, IsList(s), NEW l, IsList(l), DOMAIN l = DOMAIN s, NEW r \in DOMAIN s,
         NEW t, NEW k \in Nat, NEW m \in Nat, PodsChange(t, m, s, k, r),
         NEW n \in Nat, NEW todo, \A p \in Pending(todo) : p.rs \in DOMAIN s
  PROVE  /\ CreatesSince(s, l, k) => CreatesSince(t, l, m)
         /\ New \in DOMAIN s /\ PatchesSince(s, l, todo, n, k) => PatchesSince(t, l, todo, n, m)
         /\ CopiedSince(s, l, k) => CopiedSince(t, l, m)
<1>1. IsList(t) /\ DOMAIN t = DOMAIN s /\ \A x \in DOMAIN s \ {r} : t[x] = s[x]
  BY DEF PodsChange, Changes
<1>2. t[r].size = s[r].size /\ t[r].desired = s[r].desired /\ m >= k
  BY DEF PodsChange
<1>3. \A x \in DOMAIN s : t[x].size = s[x].size /\ t[x].desired = s[x].desired
  BY <1>1, <1>2
<1>4. KeptOf(t[r]) + m >= KeptOf(s[r]) + k
  BY DEF PodsChange
<1>5. \A x \in DOMAIN s : KeptOf(t[x]) \in Nat /\ KeptOf(s[x]) \in Nat
  BY <1>1, ListTyped DEF KeptOf
<1>6. Kept(t) + m >= Kept(s) + k
  <2>1. Kept(t) - KeptOf(t[r]) = Kept(s) - KeptOf(s[r])
    BY KeptChange DEF PodsChange
  <2>2. Kept(t) \in Nat /\ Kept(s) \in Nat
    BY <1>1, KeptType
  <2>3. KeptOf(t[r]) \in Nat /\ KeptOf(s[r]) \in Nat
    BY <1>5
  <2>. QED
    BY <1>4, <2>1, <2>2, <2>3
<1>7. KeptSince(s, l, k) => KeptSince(t, l, m)
  <2>1. Kept(t) \in Nat /\ Kept(s) \in Nat /\ Kept(l) \in Nat
    BY <1>1, KeptType
  <2>. QED
    BY <1>6, <2>1 DEF KeptSince
<1>8. \A S : Unresized(s, l, S) => Unresized(t, l, S)
  BY <1>1, <1>3 DEF Unresized
<1>9. CreatesSince(s, l, k) => CreatesSince(t, l, m)
  <2>1. CASE KeptSince(s, l, k) /\ Unresized(s, l, Sets)
    BY <1>7, <1>8, <2>1 DEF CreatesSince
  <2>2. ASSUME NEW x \in DOMAIN s, Single(s, l, x) PROVE CreatesSince(t, l, m)
    <3>1. Single(t, l, x)
      BY <1>1, <1>3, <2>2 DEF Single
    <3>. QED
      BY <1>1, <3>1 DEF CreatesSince
  <2>. QED
    BY <2>1, <2>2 DEF CreatesSince
<1>9a. ASSUME New \in DOMAIN s, NEW x \in Nat, Saturated(s, x, k) PROVE Saturated(t, x, m)
  <2>1. KeptOf(t[New]) + m >= KeptOf(s[New]) + k
    <3>1. CASE r = New
      BY <1>4, <3>1
    <3>2. CASE r # New
      <4>1. t[New] = s[New] /\ KeptOf(s[New]) \in Nat
        BY <1>1, <1>5, <1>9a, <3>2
      <4>. QED
        BY <1>2, <4>1
    <3>. QED
      BY <3>1, <3>2
  <2>2. KeptOf(s[New]) + k >= x /\ s[New].size >= x
    BY <1>9a DEF Saturated, KeptOf
  <2>3. KeptOf(t[New]) \in Nat /\ KeptOf(s[New]) \in Nat
    BY <1>5, <1>9a
  <2>4. KeptOf(t[New]) + m >= x
    BY <2>1, <2>2, <2>3
  <2>5. t[New].size = s[New].size
    BY <1>3, <1>9a
  <2>. QED
    BY <2>2, <2>4, <2>5 DEF Saturated, KeptOf
<1>10. ASSUME New \in DOMAIN s, PatchesSince(s, l, todo, n, k)
       PROVE  PatchesSince(t, l, todo, n, m)
  <2>1. t[New].size = s[New].size /\ t[New].desired = s[New].desired
    BY <1>3, <1>10
  <2>2. \A p \in Pending(todo) : t[p.rs].size = s[p.rs].size
    BY <1>3
  <2>3. CASE OthersUnresized(s, l, todo, n, k)
    <3>1. OthersUnresized(t, l, todo, n, m)
      BY <1>7, <1>8, <2>1, <2>2, <2>3 DEF OthersUnresized
    <3>. QED
      BY <3>1 DEF PatchesSince
  <2>4. CASE Saturated(s, n, k)
    BY <1>9a, <1>10, <2>4 DEF PatchesSince
  <2>5. CASE Alone(s, todo)
    BY <2>1, <2>2, <2>5 DEF Alone, PatchesSince
  <2>. QED
    BY <1>10, <2>3, <2>4, <2>5 DEF PatchesSince
<1>11. ASSUME CopiedSince(s, l, k) PROVE CopiedSince(t, l, m)
  <2>1. CASE Undisturbed(s, l, k)
    <3>1. Undisturbed(t, l, m)
      BY <1>1, <1>3, <1>7, <1>8, <2>1 DEF Undisturbed
    <3>. QED
      BY <3>1 DEF CopiedSince
  <2>2. ASSUME NEW x \in DOMAIN s, Single(s, l, x) PROVE CopiedSince(t, l, m)
    <3>1. Single(t, l, x)
      BY <1>1, <1>3, <2>2 DEF Single
    <3>. QED
      BY <1>1, <3>1 DEF CopiedSince
  <2>3. CASE Filled(s, l, k)
    <3>1. New \in DOMAIN s /\ l[New].desired \in Nat
      BY <2>3, ListTyped DEF Filled, SetType
    <3>2. Filled(t, l, m)
      BY <1>1, <1>3, <1>9a, <2>3, <3>1 DEF Filled
    <3>. QED
      BY <3>2 DEF CopiedSince
  <2>4. CASE NewAlone(s)
    <3>1. NewAlone(t)
      BY <1>1, <1>3, <2>4 DEF NewAlone
    <3>. QED
      BY <3>1 DEF CopiedSince
  <2>. QED
    BY <1>11, <2>1, <2>2, <2>3, <2>4 DEF CopiedSince
<1>. QED
  BY <1>9, <1>10, <1>11

LEMMA PodSteps ==
  ASSUME TypeInductive, Pod \/ \E r \in DOMAIN rs : PodFails(r)
  PROVE  \E r \in DOMAIN rs, d \in Nat :
           /\ lost' = lost + d /\ failures' = failures + d
           /\ \A k \in Nat : PodsChange(rs', k + d, rs, k, r)
<1>. DEFINE Loses(r, d) == /\ lost' = lost + d /\ failures' = failures + d
                           /\ \A k \in Nat : PodsChange(rs', k + d, rs, k, r)
<1>0. IsList(rs) /\ ReadyPods /\ lost \in Nat /\ failures \in Nat
  BY TypeParts, TypedFacts
<1>1. ASSUME NEW r \in DOMAIN rs, NEW q \in SetType, rs' = [rs EXCEPT ![r] = q],
             q.size = rs[r].size, q.desired = rs[r].desired, q.ready <= q.pods,
             NEW d \in Nat, lost' = lost + d, failures' = failures + d,
             KeptOf(q) \in Nat, KeptOf(rs[r]) \in Nat, KeptOf(q) + d >= KeptOf(rs[r])
      PROVE  Loses(r, d)
  <2>1. IsList(rs')
    BY <1>0, <1>1, SetChanged
  <2>2. DOMAIN rs' = DOMAIN rs /\ rs'[r] = q /\ \A x \in DOMAIN rs \ {r} : rs'[x] = rs[x]
    BY <1>1
  <2>3. Changes(rs', rs, r)
    BY <2>1, <2>2 DEF Changes
  <2>4. ASSUME NEW k \in Nat PROVE k + d >= k /\ KeptOf(q) + (k + d) >= KeptOf(rs[r]) + k
    BY <1>1
  <2>. QED
    BY <1>1, <2>2, <2>3, <2>4 DEF PodsChange
<1>2. ASSUME NEW r \in DOMAIN rs
      PROVE  /\ rs[r] \in SetType /\ rs[r].ready <= rs[r].pods
             /\ rs[r].size \in Nat /\ rs[r].ready \in Nat /\ rs[r].pods \in Nat
  BY <1>0, ListTyped DEF SetType, ReadyPods
<1>3. ASSUME NEW r \in DOMAIN rs, ReplicaSetControllerActs(r)
      PROVE  \E d \in Nat : Loses(r, d)
  <2>. DEFINE ready == Lesser(rs[r].ready, rs[r].size)
              q == [rs[r] EXCEPT !.pods = rs[r].size, !.ready = ready]
  <2>1. rs' = [rs EXCEPT ![r] = q] /\ lost' = lost + 0 /\ failures' = failures + 0
    BY <1>0, <1>3 DEF ReplicaSetControllerActs, counters
  <2>2. ready \in Nat /\ ready <= rs[r].size /\ Lesser(rs[r].size, ready) = KeptOf(rs[r])
    BY <1>2 DEF Lesser, KeptOf
  <2>. HIDE DEF ready
  <2>3. /\ q \in SetType /\ q.size = rs[r].size /\ q.desired = rs[r].desired
        /\ q.ready = ready /\ q.pods = rs[r].size
    BY <1>2, <2>2 DEF SetType
  <2>. HIDE DEF q
  <2>4. KeptOf(q) = KeptOf(rs[r])
    BY <2>2, <2>3 DEF KeptOf
  <2>5. KeptOf(rs[r]) \in Nat
    BY <1>2 DEF KeptOf, Lesser
  <2>. QED
    <3>1. KeptOf(q) + 0 >= KeptOf(rs[r]) /\ KeptOf(q) \in Nat
      BY <2>4, <2>5
    <3>2. q.ready <= q.pods
      BY <2>2, <2>3
    <3>. QED
      BY <1>1, <2>1, <2>3, <2>5, <3>1, <3>2
<1>4. ASSUME NEW r \in DOMAIN rs, PodBecomesReady(r)
      PROVE  \E d \in Nat : Loses(r, d)
  <2>. DEFINE q == [rs[r] EXCEPT !.ready = rs[r].ready + 1]
  <2>1. /\ rs' = [rs EXCEPT ![r] = q] /\ lost' = lost + 0 /\ failures' = failures + 0
        /\ rs[r].ready < rs[r].pods
    BY <1>0, <1>4 DEF PodBecomesReady, counters
  <2>2. /\ q \in SetType /\ q.size = rs[r].size /\ q.desired = rs[r].desired
        /\ q.ready = rs[r].ready + 1 /\ q.pods = rs[r].pods
    BY <1>2 DEF SetType
  <2>. HIDE DEF q
  <2>3. KeptOf(q) >= KeptOf(rs[r]) /\ KeptOf(q) \in Nat /\ KeptOf(rs[r]) \in Nat
    BY <1>2, <2>2 DEF KeptOf, Lesser
  <2>4. q.ready <= q.pods
    BY <1>2, <2>1, <2>2
  <2>. QED
    <3>1. KeptOf(q) + 0 >= KeptOf(rs[r])
      BY <2>3
    <3>. QED
      BY <1>1, <2>1, <2>2, <2>3, <2>4, <3>1
<1>5. ASSUME NEW r \in DOMAIN rs, PodFails(r)
      PROVE  \E d \in Nat : Loses(r, d)
  <2>. DEFINE q == [rs[r] EXCEPT !.ready = rs[r].ready - 1]
  <2>1. /\ rs' = [rs EXCEPT ![r] = q] /\ lost' = lost + 1 /\ failures' = failures + 1
        /\ rs[r].ready > 0
    BY <1>5 DEF PodFails
  <2>2. /\ q \in SetType /\ q.size = rs[r].size /\ q.desired = rs[r].desired
        /\ q.ready = rs[r].ready - 1 /\ q.pods = rs[r].pods
    <3>1. rs[r].ready - 1 \in Nat
      BY <1>2, <2>1
    <3>. QED
      BY <1>2, <3>1 DEF SetType
  <2>. HIDE DEF q
  <2>3. KeptOf(q) + 1 >= KeptOf(rs[r]) /\ KeptOf(q) \in Nat /\ KeptOf(rs[r]) \in Nat
    BY <1>2, <2>1, <2>2 DEF KeptOf, Lesser
  <2>4. q.ready <= q.pods
    BY <1>2, <2>1, <2>2
  <2>. QED
    <3>. QED
      BY <1>1, <2>1, <2>2, <2>3, <2>4
<1>. QED
  BY <1>3, <1>4, <1>5 DEF Pod

(* FindActiveOrLatest finds one when no other is active.                   *)
LEMMA OnlyActive ==
  ASSUME NEW s, IsList(s), NEW r \in FindActiveOrLatest(s)
  PROVE  /\ \A x \in DOMAIN s \ {r} : s[x].size = 0
         /\ New \in DOMAIN s => r = New \/ (r \in DOMAIN s /\ s[r].size > 0)
<1>. DEFINE A == Active(s, Sets)
<1>1. A \in SUBSET DOMAIN s /\ \A x \in DOMAIN s \ A : s[x].size = 0
  <2>1. \A x \in DOMAIN s : x \in Sets /\ s[x].size \in Nat
    BY ListTyped
  <2>. QED
    BY <2>1 DEF Active
<1>2. IsFiniteSet(A)
  <2>1. \A T \in SUBSET DOMAIN s : IsFiniteSet(T)
    BY ListTyped
  <2>. HIDE DEF A
  <2>. QED
    BY <1>1, <2>1
<1>3. \A x \in A : s[x].size > 0
  BY DEF Active
<1>4. /\ Cardinality(A) = 0 => r \in {IF New \in DOMAIN s THEN New ELSE Newest(DOMAIN s)}
      /\ Cardinality(A) = 1 => r \in A
      /\ Cardinality(A) \in {0, 1}
  BY DEF FindActiveOrLatest
<1>. HIDE DEF A
<1>5. CASE Cardinality(A) = 0
  <2>1. A = {}
    BY <1>2, <1>5, FS_EmptySet
  <2>. QED
    BY <1>1, <1>4, <1>5, <2>1
<1>6. CASE Cardinality(A) = 1
  <2>1. PICK x : A = {x}
    BY <1>2, <1>6, FS_Singleton
  <2>. QED
    BY <1>1, <1>3, <1>4, <1>6, <2>1
<1>. QED
  BY <1>4, <1>5, <1>6

(* The Deployment controller resizes the only active ReplicaSet, r.        *)
LEMMA OnlyResized ==
  ASSUME NEW s, IsList(s), NEW l, IsList(l), DOMAIN l = DOMAIN s, NEW r \in DOMAIN s,
         NEW t, Changes(t, s, r), t[r].size > 0, \A x \in DOMAIN s \ {r} : s[x].size = 0,
         NEW n \in Nat, n > 0, NEW k, NEW todo,
         \A p \in Pending(todo) : p.rs \in DOMAIN s /\ p.rs # New
  PROVE  /\ CreatesSince(s, l, k) => CreatesSince(t, l, k)
         /\ New \in DOMAIN s /\ (r = New \/ s[r].size > 0) /\ PatchesSince(s, l, todo, n, k) =>
              PatchesSince(t, l, todo, n, k)
         /\ (New \in DOMAIN s => r = New \/ s[r].size > 0) /\ CopiedSince(s, l, k) =>
              CopiedSince(t, l, k)
<1>1. IsList(t) /\ DOMAIN t = DOMAIN s /\ \A x \in DOMAIN s \ {r} : t[x] = s[x]
  BY DEF Changes
<1>2. \A x \in DOMAIN s : s[x].size \in Nat /\ l[x].ready \in Nat /\ l[x].size \in Nat /\ x \in Sets
  BY ListTyped
<1>3. ASSUME CreatesSince(s, l, k) PROVE CreatesSince(t, l, k)
  <2>1. \A x \in DOMAIN s \ {r} : l[x].size = 0
    <3>1. CASE Unresized(s, l, Sets)
      BY <1>2, <3>1 DEF Unresized
    <3>2. ASSUME NEW y \in DOMAIN s, Single(s, l, y)
          PROVE  \A x \in DOMAIN s \ {r} : l[x].size = 0
      <4>1. y = r
        BY <3>2 DEF Single
      <4>. QED
        BY <3>2, <4>1 DEF Single
    <3>. QED
      BY <1>3, <3>1, <3>2 DEF CreatesSince
  <2>2. Single(t, l, r)
    BY <1>1, <2>1 DEF Single
  <2>. QED
    BY <1>1, <2>2 DEF CreatesSince
<1>4. ASSUME New \in DOMAIN s, r = New PROVE PatchesSince(t, l, todo, n, k)
  <2>1. \A p \in Pending(todo) : t[p.rs].size = 0
    BY <1>1, <1>4
  <2>2. Alone(t, todo)
    BY <1>4, <2>1 DEF Alone
  <2>. QED
    BY <2>2 DEF PatchesSince
<1>5. ASSUME New \in DOMAIN s, r # New, s[r].size > 0, PatchesSince(s, l, todo, n, k)
      PROVE  PatchesSince(t, l, todo, n, k)
  <2>1. s[New].size = 0 /\ t[New].size = 0
    BY <1>1, <1>5
  <2>2. OthersUnresized(s, l, todo, n, k)
    BY <1>5, <2>1 DEF PatchesSince, Saturated, Alone
  <2>3. ASSUME NEW p \in Pending(todo)
        PROVE  /\ t[p.rs].size > 0
               /\ Unresized(t, l, Sets \ {p.rs}) /\ NoneKept(l, Sets \ {p.rs})
    <3>1. s[p.rs].size > 0 /\ Unresized(s, l, Sets \ {p.rs})
      BY <2>2 DEF OthersUnresized
    <3>2. p.rs = r
      BY <3>1
    <3>3. \A x \in DOMAIN s \ {r} : l[x].size = 0
      BY <1>2, <3>1, <3>2 DEF Unresized
    <3>4. Unresized(t, l, Sets \ {r})
      BY <1>1, <3>3 DEF Unresized
    <3>5. NoneKept(l, Sets \ {r})
      <4>1. \A x \in DOMAIN l \ {r} : Lesser(l[x].size, l[x].ready) = 0
        BY <1>2, <3>3 DEF Lesser
      <4>. QED
        BY <4>1 DEF NoneKept
    <3>. QED
      BY <3>2, <3>4, <3>5
  <2>4. OthersUnresized(t, l, todo, n, k)
    BY <2>1, <2>3 DEF OthersUnresized
  <2>. QED
    BY <2>4 DEF PatchesSince
<1>6. ASSUME New \in DOMAIN s => r = New \/ s[r].size > 0, CopiedSince(s, l, k)
      PROVE  CopiedSince(t, l, k)
  <2>1. CASE r = New
    <3>1. NewAlone(t)
      BY <1>1, <2>1 DEF NewAlone
    <3>. QED
      BY <3>1 DEF CopiedSince
  <2>2. CASE r # New
    <3>1. ~Filled(s, l, k) /\ ~NewAlone(s)
      <4>1. New \in DOMAIN s => ~(s[New].size > 0)
        BY <2>2
      <4>. QED
        BY <4>1 DEF Filled, NewAlone
    <3>2. CreatesSince(s, l, k)
      BY <1>6, <3>1 DEF CopiedSince, CreatesSince, Undisturbed
    <3>3. \A x \in DOMAIN s \ {r} : l[x].size = 0
      <4>1. CASE Unresized(s, l, Sets)
        BY <1>2, <4>1 DEF Unresized
      <4>2. ASSUME NEW y \in DOMAIN s, Single(s, l, y)
            PROVE  \A x \in DOMAIN s \ {r} : l[x].size = 0
        <5>1. y = r
          BY <4>2 DEF Single
        <5>. QED
          BY <4>2, <5>1 DEF Single
      <4>. QED
        BY <3>2, <4>1, <4>2 DEF CreatesSince
    <3>4. Single(t, l, r)
      BY <1>1, <3>3 DEF Single
    <3>. QED
      BY <1>1, <3>4 DEF CopiedSince
  <2>. QED
    BY <2>1, <2>2
<1>. QED
  BY <1>3, <1>4, <1>5, <1>6

(* The new ReplicaSet has all m replicas, and an old one, r, is taken away.*)
LEMMA OldTaken ==
  ASSUME NEW s, IsList(s), NEW l, NEW m \in Nat, m > 0, IsSaturated(s, m),
         NEW r \in DOMAIN s, r # New, NEW t, Changes(t, s, r), t[r].size = 0,
         NEW n \in Nat, NEW k \in Nat, NEW todo,
         \A p \in Pending(todo) : p.rs \in DOMAIN s, PatchesSince(s, l, todo, n, k)
  PROVE  PatchesSince(t, l, todo, n, k)
<1>1. \A x \in DOMAIN s \ {r} : t[x] = s[x]
  BY DEF Changes
<1>2. New \in DOMAIN s /\ s[New].size = m /\ s[New].desired = m /\ s[New].ready = m
  BY DEF IsSaturated
<1>3. t[New] = s[New]
  BY <1>1, <1>2
<1>4. CASE OthersUnresized(s, l, todo, n, k)
  <2>1. m = n
    BY <1>2, <1>4 DEF OthersUnresized
  <2>2. Saturated(t, n, k)
    BY <1>2, <1>3, <2>1 DEF Saturated, Lesser
  <2>. QED
    BY <2>2 DEF PatchesSince
<1>5. CASE Saturated(s, n, k)
  BY <1>3, <1>5 DEF Saturated, PatchesSince
<1>6. CASE Alone(s, todo)
  <2>1. \A p \in Pending(todo) : t[p.rs].size = 0
    <3>. TAKE p \in Pending(todo)
    <3>1. s[p.rs].size = 0 /\ p.rs \in DOMAIN s
      BY <1>6 DEF Alone
    <3>2. CASE p.rs = r
      BY <3>2
    <3>3. CASE p.rs # r
      BY <1>1, <3>1, <3>3
    <3>. QED
      BY <3>2, <3>3
  <2>2. Alone(t, todo)
    BY <1>3, <1>6, <2>1 DEF Alone
  <2>. QED
    BY <2>2 DEF PatchesSince
<1>. QED
  BY <1>4, <1>5, <1>6 DEF PatchesSince

LEMMA OldTakenFromCopy ==
  ASSUME NEW s, IsList(s), NEW l, IsList(l), DOMAIN l = DOMAIN s,
         NEW m \in Nat, m > 0, IsSaturated(s, m),
         NEW r \in DOMAIN s, r # New, s[r].size > 0, NEW t, Changes(t, s, r),
         NEW k \in Nat, CopiedSince(s, l, k)
  PROVE  CopiedSince(t, l, k)
<1>1. DOMAIN t = DOMAIN s /\ \A x \in DOMAIN s \ {r} : t[x] = s[x]
  BY DEF Changes
<1>2. New \in DOMAIN s /\ s[New].size = m /\ s[New].desired = m /\ s[New].ready = m
  BY DEF IsSaturated
<1>3. t[New] = s[New] /\ New \in Sets
  BY <1>1, <1>2 DEF Sets
<1>4. CASE Undisturbed(s, l, k)
  <2>1. l[New].size = m /\ l[New].desired = m
    BY <1>2, <1>3, <1>4 DEF Undisturbed, Unresized
  <2>2. Saturated(t, m, k)
    BY <1>2, <1>3 DEF Saturated, Lesser
  <2>3. Filled(t, l, k)
    BY <1>1, <1>2, <1>3, <2>1, <2>2 DEF Filled
  <2>. QED
    BY <2>3 DEF CopiedSince
<1>5. ASSUME NEW x \in DOMAIN s, Single(s, l, x) PROVE FALSE
  BY <1>2, <1>5 DEF Single
<1>6. CASE Filled(s, l, k)
  BY <1>1, <1>3, <1>6 DEF Filled, Saturated, CopiedSince
<1>7. CASE NewAlone(s)
  BY <1>7 DEF NewAlone
<1>. QED
  BY <1>4, <1>5, <1>6, <1>7 DEF CopiedSince

LEMMA NativeResizesOne ==
  ASSUME TypeInductive, NEW r, NEW m \in Nat, NativeResizes(r, m)
  PROVE  /\ replicas' = replicas /\ lost' = lost /\ failures' = failures
         /\ r \notin DOMAIN rs => rs' = rs
         /\ r \in DOMAIN rs => Changes(rs', rs, r) /\ rs'[r].size = m
<1>. DEFINE q == [rs[r] EXCEPT !.size = m, !.desired = replicas, !.max = replicas]
<1>0. IsList(rs) /\ ReadyPods /\ replicas \in Nat
  BY TypeParts, TypedFacts
<1>1. rs' = [rs EXCEPT ![r] = q] /\ replicas' = replicas /\ lost' = lost /\ failures' = failures
  BY DEF NativeResizes, counters
<1>2. CASE r \notin DOMAIN rs
  <2>1. rs = [x \in DOMAIN rs |-> rs[x]]
    BY <1>0 DEF IsList
  <2>. HIDE DEF q
  <2>2. rs' = rs
    BY <1>1, <1>2, <2>1
  <2>. QED
    BY <1>1, <1>2, <2>2
<1>3. CASE r \in DOMAIN rs
  <2>1. rs[r] \in SetType /\ rs[r].ready <= rs[r].pods
    BY <1>0, <1>3, ListTyped DEF ReadyPods
  <2>2. q \in SetType /\ q.ready <= q.pods /\ q.size = m
    BY <1>0, <2>1 DEF SetType
  <2>. HIDE DEF q
  <2>3. IsList(rs')
    BY <1>0, <1>1, <2>2, SetChanged
  <2>4. DOMAIN rs' = DOMAIN rs /\ rs'[r] = q /\ \A x \in DOMAIN rs \ {r} : rs'[x] = rs[x]
    BY <1>1, <1>3
  <2>. QED
    BY <1>1, <1>3, <2>2, <2>3, <2>4 DEF Changes
<1>. QED
  BY <1>2, <1>3

(* What the rest of the cluster does to what is there (s, then t), d more  *)
(* pods having failed, is no more than lists of it allow for.              *)
Carries(s, t, d) ==
  \A l, todo : \A n, k \in Nat :
    /\ IsList(l) /\ DOMAIN l = DOMAIN s /\ n > 0
    /\ \A p \in Pending(todo) : p.rs \in DOMAIN s /\ p.rs # New
    => /\ New \notin DOMAIN s /\ CreatesSince(s, l, k) => CreatesSince(t, l, k + d)
       /\ New \in DOMAIN s /\ PatchesSince(s, l, todo, n, k) => PatchesSince(t, l, todo, n, k + d)
       /\ CopiedSince(s, l, k) => CopiedSince(t, l, k + d)

LEMMA CarriesSelf ==
  ASSUME NEW s PROVE Carries(s, s, 0)
<1>1. \A k \in Nat : k + 0 = k
  OBVIOUS
<1>. QED
  BY <1>1 DEF Carries

LEMMA NativeCarries ==
  ASSUME TypeInductive, replicas > 0, NativeScales
  PROVE  Carries(rs, rs', 0)
<1>0. IsList(rs) /\ replicas \in Nat
  BY TypedFacts
<1>1. SUFFICES ASSUME NEW l, NEW todo, NEW n \in Nat, NEW k \in Nat,
                      IsList(l), DOMAIN l = DOMAIN rs, n > 0,
                      \A p \in Pending(todo) : p.rs \in DOMAIN rs /\ p.rs # New
               PROVE  /\ New \notin DOMAIN rs /\ CreatesSince(rs, l, k) => CreatesSince(rs', l, k)
                      /\ New \in DOMAIN rs /\ PatchesSince(rs, l, todo, n, k) =>
                           PatchesSince(rs', l, todo, n, k)
                      /\ CopiedSince(rs, l, k) => CopiedSince(rs', l, k)
  <2>1. \A k \in Nat : k + 0 = k
    OBVIOUS
  <2>. QED
    BY <2>1 DEF Carries
<1>2. ASSUME NEW r \in FindActiveOrLatest(rs), NativeResizes(r, replicas)
      PROVE  /\ New \notin DOMAIN rs /\ CreatesSince(rs, l, k) => CreatesSince(rs', l, k)
             /\ New \in DOMAIN rs /\ PatchesSince(rs, l, todo, n, k) =>
                  PatchesSince(rs', l, todo, n, k)
             /\ CopiedSince(rs, l, k) => CopiedSince(rs', l, k)
  <2>1. /\ \A x \in DOMAIN rs \ {r} : rs[x].size = 0
        /\ New \in DOMAIN rs => r = New \/ (r \in DOMAIN rs /\ rs[r].size > 0)
    BY <1>0, <1>2, OnlyActive
  <2>2. /\ r \notin DOMAIN rs => rs' = rs
        /\ r \in DOMAIN rs => Changes(rs', rs, r) /\ rs'[r].size = replicas
    BY <1>0, <1>2, NativeResizesOne
  <2>3. CASE r \notin DOMAIN rs
    BY <2>2, <2>3
  <2>4. CASE r \in DOMAIN rs
    <3>1. Changes(rs', rs, r) /\ rs'[r].size > 0
      BY <2>2, <2>4
    <3>2. /\ CreatesSince(rs, l, k) => CreatesSince(rs', l, k)
          /\ New \in DOMAIN rs /\ (r = New \/ rs[r].size > 0) /\ PatchesSince(rs, l, todo, n, k) =>
               PatchesSince(rs', l, todo, n, k)
          /\ (New \in DOMAIN rs => r = New \/ rs[r].size > 0) /\ CopiedSince(rs, l, k) =>
               CopiedSince(rs', l, k)
      BY <1>0, <1>1, <2>1, <2>4, <3>1, OnlyResized
    <3>. QED
      BY <2>1, <3>2
  <2>. QED
    BY <2>3, <2>4
<1>3. ASSUME IsSaturated(rs, replicas), NEW r \in Active(rs, Olds), NativeResizes(r, 0)
      PROVE  /\ New \in DOMAIN rs
             /\ PatchesSince(rs, l, todo, n, k) => PatchesSince(rs', l, todo, n, k)
             /\ CopiedSince(rs, l, k) => CopiedSince(rs', l, k)
  <2>1. New \in DOMAIN rs
    BY <1>3 DEF IsSaturated
  <2>2. r \in DOMAIN rs /\ r # New /\ rs[r].size > 0
    BY SetsAssumption DEF Active
  <2>3. Changes(rs', rs, r) /\ rs'[r].size = 0
    BY <1>3, <2>2, NativeResizesOne
  <2>4. PatchesSince(rs, l, todo, n, k) => PatchesSince(rs', l, todo, n, k)
    BY <1>0, <1>1, <1>3, <2>2, <2>3, OldTaken
  <2>5. CopiedSince(rs, l, k) => CopiedSince(rs', l, k)
    BY <1>0, <1>1, <1>3, <2>2, <2>3, OldTakenFromCopy
  <2>. QED
    BY <2>1, <2>4, <2>5
<1>. QED
  BY <1>2, <1>3 DEF NativeScales

LEMMA ClusterSince ==
  ASSUME TypeInductive, replicas > 0, Cluster \/ UNCHANGED vars
  PROVE  \E d \in Nat : lost' = lost + d /\ failures' = failures + d /\ Carries(rs, rs', d)
<1>0. IsList(rs) /\ replicas \in Nat /\ lost \in Nat /\ failures \in Nat
  BY TypedFacts
<1>1. CASE Pod \/ \E r \in DOMAIN rs : PodFails(r)
  <2>1. PICK r \in DOMAIN rs, d \in Nat :
          /\ lost' = lost + d /\ failures' = failures + d
          /\ \A k \in Nat : PodsChange(rs', k + d, rs, k, r)
    BY <1>1, PodSteps
  <2>2. ASSUME NEW l, NEW todo, NEW n \in Nat, NEW k \in Nat,
               IsList(l), DOMAIN l = DOMAIN rs, n > 0,
               \A p \in Pending(todo) : p.rs \in DOMAIN rs /\ p.rs # New
        PROVE  /\ New \notin DOMAIN rs /\ CreatesSince(rs, l, k) => CreatesSince(rs', l, k + d)
               /\ New \in DOMAIN rs /\ PatchesSince(rs, l, todo, n, k) =>
                    PatchesSince(rs', l, todo, n, k + d)
               /\ CopiedSince(rs, l, k) => CopiedSince(rs', l, k + d)
    <3>. DEFINE m == k + d
    <3>1. m \in Nat /\ PodsChange(rs', m, rs, k, r)
      BY <2>1
    <3>. HIDE DEF m
    <3>2. /\ CreatesSince(rs, l, k) => CreatesSince(rs', l, m)
          /\ New \in DOMAIN rs /\ PatchesSince(rs, l, todo, n, k) => PatchesSince(rs', l, todo, n, m)
          /\ CopiedSince(rs, l, k) => CopiedSince(rs', l, m)
      BY <1>0, <2>1, <2>2, <3>1, PodsKeepSince
    <3>. QED
      BY <3>2 DEF m
  <2>3. Carries(rs, rs', d)
    BY <2>2 DEF Carries
  <2>. QED
    BY <2>1, <2>3
<1>2. CASE NativeScales
  <2>1. lost' = lost /\ failures' = failures
    BY <1>2 DEF NativeScales, NativeResizes, counters
  <2>2. lost' = lost + 0 /\ failures' = failures + 0
    BY <1>0, <2>1
  <2>. QED
    BY <1>2, <2>2, NativeCarries
<1>3. CASE NativeReports \/ Deliver \/ (\E x \in Targets : UserScales(x)) \/ UserContinues
           \/ UNCHANGED vars
  <2>1. rs' = rs /\ lost' = lost /\ failures' = failures
    BY <1>3 DEF NativeReports, Deliver, UserScales, UserContinues, world, counters, vars
  <2>2. lost' = lost + 0 /\ failures' = failures + 0
    BY <1>0, <2>1
  <2>3. Carries(rs, rs', 0)
    BY <2>1, CarriesSelf
  <2>. QED
    BY <2>2, <2>3
<1>. QED
  BY <1>1, <1>2, <1>3 DEF Cluster

LEMMA SinceCluster ==
  ASSUME Inhabited, TypeInductive, GrowthInductive, PlanInductive, SinceInductive,
         Cluster \/ UNCHANGED vars
  PROVE  SinceInductive'
<1>. DEFINE l == rec.rs
            todo == rec.todo
            n == rec.replicas
            c == cache.rs
            k == failures - cache.failures
<1>1. pc' = pc /\ rec' = rec /\ DOMAIN rs' = DOMAIN rs
  BY ClusterKeepsRec
<1>2. /\ replicas > 0 /\ (pc # "idle" => n > 0)
      /\ ~cache.missed => CopiedSince(rs, c, k)
      /\ pc = "create" /\ ~rec.missed => CreatesSince(rs, l, lost)
      /\ pc = "down" /\ ~rec.missed => PatchesSince(rs, l, todo, n, lost)
  BY SinceIs
<1>3. /\ IsList(l) /\ n \in Nat /\ replicas \in Nat /\ lost \in Nat
      /\ pc = "create" => New \notin DOMAIN l /\ todo = <<>>
      /\ pc = "down" => New \in DOMAIN l
      /\ IsList(c) /\ k \in Nat /\ cache.failures \in Nat /\ failures \in Nat
  BY TypedFacts DEF IsCopy
<1>4. /\ ~cache.missed => DOMAIN c = DOMAIN rs
      /\ pc \in {"create", "down"} /\ ~rec.missed => DOMAIN l = DOMAIN rs
  BY DEF GrowthInductive, Listed
<1>5. replicas' > 0
  <2>1. CASE \E x \in Targets : UserScales(x)
    <3>1. replicas' \in Targets
      BY <2>1 DEF UserScales
    <3>2. replicas' \in Nat /\ replicas' # 0
      BY <3>1, SizeAssumption DEF Inhabited
    <3>. QED
      BY <3>2
  <2>2. CASE ~ \E x \in Targets : UserScales(x)
    <3>1. replicas' = replicas
      BY <2>2 DEF Cluster, Pod, ReplicaSetControllerActs, PodBecomesReady, PodFails,
        NativeScales, NativeResizes, NativeReports, Deliver, UserContinues, world, vars
    <3>. QED
      BY <1>2, <3>1
  <2>. QED
    BY <2>1, <2>2
<1>6. PICK d \in Nat : lost' = lost + d /\ failures' = failures + d /\ Carries(rs, rs', d)
  BY <1>2, ClusterSince
<1>7. pc = "down" => OnlyOlds(l, todo) /\ Shrinks(l, todo)
  BY PlanIs DEF Planned
<1>8. failures' - cache.failures = k + d
  BY <1>3, <1>6
<1>9. IsList(rs') /\ failures' \in Nat
  <2>1. TypeInductive'
    BY ClusterType
  <2>2. IsList(rs')
    BY <2>1, TypePartsNext
  <2>. QED
    BY <1>3, <1>6, <2>2
<1>. HIDE DEF l, todo, n, c, k
<1>10. ASSUME pc \in {"create", "down"}, ~rec.missed
       PROVE  \A p \in Pending(todo) : p.rs \in DOMAIN rs /\ p.rs # New
  <2>1. CASE pc = "create"
    BY <1>3, <2>1 DEF Pending, Range
  <2>2. CASE pc = "down"
    BY <1>3, <1>4, <1>7, <1>10, <2>2, PendingShrinks
  <2>. QED
    BY <1>10, <2>1, <2>2
<1>11. ASSUME pc \in {"create", "down"}, ~rec.missed
       PROVE  /\ pc = "create" => CreatesSince(rs', l, lost + d)
              /\ pc = "down" => PatchesSince(rs', l, todo, n, lost + d)
  <2>1. n > 0 /\ DOMAIN l = DOMAIN rs
    BY <1>2, <1>4, <1>11
  <2>2. \A p \in Pending(todo) : p.rs \in DOMAIN rs /\ p.rs # New
    BY <1>10, <1>11
  <2>3. /\ New \notin DOMAIN rs /\ CreatesSince(rs, l, lost) => CreatesSince(rs', l, lost + d)
        /\ New \in DOMAIN rs /\ PatchesSince(rs, l, todo, n, lost) =>
             PatchesSince(rs', l, todo, n, lost + d)
    BY <1>3, <1>6, <2>1, <2>2 DEF Carries
  <2>. QED
    BY <1>2, <1>3, <1>11, <2>1, <2>3
<1>12. ASSUME ~cache.missed PROVE CopiedSince(rs', c, k + d)
  <2>1. \A p \in Pending(<<>>) : p.rs \in DOMAIN rs /\ p.rs # New
    BY DEF Pending, Range
  <2>2. 1 \in Nat /\ 1 > 0
    OBVIOUS
  <2>3. CopiedSince(rs, c, k) => CopiedSince(rs', c, k + d)
    BY <1>3, <1>4, <1>6, <1>12, <2>1, <2>2 DEF Carries
  <2>. QED
    BY <1>2, <1>12, <2>3
<1>13. ~cache'.missed => CopiedSince(rs', cache'.rs, failures' - cache'.failures)
  <2>1. CASE cache' = Copied(rs', failures')
    BY <1>9, <2>1, UpToDate
  <2>2. CASE cache'.rs = cache.rs /\ cache'.missed = cache.missed /\ cache'.failures = cache.failures
    <3>1. failures' - cache'.failures = k + d
      BY <1>8, <2>2
    <3>2. cache'.rs = c
      BY <2>2 DEF c
    <3>. QED
      BY <1>12, <2>2, <3>1, <3>2
  <2>. QED
    BY <2>1, <2>2, ClusterCopies
<1>14. rec'.rs = l /\ rec'.todo = todo /\ rec'.replicas = n /\ rec'.missed = rec.missed
  BY <1>1 DEF l, todo, n
<1>. QED
  BY <1>1, <1>2, <1>5, <1>6, <1>11, <1>13, <1>14, SinceIsNext

LEMMA SinceNext ==
  ASSUME Inhabited, TypeInductive, GrowthInductive, PlanInductive, PlanInductive',
         SinceInductive, [Next]_vars
  PROVE  SinceInductive'
<1>1. CASE Reconcile
  BY <1>1, ReconcileIs, SinceStarts, SinceCreates, SincePatches, SinceFails, SinceEnds
<1>2. CASE Cluster \/ UNCHANGED vars
  BY <1>2, SinceCluster
<1>. QED
  BY <1>1, <1>2, NextIs

(***************************************************************************)
(* What each patch of reconcileOldReplicaSets leaves                       *)
(***************************************************************************)
LEMMA ScalesDownPatches ==
  ASSUME TypeInductive, [Next]_vars, ScalesDownOld
  PROVE  PatchNext
<1>1. rec' # rec /\ pc = "down" /\ rec.todo # <<>>
  BY DEF ScalesDownOld
<1>2. Reconcile
  BY <1>1, ClusterKeepsRec, NextIs
<1>3. ~PatchFails
  BY Fails DEF ScalesDownOld
<1>. QED
  BY <1>1, <1>2, <1>3 DEF Reconcile, StartSync, StartUpgrade, StartStep, StartReconcile,
    CreateNew, FindCreated, CreateFails, EndSync, EndUpgrade, EndStep, EndReconcile

(* DownPatch(s, l, todo, p, n, t): p, the next one of what is planned for  *)
(* l, makes t of s.                                                        *)
DownPatch(s, l, todo, p, n, t) ==
  /\ IsList(s) /\ IsList(l) /\ New \in DOMAIN l /\ New \in DOMAIN s /\ n \in Nat
  /\ OnlyOlds(l, todo) /\ Shrinks(l, todo)
  /\ p \in Pending(todo) /\ s[p.rs] = l[p.rs] /\ p.rs \in DOMAIN s
  /\ t = Patched(s, p, n)

LEMMA ScalesDownIs ==
  ASSUME TypeInductive, GrowthInductive, PlanInductive, [Next]_vars, ScalesDownOld
  PROVE  /\ DownPatch(rs, rec.rs, rec.todo, Head(rec.todo), rec.replicas, rs')
         /\ Planned(rec.rs, rec.todo, rec.replicas, idx, rec.missed, rec.surplus)
         /\ ~rec.missed => DOMAIN rec.rs = DOMAIN rs
<1>. DEFINE l == rec.rs
            todo == rec.todo
            p == Head(todo)
            n == rec.replicas
<1>1. /\ todo # <<>> /\ p.size \in Nat /\ rs[p.rs] = l[p.rs] /\ rs' = Patched(rs, p, n)
  BY ScalesDownPatches, Patches
<1>2. pc = "down"
  BY DEF ScalesDownOld
<1>3. IsList(rs) /\ IsList(l) /\ n \in Nat /\ New \in DOMAIN l
  BY <1>2, TypedFacts
<1>4. DOMAIN l \subseteq DOMAIN rs /\ (~rec.missed => DOMAIN l = DOMAIN rs)
  BY <1>2 DEF GrowthInductive, Listed
<1>5. Planned(l, todo, n, idx, rec.missed, rec.surplus)
  BY <1>2, PlanIs
<1>. HIDE DEF l, todo, n
<1>6. OnlyOlds(l, todo) /\ Shrinks(l, todo)
  BY <1>5 DEF Planned
<1>7. p \in Pending(todo)
  <2>1. todo \in Seq(Range(todo))
    BY <1>6 DEF OnlyOlds
  <2>2. p \in Range(todo)
    BY <1>1, <2>1, HeadAndTail
  <2>. QED
    BY <1>1, <2>2 DEF Pending
<1>8. p.rs \in DOMAIN rs /\ New \in DOMAIN rs
  <2>1. p.rs \in DOMAIN l
    BY <1>6, <1>7 DEF OnlyOlds, Pending
  <2>. QED
    BY <1>3, <1>4, <2>1
<1>9. DownPatch(rs, l, todo, p, n, rs')
  <2>. HIDE DEF p
  <2>. QED BY <1>1, <1>3, <1>6, <1>7, <1>8 DEF DownPatch
<1>. QED
  BY <1>4, <1>5, <1>9 DEF l, todo, n

LEMMA DownPatchFacts ==
  ASSUME NEW s, NEW l, NEW todo, NEW p, NEW n, NEW t, DownPatch(s, l, todo, p, n, t)
  PROVE  /\ p.rs \in Olds /\ p.rs # New /\ p.size \in Nat /\ l[p.rs].size > 0
         /\ IsList(t) /\ DOMAIN t = DOMAIN s /\ t[p.rs].size = p.size
         /\ t[p.rs].ready = s[p.rs].ready /\ \A x \in DOMAIN s \ {p.rs} : t[x] = s[x]
         /\ t[New] = s[New]
<1>1. p.rs \in Olds /\ p.rs \in DOMAIN l /\ p.size \in Nat
  BY DEF DownPatch, OnlyOlds, Pending
<1>2. p.rs # New
  BY <1>1, SetsAssumption
<1>3. l[p.rs].size > 0
  <2>1. PICK j \in DOMAIN todo : p = todo[j]
    BY DEF DownPatch, Pending, Range
  <2>2. p.size < l[p.rs].size
    BY <1>1, <2>1 DEF DownPatch, Shrinks
  <2>3. l[p.rs].size \in Nat
    BY <1>1, ListTyped DEF DownPatch
  <2>. QED
    BY <1>1, <2>2, <2>3
<1>4. ResizesOne(t, s, p)
  BY <1>1, PatchedResizes DEF DownPatch
<1>5. IsList(t) /\ DOMAIN t = DOMAIN s /\ \A x \in DOMAIN s \ {p.rs} : t[x] = s[x]
  BY <1>4 DEF ResizesOne
<1>6. p.rs \in DOMAIN s /\ New \in DOMAIN s
  BY DEF DownPatch
<1>7. t[p.rs].size = p.size /\ t[p.rs].ready = s[p.rs].ready
  BY <1>4, <1>6 DEF ResizesOne
<1>. QED
  BY <1>1, <1>2, <1>3, <1>5, <1>6, <1>7

(* What is left is at least what is left when the plan is done, if others  *)
(* have kept their sizes.                                                  *)
LEMMA AtLeastDone ==
  ASSUME NEW s, NEW l, NEW todo, NEW p, NEW n, NEW t, DownPatch(s, l, todo, p, n, t),
         DOMAIN l = DOMAIN s, Unresized(s, l, Sets \ {p.rs})
  PROVE  /\ \A x \in DOMAIN s : Done(l, todo)[x].size <= t[x].size
         /\ Total(Done(l, todo), Olds) <= Total(t, Olds)
<1>. DEFINE d == Done(l, todo)
<1>1. /\ p.rs # New /\ IsList(t) /\ DOMAIN t = DOMAIN s /\ t[p.rs].size = p.size
      /\ \A x \in DOMAIN s \ {p.rs} : t[x] = s[x]
  BY DownPatchFacts
<1>2. IsList(l) /\ p \in Pending(todo) /\ p.rs \in DOMAIN s
  BY DEF DownPatch
<1>3. /\ IsList(d) /\ DOMAIN d = DOMAIN l
      /\ \A x \in DOMAIN l : \A m \in Sizes(l, todo, x) : d[x].size <= m
  BY <1>2, DoneSizes
<1>. HIDE DEF d
<1>4. \A x \in DOMAIN s : d[x].size <= t[x].size
  <2>. TAKE x \in DOMAIN s
  <2>1. CASE x = p.rs
    <3>1. p.size \in Sizes(l, todo, x)
      BY <1>2, <2>1 DEF Sizes
    <3>. QED
      BY <1>1, <1>3, <2>1, <3>1
  <2>2. CASE x # p.rs
    <3>1. x \in Sets
      BY <1>2, ListTyped
    <3>2. s[x].size = l[x].size
      BY <2>2, <3>1 DEF Unresized
    <3>3. l[x].size \in Sizes(l, todo, x)
      BY DEF Sizes
    <3>. QED
      BY <1>1, <1>3, <2>2, <3>2, <3>3
  <2>. QED
    BY <2>1, <2>2
<1>5. Total(d, Olds) <= Total(t, Olds)
  BY <1>1, <1>3, <1>4, TotalsCompare
<1>. QED
  BY <1>4, <1>5 DEF d

LEMMA ShareLeft ==
  ASSUME NEW s, NEW l, NEW todo, NEW p, NEW n, NEW t, DownPatch(s, l, todo, p, n, t),
         DOMAIN l = DOMAIN s, NEW k \in Nat, NEW i \in 0 .. Len(Steps) - 1,
         LeavesOlds(l, todo, n, i), PatchesSince(s, l, todo, n, k)
  PROVE  Total(t, Olds) >= n - Greater(Limit(i, n), s[New].size)
<1>. DEFINE d == Done(l, todo)
<1>1. /\ IsList(s) /\ IsList(l) /\ New \in DOMAIN l /\ New \in DOMAIN s /\ n \in Nat
      /\ p \in Pending(todo) /\ s[p.rs] = l[p.rs] /\ p.rs \in DOMAIN s
  BY DEF DownPatch
<1>2. p.rs # New /\ l[p.rs].size > 0 /\ IsList(t)
  BY DownPatchFacts
<1>3. s[New].size \in Nat /\ l[New].size \in Nat
  BY <1>1, ListTyped
<1>4. Limit(i, n) \in Nat
  <2>1. n \in Nat /\ \A x \in 0 .. n : x \in Nat
    BY <1>1
  <2>2. Limit(i, n) \in 0 .. n
    BY <2>1, LimitType
  <2>. QED
    BY <2>1, <2>2
<1>5. IsList(d)
  BY <1>1, DoneSizes
<1>6. Total(t, Olds) \in Nat /\ Total(d, Olds) \in Nat
  BY <1>2, <1>5, SumsType
<1>7. CASE s[New].size >= n
  BY <1>1, <1>3, <1>4, <1>6, <1>7 DEF Greater
<1>8. CASE ~(s[New].size >= n)
  <2>2. OthersUnresized(s, l, todo, n, k)
    <3>1. ~Saturated(s, n, k)
      BY <1>8 DEF Saturated
    <3>2. ~Alone(s, todo)
      BY <1>1, <1>2 DEF Alone
    <3>. QED
      BY <3>1, <3>2 DEF PatchesSince
  <2>3. Unresized(s, l, Sets \ {p.rs})
    BY <1>1, <2>2 DEF OthersUnresized
  <2>4. Total(d, Olds) <= Total(t, Olds)
    BY <2>3, AtLeastDone
  <2>5. s[New].size = l[New].size
    <3>1. New \in Sets
      BY DEF Sets
    <3>. QED
      BY <1>1, <1>2, <2>3, <3>1 DEF Unresized
  <2>6. Total(d, Olds) >= n - Greater(Limit(i, n), l[New].size)
    BY DEF LeavesOlds
  <2>7. Greater(Limit(i, n), l[New].size) \in Nat
    BY <1>3, <1>4 DEF Greater
  <2>. HIDE DEF d
  <2>. QED
    BY <1>1, <1>6, <2>4, <2>5, <2>6, <2>7
<1>. QED
  BY <1>7, <1>8

(* The ready pods a list keeps are at least those one ReplicaSet does.     *)
LEMMA KeptAtLeast ==
  ASSUME NEW s, IsList(s), NEW r \in DOMAIN s
  PROVE  KeptOf(s[r]) <= Kept(s)
<1>. DEFINE f == [x \in DOMAIN s |-> KeptOf(s[x])]
            S == DOMAIN s
            T == S \ {r}
            D == Nat
<1>1. IsFiniteSet(S) /\ IsFiniteSet(T)
  BY ListTyped
<1>2. \A x \in S : f[x] \in D /\ f[x] \in Int
  BY ListTyped DEF KeptOf
<1>3. Kept(s) = SumFunctionOnSet(f, S)
  BY DEF Kept, SumFunction, KeptOf
<1>4. f[r] = KeptOf(s[r]) /\ r \in S
  OBVIOUS
<1>5. D = Nat
  OBVIOUS
<1>6. \A x \in T : f[x] \in D
  BY <1>2
<1>. HIDE DEF f, S, D
<1>7. SumFunctionOnSet(f, S) = f[r] + SumFunctionOnSet(f, T)
  BY <1>1, <1>2, <1>4, SumSplit
<1>. HIDE DEF T
<1>8. SumFunctionOnSet(f, T) \in D
  BY <1>1, <1>5, <1>6, SumType
<1>. QED
  BY <1>2, <1>3, <1>4, <1>5, <1>7, <1>8

LEMMA AvailableLeft ==
  ASSUME NEW s, NEW l, NEW todo, NEW p, NEW n, NEW t, DownPatch(s, l, todo, p, n, t),
         DOMAIN l = DOMAIN s, NEW k \in Nat, NEW m \in Nat,
         LeavesAvailable(l, todo, n, m), PatchesSince(s, l, todo, n, k)
  PROVE  Kept(t) < Kept(s) => Kept(t) + k + m >= MinAvailable(n)
<1>. DEFINE d == Done(l, todo)
<1>1. /\ IsList(s) /\ IsList(l) /\ New \in DOMAIN l /\ New \in DOMAIN s /\ n \in Nat
      /\ p \in Pending(todo) /\ s[p.rs] = l[p.rs] /\ p.rs \in DOMAIN s
  BY DEF DownPatch
<1>2. /\ p.rs # New /\ p.size \in Nat /\ l[p.rs].size > 0
      /\ IsList(t) /\ DOMAIN t = DOMAIN s /\ t[p.rs].size = p.size
      /\ t[p.rs].ready = s[p.rs].ready /\ \A x \in DOMAIN s \ {p.rs} : t[x] = s[x]
      /\ t[New] = s[New]
  BY DownPatchFacts
<1>3. /\ IsList(d) /\ DOMAIN d = DOMAIN l
      /\ \A x \in DOMAIN l : d[x].ready = l[x].ready
  BY <1>1, DoneSizes
<1>4. Kept(t) \in Nat /\ Kept(s) \in Nat /\ Kept(d) \in Nat
  BY <1>1, <1>2, <1>3, KeptType
<1>5. MinAvailable(n) \in 0 .. n
  BY <1>1, MinAvailableType
<1>7. CASE Saturated(s, n, k)
  <2>1. KeptOf(t[New]) + k >= n
    BY <1>2, <1>7 DEF Saturated, KeptOf
  <2>2. KeptOf(t[New]) <= Kept(t)
    BY <1>1, <1>2, KeptAtLeast
  <2>3. KeptOf(t[New]) \in Nat
    BY <1>1, <1>2, ListTyped DEF KeptOf
  <2>. QED
    BY <1>1, <1>4, <1>5, <2>1, <2>2, <2>3
<1>8. CASE OthersUnresized(s, l, todo, n, k)
  <2>1. Unresized(s, l, Sets \ {p.rs})
    BY <1>1, <1>8 DEF OthersUnresized
  <2>2. \A x \in DOMAIN s : d[x].size <= t[x].size
    BY <2>1, AtLeastDone
  <2>3. ASSUME \A q \in Pending(todo) : q.size >= l[q.rs].ready
        PROVE  ~(Kept(t) < Kept(s))
    <3>1. ASSUME NEW x \in DOMAIN s
          PROVE  Lesser(s[x].size, s[x].ready) <= Lesser(t[x].size, t[x].ready)
      <4>1. /\ s[x].size \in Nat /\ s[x].ready \in Nat
            /\ t[x].size \in Nat /\ t[x].ready \in Nat
        BY <1>1, <1>2, ListTyped
      <4>2. CASE x = p.rs
        <5>1. p.size >= s[x].ready
          BY <1>1, <2>3, <4>2
        <5>. QED
          BY <1>2, <4>1, <4>2, <5>1 DEF Lesser
      <4>3. CASE x # p.rs
        <5>1. t[x] = s[x]
          BY <1>2, <4>3
        <5>. QED
          BY <4>1, <5>1 DEF Lesser
      <4>. QED
        BY <4>2, <4>3
    <3>2. Kept(s) <= Kept(t)
      BY <1>1, <1>2, <3>1, KeptCompare
    <3>. QED
      BY <1>4, <3>2
  <2>4. ASSUME Kept(d) + m >= MinAvailable(n) PROVE Kept(t) + k + m >= MinAvailable(n)
    <3>1. CASE KeptSince(s, l, k)
      <4>. DEFINE u == Patched(l, p, n)
      <4>1. Changes(t, s, p.rs) /\ t[p.rs] = Resized(s[p.rs], p.size, n)
        BY <1>1, <1>2, PatchedChanges DEF DownPatch
      <4>2. Changes(u, l, p.rs) /\ u[p.rs] = Resized(l[p.rs], p.size, n)
        BY <1>1, <1>2, PatchedChanges
      <4>. HIDE DEF u
      <4>3. KeptSince(t, u, k)
        BY <1>1, <3>1, <4>1, <4>2, PatchKeepsKept
      <4>4. IsList(u) /\ DOMAIN u = DOMAIN l /\ \A x \in DOMAIN l \ {p.rs} : u[x] = l[x]
        BY <4>2 DEF Changes
      <4>5. u[p.rs] = t[p.rs]
        BY <1>1, <4>1, <4>2
      <4>6. ASSUME NEW x \in DOMAIN d
            PROVE  Lesser(d[x].size, d[x].ready) <= Lesser(u[x].size, u[x].ready)
        <5>1. /\ d[x].size \in Nat /\ d[x].ready \in Nat
              /\ u[x].size \in Nat /\ u[x].ready \in Nat
          BY <1>3, <4>4, ListTyped
        <5>2. d[x].size <= u[x].size /\ d[x].ready = u[x].ready
          <6>1. CASE x = p.rs
            BY <1>1, <1>2, <1>3, <2>2, <4>5, <6>1
          <6>2. CASE x # p.rs
            <7>1. u[x] = l[x] /\ d[x].ready = l[x].ready
              BY <1>3, <4>4, <6>2
            <7>2. d[x].size <= l[x].size
              <8>1. \A y \in Sizes(l, todo, x) : d[x].size <= y
                BY <1>1, <1>3, DoneSizes
              <8>. HIDE DEF d
              <8>. QED BY <8>1 DEF Sizes
            <7>. HIDE DEF d
            <7>. QED BY <7>1, <7>2
          <6>. QED
            BY <6>1, <6>2
        <5>. HIDE DEF d
        <5>. QED
          BY <5>1, <5>2 DEF Lesser
      <4>. HIDE DEF d
      <4>7. Kept(d) <= Kept(u)
        BY <1>3, <4>4, <4>6, KeptCompare
      <4>8. Kept(u) \in Nat
        BY <4>4, KeptType
      <4>9. Kept(t) + k >= Kept(u)
        BY <4>3 DEF KeptSince
      <4>. QED
        BY <1>4, <1>5, <2>4, <4>7, <4>8, <4>9
    <3>2. CASE \A q \in Pending(todo) : NoneKept(l, Sets \ {q.rs})
      <4>1. NoneKept(l, Sets \ {p.rs})
        BY <1>1, <3>2
      <4>2. ASSUME NEW x \in DOMAIN d
            PROVE  Lesser(d[x].size, d[x].ready) <= Lesser(t[x].size, t[x].ready)
        <5>1. /\ d[x].size \in Nat /\ d[x].ready \in Nat
              /\ t[x].size \in Nat /\ t[x].ready \in Nat
          BY <1>2, <1>3, ListTyped
        <5>2. CASE x = p.rs
          <6>1. d[x].size <= t[x].size /\ d[x].ready = t[x].ready
            BY <1>1, <1>2, <1>3, <2>2, <5>2
          <6>. HIDE DEF d
          <6>. QED
            BY <5>1, <6>1 DEF Lesser
        <5>3. CASE x # p.rs
          <6>1. Lesser(l[x].size, l[x].ready) = 0 /\ l[x].size \in Nat /\ l[x].ready \in Nat
            BY <1>1, <1>3, <4>1, <5>3, ListTyped DEF NoneKept
          <6>2. d[x].size <= l[x].size /\ d[x].ready = l[x].ready
            <7>1. \A y \in Sizes(l, todo, x) : d[x].size <= y
              BY <1>1, <1>3, DoneSizes
            <7>2. d[x].ready = l[x].ready
              BY <1>3
            <7>. HIDE DEF d
            <7>. QED BY <7>1, <7>2 DEF Sizes
          <6>. HIDE DEF d
          <6>. QED
            BY <5>1, <6>1, <6>2 DEF Lesser
        <5>. QED
          BY <5>2, <5>3
      <4>. HIDE DEF d
      <4>3. Kept(d) <= Kept(t)
        BY <1>2, <1>3, <4>2, KeptCompare
      <4>. QED
        BY <1>4, <1>5, <2>4, <4>3
    <3>. QED
      BY <1>8, <3>1, <3>2 DEF OthersUnresized
  <2>. QED
    BY <2>3, <2>4 DEF LeavesAvailable, d
<1>9. ~Alone(s, todo)
  BY <1>1, <1>2 DEF Alone
<1>. QED
  BY <1>7, <1>8, <1>9 DEF PatchesSince

LEMMA OldShareStep ==
  ASSUME TypeInductive, GrowthInductive, PlanInductive, SinceInductive, [Next]_vars,
         ScalesDownOld, ~rec.missed
  PROVE  Total(rs', Olds) >= rec.replicas - Greater(Limit(idx, rec.replicas), rs[New].size)
<1>. DEFINE l == rec.rs
            todo == rec.todo
            p == Head(todo)
            n == rec.replicas
<1>1. /\ DownPatch(rs, l, todo, p, n, rs') /\ DOMAIN l = DOMAIN rs
      /\ Planned(l, todo, n, idx, rec.missed, rec.surplus)
  BY ScalesDownIs
<1>2. PatchesSince(rs, l, todo, n, lost)
  BY SinceIs DEF ScalesDownOld
<1>3. lost \in Nat /\ idx \in 0 .. Len(Steps) - 1
  BY TypedFacts
<1>. HIDE DEF l, todo, p, n
<1>4. LeavesOlds(l, todo, n, idx)
  BY <1>1 DEF Planned
<1>5. Total(rs', Olds) >= n - Greater(Limit(idx, n), rs[New].size)
  BY <1>1, <1>2, <1>3, <1>4, ShareLeft
<1>. QED
  BY <1>5 DEF n

LEMMA AvailabilityStep ==
  ASSUME TypeInductive, GrowthInductive, PlanInductive, SinceInductive, [Next]_vars,
         ScalesDownOld, ~rec.missed, Kept(rs') < Kept(rs)
  PROVE  Kept(rs') + lost + rec.surplus >= MinAvailable(rec.replicas)
<1>. DEFINE l == rec.rs
            todo == rec.todo
            p == Head(todo)
            n == rec.replicas
            m == rec.surplus
<1>1. /\ DownPatch(rs, l, todo, p, n, rs') /\ DOMAIN l = DOMAIN rs
      /\ Planned(l, todo, n, idx, rec.missed, m)
  BY ScalesDownIs
<1>2. PatchesSince(rs, l, todo, n, lost)
  BY SinceIs DEF ScalesDownOld
<1>3. lost \in Nat /\ m \in Nat
  BY TypedFacts, TypeParts DEF LocalsTyped
<1>. HIDE DEF l, todo, p, n, m
<1>4. LeavesAvailable(l, todo, n, m)
  BY <1>1 DEF Planned
<1>5. Kept(rs') + lost + m >= MinAvailable(n)
  BY <1>1, <1>2, <1>3, <1>4, AvailableLeft
<1>. QED
  BY <1>5 DEF n, m

(* No patch of reconcileOldReplicaSets leaves the old ReplicaSets less than*)
(* the partition's share, whatever happened since they were listed and how-*)
(* ever old the list is, if it shows the patches of earlier reconciles.    *)
(* Nobody scales the Deployment to nothing meanwhile, and there are as many*)
(* old ReplicaSets as append makes a new array for: with three, the code   *)
(* may patch the new one in their place.                                   *)
THEOREM OldKeepTheirShare ==
  ASSUME Reallocates, Inhabited
  PROVE  Spec => OldShareKept
<1>1. Init => SinceInductive
  BY SinceInit
<1>2. TypeInductive /\ GrowthInductive /\ PlanInductive /\ [Next]_vars => PlanInductive'
  BY PlanNext
<1>3. /\ TypeInductive /\ GrowthInductive /\ PlanInductive /\ PlanInductive'
      /\ SinceInductive /\ [Next]_vars
      => SinceInductive'
  BY SinceNext
<1>4. TypeInductive /\ GrowthInductive /\ PlanInductive /\ SinceInductive /\ [Next]_vars =>
        [ScalesDownOld /\ ~rec.missed =>
           Total(rs', Olds) >= rec.replicas - Greater(Limit(idx, rec.replicas), rs[New].size)]_rs
  BY OldShareStep
<1>. QED
  BY <1>1, <1>2, <1>3, <1>4, TypeInit, TypeNext, GrowthInit, GrowthNext, PlanInit, PTL
  DEF Spec, OldShareKept

(* No patch of reconcileOldReplicaSets takes ready pods away below         *)
(* spec.replicas - maxUnavailable, but for the pods that failed since what *)
(* is listed and those listed in surplus, however old the list is, if it   *)
(* shows the patches of earlier reconciles.                                *)
THEOREM PodsStayAvailable ==
  ASSUME Reallocates, Inhabited
  PROVE  Spec => AvailabilityKept
<1>1. Init => SinceInductive
  BY SinceInit
<1>2. TypeInductive /\ GrowthInductive /\ PlanInductive /\ [Next]_vars => PlanInductive'
  BY PlanNext
<1>3. /\ TypeInductive /\ GrowthInductive /\ PlanInductive /\ PlanInductive'
      /\ SinceInductive /\ [Next]_vars
      => SinceInductive'
  BY SinceNext
<1>4. TypeInductive /\ GrowthInductive /\ PlanInductive /\ SinceInductive /\ [Next]_vars =>
        [ScalesDownOld /\ ~rec.missed /\ Kept(rs') < Kept(rs) =>
           Kept(rs') + lost + rec.surplus >= MinAvailable(rec.replicas)]_rs
  BY AvailabilityStep
<1>. QED
  BY <1>1, <1>2, <1>3, <1>4, TypeInit, TypeNext, GrowthInit, GrowthNext, PlanInit, PTL
  DEF Spec, AvailabilityKept

(***************************************************************************)
(* The biggest ReplicaSet                                                  *)
(***************************************************************************)
(* Whatever is ordered by a relation can be sorted by it.                  *)
LEMMA RelationSorts ==
  ASSUME NEW S, IsFiniteSet(S), NEW R,
         \A x \in S : <<x, x>> \notin R,
         \A x, y \in S : x # y => <<x, y>> \in R \/ <<y, x>> \in R,
         \A x, y, z \in S : <<x, y>> \in R /\ <<y, z>> \in R => <<x, z>> \in R
  PROVE  \E f \in [1 .. Cardinality(S) -> S] :
           IsInjective(f) /\ \A i, j \in DOMAIN f : i < j => <<f[i], f[j]>> \in R
<1>. DEFINE Before(x) == {y \in S : <<y, x>> \in R}
            rank == [x \in S |-> Cardinality(Before(x))]
<1>1. \A x \in S : IsFiniteSet(Before(x)) /\ Cardinality(Before(x)) \in Nat
  BY FS_Subset, FS_CardinalityType
<1>2. ASSUME NEW x \in S, NEW y \in S, <<x, y>> \in R PROVE rank[x] < rank[y]
  <2>1. Before(x) \in SUBSET Before(y) /\ x \in Before(y) /\ x \notin Before(x)
    BY <1>2
  <2>. HIDE DEF Before
  <2>2. Cardinality(Before(x)) <= Cardinality(Before(y)) /\ Cardinality(Before(x)) # Cardinality(Before(y))
    BY <1>1, <2>1, FS_Subset
  <2>. QED
    BY <1>1, <2>2
<1>3. \A x \in S : rank[x] \in Nat
  BY <1>1
<1>. HIDE DEF rank, Before
<1>4. ASSUME NEW x \in S, NEW y \in S, rank[x] = rank[y] PROVE x = y
  <2>1. rank[x] \in Nat /\ ~(rank[x] < rank[y]) /\ ~(rank[y] < rank[x])
    BY <1>3, <1>4
  <2>2. <<x, y>> \notin R /\ <<y, x>> \notin R
    BY <1>2, <2>1
  <2>. QED
    BY <2>2
<1>5. PICK f : InOrder(f, rank, S)
  BY <1>3, <1>4, OrderExists
<1>6. f \in [1 .. Cardinality(S) -> S] /\ IsInjective(f)
  BY <1>5 DEF InOrder
<1>7. ASSUME NEW i \in DOMAIN f, NEW j \in DOMAIN f, i < j PROVE <<f[i], f[j]>> \in R
  <2>1. rank[f[i]] < rank[f[j]]
    BY <1>5, <1>7 DEF InOrder
  <2>2. f[i] \in S /\ f[j] \in S
    BY <1>6, <1>7
  <2>3. f[i] # f[j] /\ <<f[j], f[i]>> \notin R
    BY <1>2, <1>3, <2>1, <2>2
  <2>. QED
    BY <2>2, <2>3
<1>. QED
  BY <1>6, <1>7

(* scaleUpOldReplicaSets finds one of the active ones.                     *)
LEMMA BiggestIsActive ==
  ASSUME NEW s, IsList(s), Active(s, Olds) # {}
  PROVE  Sorted(Active(s, Olds), LAMBDA a, b : BySizeOlder(s, a, b))[1] \in Active(s, Olds)
<1>. DEFINE S == Active(s, Olds)
            R == {e \in S \X S : BySizeOlder(s, e[1], e[2])}
            list == Sorted(S, LAMBDA a, b : BySizeOlder(s, a, b))
<1>1. S \in SUBSET Sets /\ \A x \in S : s[x].size \in Nat /\ Created[x] \in Nat
  <2>1. \A x \in S : x \in Sets /\ s[x].size \in Nat
    BY ListTyped DEF Active
  <2>. HIDE DEF S
  <2>. QED
    BY <2>1, OrderAssumption
<1>2. \A x, y \in S : Created[x] = Created[y] => x = y
  BY <1>1, OrderAssumption DEF IsInjective
<1>3. IsFiniteSet(S) /\ S # {}
  BY <1>1, SetsFinite
<1>. HIDE DEF S
<1>4. \A x, y \in S : <<x, y>> \in R <=> BySizeOlder(s, x, y)
  OBVIOUS
<1>. HIDE DEF R
<1>5. \E f \in [1 .. Cardinality(S) -> S] :
        IsInjective(f) /\ \A i, j \in DOMAIN f : i < j => <<f[i], f[j]>> \in R
  <2>1. \A x \in S : <<x, x>> \notin R
    BY <1>1, <1>4 DEF BySizeOlder
  <2>2. \A x, y \in S : x # y => <<x, y>> \in R \/ <<y, x>> \in R
    BY <1>1, <1>2, <1>4 DEF BySizeOlder
  <2>3. \A x, y, z \in S : <<x, y>> \in R /\ <<y, z>> \in R => <<x, z>> \in R
    BY <1>1, <1>4 DEF BySizeOlder
  <2>. QED
    BY <1>3, <2>1, <2>2, <2>3, RelationSorts
<1>6. list \in [1 .. Cardinality(S) -> S]
  <2>1. \E f \in [1 .. Cardinality(S) -> S] :
          IsInjective(f) /\ \A i, j \in DOMAIN f : i < j => BySizeOlder(s, f[i], f[j])
    BY <1>4, <1>5
  <2>. QED
    BY <2>1 DEF Sorted
<1>7. 1 \in 1 .. Cardinality(S)
  <2>1. Cardinality(S) \in Nat /\ Cardinality(S) # 0
    BY <1>3, FS_CardinalityType, FS_EmptySet
  <2>. QED
    BY <2>1
<1>8. list[1] \in S
  <2>. HIDE DEF list
  <2>. QED BY <1>6, <1>7
<1>. QED
  BY <1>8 DEF S

(* Which stage it is of stepByStep.                                        *)
LEMMA StageCases ==
  ASSUME NEW s, NEW n, NEW i
  PROVE  LET stage == UpgradeStage(s, n, i)
             olds  == Active(s, Olds)
         IN \/ /\ ReconcileNew(s, n, i) # <<>>
               /\ stage.pc = "new" /\ stage.todo = ReconcileNew(s, n, i)
            \/ /\ ReconcileNew(s, n, i) = <<>>
               /\ \/ stage.pc = "up" /\ stage.todo = <<>>
                  \/ /\ olds # {} /\ OldLimit(s, n, i, olds) <= 0
                     /\ stage.pc = "up" /\ stage.todo = ScaleUpOld(s, n, i)
                  \/ olds # {} /\ ~(OldLimit(s, n, i, olds) <= 0) /\ stage.pc = "down"
<1>. DEFINE olds == Active(s, Olds)
            stage == OldStage(s, n, i)
<1>1. CASE ReconcileNew(s, n, i) # <<>>
  BY <1>1 DEF UpgradeStage
<1>2. CASE ReconcileNew(s, n, i) = <<>>
  <2>1. UpgradeStage(s, n, i) = stage
    BY <1>2 DEF UpgradeStage
  <2>2. CASE olds = {}
    BY <1>2, <2>1, <2>2 DEF OldStage
  <2>3. CASE olds # {} /\ OldLimit(s, n, i, olds) <= 0
    BY <1>2, <2>1, <2>3 DEF OldStage
  <2>4. CASE olds # {} /\ ~(OldLimit(s, n, i, olds) <= 0)
    BY <1>2, <2>1, <2>4 DEF OldStage
  <2>. QED
    BY <2>2, <2>3, <2>4
<1>. QED
  BY <1>1, <1>2

(***************************************************************************)
(* In which order old ReplicaSets give up ready pods                       *)
(***************************************************************************)
(* The loop takes all of one before it takes anything of the next.         *)
LEMMA TakenGrows ==
  ASSUME NEW S, NEW list, Lists(list, S), NEW most \in Int,
         NEW share, \A x \in S : share[x] \in Int
  PROVE  LET t == Taken(list, most, share)
         IN \A a, b \in 0 .. Cardinality(S) : b <= a => t[b] <= t[a]
<1>. DEFINE t == Taken(list, most, share)
            N == Cardinality(S)
            Bad == {a \in Nat : a <= N /\ \E b \in 0 .. a : ~(t[b] <= t[a])}
<1>1. /\ N \in Nat
      /\ \A i \in 0 .. N : t[i] \in Nat
      /\ \A i \in 1 .. N : t[i - 1] <= t[i]
  BY TakenRow
<1>. HIDE DEF t, N
<1>2. Bad = {}
  <2>1. SUFFICES ASSUME Bad # {} PROVE FALSE
    OBVIOUS
  <2>2. PICK a \in Bad : \A m \in Bad : a <= m
    <3>. Bad \in SUBSET Nat
      OBVIOUS
    <3>. HIDE DEF Bad
    <3>. QED BY <2>1, Least
  <2>3. a \in Nat /\ a <= N
    OBVIOUS
  <2>4. PICK b \in 0 .. a : ~(t[b] <= t[a])
    OBVIOUS
  <2>5. t[a] \in Nat /\ b # a
    BY <1>1, <2>3, <2>4
  <2>6. a - 1 \in Nat /\ a - 1 <= N /\ a \in 1 .. N /\ b \in 0 .. a - 1
    BY <1>1, <2>3, <2>5
  <2>7. t[b] <= t[a - 1]
    BY <1>1, <2>2, <2>3, <2>6
  <2>8. t[b] \in Nat /\ t[a - 1] \in Nat /\ t[a - 1] <= t[a]
    BY <1>1, <2>3, <2>6
  <2>. QED
    BY <2>4, <2>5, <2>7, <2>8
<1>. QED
  BY <1>1, <1>2 DEF t, N

LEMMA AllTakenBefore ==
  ASSUME NEW S, NEW list, Lists(list, S), NEW most \in Int,
         NEW share, \A x \in S : share[x] \in Nat
  PROVE  LET t == Taken(list, most, share)
         IN \A a, b \in 1 .. Cardinality(S) :
              b < a /\ t[a] # t[a - 1] => t[b] - t[b - 1] = share[list[b]]
<1>. DEFINE t == Taken(list, most, share)
            N == Cardinality(S)
<1>1. /\ N \in Nat
      /\ \A i \in 0 .. N : t[i] \in Nat
      /\ \A i \in 1 .. N : t[i] = t[i - 1] + Greater(Lesser(most - t[i - 1], share[list[i]]), 0)
  BY TakenRow
<1>2. \A a, b \in 0 .. N : b <= a => t[b] <= t[a]
  BY TakenGrows
<1>3. list \in [1 .. N -> S]
  BY DEF Lists
<1>. HIDE DEF t, N
<1>4. SUFFICES ASSUME NEW a \in 1 .. N, NEW b \in 1 .. N, b < a, t[a] # t[a - 1]
               PROVE  t[b] - t[b - 1] = share[list[b]]
  BY DEF t, N
<1>5. /\ a - 1 \in 0 .. N /\ b \in 0 .. N /\ b - 1 \in 0 .. N /\ b <= a - 1
      /\ share[list[a]] \in Nat /\ share[list[b]] \in Nat
  BY <1>1, <1>3, <1>4
<1>6. t[a - 1] \in Nat /\ t[b] \in Nat /\ t[b - 1] \in Nat /\ t[b] <= t[a - 1]
  BY <1>1, <1>2, <1>5
<1>7. t[a - 1] < most
  <2>1. t[a] = t[a - 1] + Greater(Lesser(most - t[a - 1], share[list[a]]), 0)
    BY <1>1
  <2>. QED
    BY <1>4, <1>5, <1>6, <2>1 DEF Greater, Lesser
<1>8. t[b] = t[b - 1] + Greater(Lesser(most - t[b - 1], share[list[b]]), 0)
  BY <1>1
<1>. QED
  BY <1>5, <1>6, <1>7, <1>8 DEF Greater, Lesser

(* Whatever a patch takes from, all with replicas before it in the list    *)
(* have patches that take everything, earlier ones.                        *)
Descends(s, list, N, todo) ==
  \A i \in DOMAIN todo : \E a \in 1 .. N :
    /\ todo[i].rs = list[a]
    /\ \A b \in 1 .. a - 1 : s[list[b]].size > 0 =>
         \E j \in 1 .. i - 1 : todo[j].rs = list[b] /\ todo[j].size = 0

LEMMA TakeAwayDescends ==
  ASSUME NEW s, IsList(s), NEW S \in SUBSET DOMAIN s, NEW list, Lists(list, S), NEW most \in Int,
         NEW share, \A x \in S : share[x] = s[x].size
  PROVE  Descends(s, list, Cardinality(S), TakeAway(s, list, most, share))
<1>. DEFINE t == Taken(list, most, share)
            offers == Offers(s, list, most, share)
            todo == TakeAway(s, list, most, share)
            N == Cardinality(S)
            keep == {i \in DOMAIN offers : s[offers[i].rs].size # offers[i].size}
<1>1. N \in Nat /\ list \in [1 .. N -> S]
  BY DEF Lists
<1>2. \A x \in S : s[x].size \in Nat /\ share[x] \in Nat /\ share[x] \in Int
  BY ListTyped
<1>3. /\ Len(list) = N
      /\ \A i \in 0 .. N : t[i] \in Nat
  BY <1>2, TakenRow
<1>4. \A a, b \in 1 .. N : b < a /\ t[a] # t[a - 1] => t[b] - t[b - 1] = share[list[b]]
  BY <1>2, AllTakenBefore
<1>5. DOMAIN offers = 1 .. N
  <2>. HIDE DEF N
  <2>. QED BY <1>3 DEF Offers
<1>6. \A i \in 1 .. N : /\ list[i] \in S /\ t[i] \in Nat /\ t[i - 1] \in Nat
                        /\ s[list[i]].size \in Nat
                        /\ offers[i].rs = list[i]
                        /\ offers[i].size = s[list[i]].size - (t[i] - t[i - 1])
  <2>. TAKE i \in 1 .. N
  <2>1. list[i] \in S /\ t[i] \in Nat /\ t[i - 1] \in Nat
    <3>. HIDE DEF N, t
    <3>1. i \in 0 .. N /\ i - 1 \in 0 .. N
      BY <1>1
    <3>. QED
      BY <1>1, <1>3, <3>1
  <2>2. ~(share[list[i]] < 0) /\ s[list[i]].size \in Nat
    BY <1>2, <2>1
  <2>3. offers[i] = Patch(list[i], s[list[i]].size - (t[i] - t[i - 1]))
    <3>. HIDE DEF N
    <3>. QED BY <1>3, <2>2 DEF Offers
  <2>. HIDE DEF t, offers
  <2>. QED
    BY <2>1, <2>2, <2>3 DEF Patch
<1>7. todo = Selected(offers, keep)
  BY TakeAwayIs DEF IfResized
<1>8. \A i \in 1 .. N : i \in keep <=> t[i] # t[i - 1]
  <2>. TAKE i \in 1 .. N
  <2>1. i \in keep <=> s[list[i]].size # offers[i].size
    <3>. HIDE DEF offers
    <3>. QED BY <1>5, <1>6
  <2>. HIDE DEF keep, offers, t
  <2>. QED
    BY <1>6, <2>1
<1>. HIDE DEF offers, todo, t, N
<1>9. keep \in SUBSET (1 .. N)
  BY <1>5
<1>. HIDE DEF keep
<1>10. Selects(todo, offers, keep)
  BY <1>1, <1>7, <1>9, SelectedSelects
<1>11. PICK m \in Nat : \E place \in [1 .. m -> keep] :
         /\ todo = [k \in 1 .. m |-> offers[place[k]]]
         /\ \A i, j \in 1 .. m : i < j => place[i] < place[j]
         /\ \A x \in keep : \E k \in 1 .. m : place[k] = x
  BY <1>10 DEF Selects
<1>12. PICK place \in [1 .. m -> keep] :
         /\ todo = [k \in 1 .. m |-> offers[place[k]]]
         /\ \A i, j \in 1 .. m : i < j => place[i] < place[j]
         /\ \A x \in keep : \E k \in 1 .. m : place[k] = x
  BY <1>11
<1>13. \A k \in 1 .. m : place[k] \in keep /\ place[k] \in 1 .. N /\ todo[k] = offers[place[k]]
  BY <1>9, <1>12
<1>14. ASSUME NEW i \in DOMAIN todo
       PROVE  \E a \in 1 .. N :
                /\ todo[i].rs = list[a]
                /\ \A b \in 1 .. a - 1 : s[list[b]].size > 0 =>
                     \E j \in 1 .. i - 1 : todo[j].rs = list[b] /\ todo[j].size = 0
  <2>. DEFINE a == place[i]
  <2>1. i \in 1 .. m
    BY <1>12
  <2>2. a \in keep /\ a \in 1 .. N /\ todo[i] = offers[a]
    BY <1>13, <2>1
  <2>. HIDE DEF a
  <2>3. t[a] # t[a - 1] /\ todo[i].rs = list[a]
    BY <1>6, <1>8, <2>2
  <2>4. ASSUME NEW b \in 1 .. a - 1, s[list[b]].size > 0
        PROVE  \E j \in 1 .. i - 1 : todo[j].rs = list[b] /\ todo[j].size = 0
    <3>1. b \in 1 .. N /\ b < a
      BY <1>1, <2>2
    <3>2. t[b] - t[b - 1] = share[list[b]]
      BY <1>4, <2>2, <2>3, <3>1
    <3>3. list[b] \in S /\ share[list[b]] = s[list[b]].size
      BY <1>6, <3>1
    <3>4. /\ t[b] \in Nat /\ t[b - 1] \in Nat /\ s[list[b]].size \in Nat
          /\ offers[b].rs = list[b]
          /\ offers[b].size = s[list[b]].size - (t[b] - t[b - 1])
      BY <1>6, <3>1
    <3>5. offers[b].size = 0 /\ t[b] # t[b - 1]
      BY <2>4, <3>2, <3>3, <3>4
    <3>6. b \in keep
      BY <1>8, <3>1, <3>5
    <3>7. PICK j \in 1 .. m : place[j] = b
      BY <1>12, <3>6
    <3>8. j < i
      <4>1. i < j => a < b
        BY <1>12, <2>1, <3>7 DEF a
      <4>2. i = j => a = b
        BY <3>7 DEF a
      <4>3. a \in Nat /\ b \in Nat /\ i \in Nat /\ j \in Nat
        BY <2>1, <2>2, <3>1
      <4>. QED
        BY <3>1, <4>1, <4>2, <4>3
    <3>9. todo[j].rs = list[b] /\ todo[j].size = 0
      BY <1>13, <3>4, <3>5, <3>7
    <3>10. j \in 1 .. i - 1
      BY <2>1, <3>8
    <3>. QED
      BY <3>9, <3>10
  <2>. QED
    BY <2>2, <2>3, <2>4
<1>. QED
  BY <1>14 DEF Descends, todo, N

(* scaleDownOldReplicaSetsForRollingUpdate: by revision.                   *)
TakesByRevision(c, S, todo) ==
  /\ \E m \in Nat : Rows(todo, m)
  /\ \A i \in DOMAIN todo : todo[i].rs \in S
  /\ \A i \in DOMAIN todo, q \in S :
       Revision[q] > Revision[todo[i].rs] /\ c[q].size > 0 =>
         \E j \in 1 .. i - 1 : todo[j].rs = q /\ todo[j].size = 0

LEMMA ScaleDownByRevision ==
  ASSUME NEW c, IsList(c), NEW n, NEW i,
         NEW olds \in SUBSET (Olds \cap DOMAIN c), AppendReallocates(Cardinality(olds)),
         Available(c, olds \cup {New}) - MinAvailable(n) \in Int, OldLimit(c, n, i, olds) \in Int
  PROVE  TakesByRevision(c, olds, ScaleDownOld(c, n, i, olds))
<1>. DEFINE list == ScaleDownList(olds)
            most == Lesser(Available(c, olds \cup {New}) - MinAvailable(n), OldLimit(c, n, i, olds))
            share == [r \in olds |-> c[r].size]
            todo == TakeAway(c, list, most, share)
            N == Cardinality(olds)
<1>1. /\ Lists(list, olds)
      /\ \A a, b \in 1 .. N : a < b => Revision[list[a]] > Revision[list[b]]
  <2>1. list = Sorted(olds, BySmallerRevision)
    BY DEF ScaleDownList
  <2>. HIDE DEF list
  <2>. QED
    BY <2>1, RevisionSorts
<1>2. ToSet(list) = olds
  <2>. HIDE DEF list
  <2>. QED BY <1>1 DEF Lists, ToSet
<1>3. ScaleDownOld(c, n, i, olds) = <<>> \/ ScaleDownOld(c, n, i, olds) = todo
  BY <1>2 DEF ScaleDownOld
<1>4. CASE ScaleDownOld(c, n, i, olds) = <<>>
  <2>1. Rows(<<>>, 0) /\ DOMAIN <<>> = {}
    BY DEF Rows
  <2>2. TakesByRevision(c, olds, <<>>)
    BY <2>1 DEF TakesByRevision
  <2>. QED
    BY <1>4, <2>2
<1>5. CASE ScaleDownOld(c, n, i, olds) = todo
  <2>1. most \in Int
    BY DEF Lesser
  <2>2. olds \in SUBSET DOMAIN c
    OBVIOUS
  <2>3. \A r \in olds : share[r] = c[r].size /\ share[r] \in Int /\ share[r] <= c[r].size
    BY ListTyped
  <2>. HIDE DEF list, most, share
  <2>4. PICK least : Takes(c, olds, todo, least)
    BY <1>1, <2>1, <2>2, <2>3, TakeAwayTakes
  <2>5. Descends(c, list, N, todo)
    BY <1>1, <2>1, <2>2, <2>3, TakeAwayDescends
  <2>. HIDE DEF todo
  <2>6. /\ N \in Nat /\ list \in [1 .. N -> olds]
        /\ \A q \in olds : \E b \in 1 .. N : list[b] = q
        /\ \A q \in olds : Revision[q] \in Nat
    BY <1>1, OrderAssumption DEF Lists
  <2>. HIDE DEF N
  <2>7. ASSUME NEW k \in DOMAIN todo, NEW q \in olds,
               Revision[q] > Revision[todo[k].rs], c[q].size > 0
        PROVE  \E j \in 1 .. k - 1 : todo[j].rs = q /\ todo[j].size = 0
    <3>1. PICK a \in 1 .. N :
            /\ todo[k].rs = list[a]
            /\ \A b \in 1 .. a - 1 : c[list[b]].size > 0 =>
                 \E j \in 1 .. k - 1 : todo[j].rs = list[b] /\ todo[j].size = 0
      BY <2>5 DEF Descends
    <3>2. PICK b \in 1 .. N : list[b] = q
      BY <2>6
    <3>3. b < a
      <4>1. list[a] \in olds /\ Revision[list[a]] \in Nat /\ Revision[q] \in Nat
        BY <2>6
      <4>2. ~(a < b) /\ a # b
        BY <1>1, <2>7, <3>1, <3>2, <4>1 DEF N
      <4>. QED
        BY <2>6, <4>2
    <3>4. b \in 1 .. a - 1
      BY <2>6, <3>3
    <3>. QED
      BY <2>7, <3>1, <3>2, <3>4
  <2>. QED
    BY <1>5, <2>4, <2>7 DEF TakesByRevision, Takes
<1>. QED
  BY <1>3, <1>4, <1>5

LEMMA LimitsType ==
  ASSUME NEW s, IsList(s), New \in DOMAIN s, NEW n \in Nat, NEW i \in 0 .. Len(Steps) - 1, NEW S
  PROVE  /\ OldLimit(s, n, i, S) \in Int
         /\ Available(s, S \cup {New}) - MinAvailable(n) \in Int
<1>1. Total(s, S) \in Int /\ Available(s, S \cup {New}) \in Int
  BY SumsType
<1>2. Limit(i, n) \in Int /\ MinAvailable(n) \in Int
  BY LimitType, MinAvailableType
<1>3. s[New].size \in Int
  BY ListTyped
<1>4. OldLimit(s, n, i, S) \in Int
  BY <1>1, <1>2, <1>3 DEF OldLimit, ScaleDownLimitForOld, Greater
<1>. QED
  BY <1>1, <1>2, <1>4

(* reconcileOldReplicaSets: first whatever is not ready, then by revision. *)
LEMMA ReconcileOldInTurn ==
  ASSUME NEW s, IsList(s), New \in DOMAIN s, NEW n \in Nat, NEW i \in 0 .. Len(Steps) - 1,
         AppendReallocates(Cardinality(Active(s, Olds)))
  PROVE  InTurn(s, ReconcileOld(s, n, i))
<1>. DEFINE olds == Active(s, Olds)
            most == Lesser(OldLimit(s, n, i, olds),
                           Total(s, Sets) - MinAvailable(n) - (s[New].size - s[New].ready))
            cleanup == CleanupUnhealthyReplicas(s, olds, most)
            c == Apply(s, cleanup, n)
            down == ScaleDownOld(c, n, i, olds)
            todo == ReconcileOld(s, n, i)
<1>1. /\ olds \in SUBSET (Olds \cap DOMAIN s) /\ olds \in SUBSET DOMAIN s
      /\ \A q \in Olds \cap DOMAIN s : s[q].size > 0 => q \in olds
  BY DEF Active
<1>2. \A r \in DOMAIN s : s[r].size \in Nat /\ s[r].ready \in Nat
  BY ListTyped
<1>3. ASSUME NEW x, IsList(x), New \in DOMAIN x
      PROVE  /\ OldLimit(x, n, i, olds) \in Int
             /\ Available(x, olds \cup {New}) - MinAvailable(n) \in Int
  BY <1>3, LimitsType
<1>4. most \in Int
  <2>1. Total(s, Sets) \in Int /\ MinAvailable(n) \in Int
    BY SumsType, MinAvailableType
  <2>2. OldLimit(s, n, i, olds) \in Int
    BY <1>3
  <2>. HIDE DEF olds
  <2>. QED
    BY <1>2, <2>1, <2>2 DEF Lesser
<1>5. \/ todo = <<>>
      \/ todo = cleanup
      \/ todo = cleanup \o down /\ \A j \in DOMAIN cleanup : cleanup[j].size # InvalidRequest
  <2>. HIDE DEF cleanup, down
  <2>. QED BY DEF ReconcileOld, cleanup, down, c
<1>6. PICK left :
        /\ left \in [DOMAIN s -> Nat]
        /\ \A r \in DOMAIN s : left[r] <= s[r].size
        /\ \A r \in DOMAIN s : left[r] >= Lesser(s[r].size, s[r].ready)
        /\ Takes(s, olds, cleanup, left)
  <2>. HIDE DEF most
  <2>. QED BY <1>4, CleanupTakes
<1>. HIDE DEF most, cleanup, olds
<1>7. PICK k \in Nat : Rows(cleanup, k)
  BY <1>6 DEF Takes
<1>8. DOMAIN cleanup = 1 .. k
  BY <1>7 DEF Rows
<1>9. ASSUME NEW j \in DOMAIN cleanup, cleanup[j].size \in Nat
      PROVE  ~(cleanup[j].size < s[cleanup[j].rs].ready)
  <2>. DEFINE r == cleanup[j].rs
  <2>1. r \in DOMAIN s /\ cleanup[j].size = left[r] /\ cleanup[j].size < s[r].size
    BY <1>1, <1>6, <1>9 DEF Takes, InvalidRequest
  <2>. HIDE DEF r
  <2>2. left[r] >= Lesser(s[r].size, s[r].ready) /\ s[r].size \in Nat /\ s[r].ready \in Nat
    BY <1>2, <1>6, <2>1
  <2>. QED
    BY <1>9, <2>1, <2>2 DEF Lesser, r
<1>10. CASE todo = <<>>
  BY <1>10 DEF InTurn
<1>11. CASE todo = cleanup
  BY <1>9, <1>11 DEF InTurn
<1>12. CASE todo = cleanup \o down /\ \A j \in DOMAIN cleanup : cleanup[j].size # InvalidRequest
  <2>1. /\ IsList(c) /\ DOMAIN c = DOMAIN s
        /\ \A r \in DOMAIN s : c[r].size = left[r] /\ c[r].ready = s[r].ready
    <3>1. HasSizes(c, s, left)
      BY <1>1, <1>6, <1>12, ApplyLeaves
    <3>. QED
      BY <3>1 DEF HasSizes
  <2>. HIDE DEF c
  <2>2. TakesByRevision(c, olds, down)
    <3>1. olds \in SUBSET (Olds \cap DOMAIN c)
      BY <1>1, <2>1
    <3>2. AppendReallocates(Cardinality(olds))
      BY DEF olds
    <3>. QED
      BY <1>3, <2>1, <3>1, <3>2, ScaleDownByRevision
  <2>. HIDE DEF down
  <2>3. PICK m \in Nat : Rows(down, m)
    BY <2>2 DEF TakesByRevision
  <2>4. Concatenates(todo, cleanup, down, k, m)
    BY <1>7, <1>12, <2>3, Concatenated
  <2>5. DOMAIN down = 1 .. m
    BY <2>3 DEF Rows
  <2>. HIDE DEF todo
  <2>6. /\ DOMAIN todo = 1 .. k + m
        /\ \A x \in 1 .. k : todo[x] = cleanup[x]
        /\ \A x \in 1 .. k + m : x \notin 1 .. k => x - k \in 1 .. m /\ todo[x] = down[x - k]
        /\ \A x \in 1 .. m : x + k \in 1 .. k + m /\ todo[x + k] = down[x]
    <3>1. /\ DOMAIN todo = 1 .. k + m
          /\ \A x \in 1 .. k : todo[x] = cleanup[x]
          /\ \A x \in 1 .. k + m : x \notin 1 .. k => x - k \in 1 .. m /\ todo[x] = down[x - k]
      BY <2>4 DEF Concatenates
    <3>2. \A x \in 1 .. m : x + k \in 1 .. k + m /\ x + k \notin 1 .. k /\ (x + k) - k = x
      OBVIOUS
    <3>3. \A x \in 1 .. m : x + k \in 1 .. k + m /\ todo[x + k] = down[(x + k) - k]
      BY <3>1, <3>2
    <3>4. \A x \in 1 .. m : todo[x + k] = down[x]
      BY <3>2, <3>3
    <3>. QED
      BY <3>1, <3>3, <3>4
  <2>7. ASSUME NEW x \in DOMAIN todo, NEW q \in Olds \cap DOMAIN s,
               todo[x].size \in Nat, todo[x].size < s[todo[x].rs].ready,
               Revision[q] > Revision[todo[x].rs], s[q].size > 0
        PROVE  \E j \in 1 .. x - 1 : todo[j].rs = q /\ todo[j].size = 0
    <3>1. x \notin 1 .. k
      BY <1>8, <1>9, <2>6, <2>7
    <3>2. x \in 1 .. k + m /\ x - k \in 1 .. m /\ todo[x] = down[x - k] /\ x > k
      BY <2>6, <3>1
    <3>3. q \in olds
      BY <1>1, <2>7
    <3>4. CASE left[q] = 0
      <4>1. PICK j \in DOMAIN cleanup : cleanup[j].rs = q /\ cleanup[j].size = 0
        BY <1>6, <2>7, <3>4 DEF Takes
      <4>2. j \in 1 .. x - 1 /\ todo[j] = cleanup[j]
        BY <1>8, <2>6, <3>2
      <4>. QED
        BY <4>1, <4>2
    <3>5. CASE left[q] # 0
      <4>1. c[q].size > 0
        BY <1>6, <2>1, <3>5
      <4>2. PICK j \in 1 .. (x - k) - 1 : down[j].rs = q /\ down[j].size = 0
        BY <2>2, <2>5, <2>7, <3>2, <3>3, <4>1 DEF TakesByRevision
      <4>3. j \in 1 .. m /\ j + k \in 1 .. x - 1
        BY <3>2
      <4>4. todo[j + k] = down[j]
        BY <2>6, <4>3
      <4>. QED
        BY <4>2, <4>3, <4>4
    <3>. QED
      BY <3>4, <3>5
  <2>8. InTurn(s, todo)
    BY <2>7 DEF InTurn
  <2>. QED
    BY <2>8 DEF todo
<1>. QED
  BY <1>5, <1>10, <1>11, <1>12

(* What is planned stays in turn, patch by patch.                          *)
LEMMA PatchKeepsTurn ==
  ASSUME NEW s, IsList(s), NEW todo, todo # <<>>, Head(todo).size \in Nat, NEW n \in Nat,
         OnlyOlds(s, todo), Shrinks(s, todo), InTurn(s, todo)
  PROVE  InTurn(Patched(s, Head(todo), n), Tail(todo))
<1>. DEFINE p == Head(todo)
            rest == Tail(todo)
            t == Patched(s, p, n)
            D == Range(todo)
<1>1. todo \in Seq(D) /\ \A q \in D : q.rs \in Olds \cap DOMAIN s
  BY DEF OnlyOlds
<1>. HIDE DEF D
<1>2. /\ p = todo[1] /\ 1 \in DOMAIN todo /\ p \in D
      /\ \A k \in DOMAIN rest : k \in Nat /\ k + 1 \in DOMAIN todo /\ rest[k] = todo[k + 1]
                                /\ rest[k] \in D
      /\ \A k \in DOMAIN rest : \A j \in 1 .. k - 1 : rest[j] = todo[j + 1]
  BY <1>1
<1>3. /\ p.rs \in DOMAIN s /\ p.size < s[p.rs].size /\ s[p.rs].size \in Nat
  <2>1. p.rs \in DOMAIN s
    BY <1>1, <1>2
  <2>2. todo[1].size < s[todo[1].rs].size
    <3>1. todo[1].size \in Nat
      BY <1>2
    <3>. QED
      BY <1>2, <3>1 DEF Shrinks
  <2>. QED
    BY <1>2, <2>1, <2>2, ListTyped
<1>4. /\ DOMAIN t = DOMAIN s
      /\ \A r \in DOMAIN s : /\ t[r].ready = s[r].ready
                             /\ r = p.rs => t[r].size = p.size
                             /\ r # p.rs => t[r] = s[r]
  <2>1. ResizesOne(Patched(s, p, n), s, p)
    BY PatchedResizes
  <2>. QED
    BY <2>1 DEF ResizesOne
<1>. HIDE DEF t, rest, p
<1>5. ASSUME NEW k \in DOMAIN rest, NEW q \in Olds \cap DOMAIN t,
             rest[k].size \in Nat, rest[k].size < t[rest[k].rs].ready,
             Revision[q] > Revision[rest[k].rs], t[q].size > 0
      PROVE  \E j \in 1 .. k - 1 : rest[j].rs = q /\ rest[j].size = 0
  <2>1. /\ k \in Nat /\ k + 1 \in DOMAIN todo /\ rest[k] = todo[k + 1]
        /\ rest[k].rs \in DOMAIN s /\ q \in Olds \cap DOMAIN s
    BY <1>1, <1>2, <1>4
  <2>2. s[q].size > 0
    <3>1. CASE q = p.rs
      BY <1>3, <3>1, <1>2, <2>1, <1>4, <1>5 DEF p
    <3>2. CASE q # p.rs
      BY <1>4, <1>5, <2>1, <3>2
    <3>. QED
      BY <3>1, <3>2
  <2>3. t[rest[k].rs].ready = s[rest[k].rs].ready
    BY <1>4, <2>1
  <2>4. \E j \in 1 .. (k + 1) - 1 : todo[j].rs = q /\ todo[j].size = 0
    <3>. DEFINE l == k + 1
    <3>1. /\ l \in DOMAIN todo /\ todo[l].size \in Nat /\ todo[l].size < s[todo[l].rs].ready
          /\ Revision[q] > Revision[todo[l].rs]
      BY <1>5, <2>1, <2>3
    <3>. HIDE DEF l
    <3>2. \E j \in 1 .. l - 1 : todo[j].rs = q /\ todo[j].size = 0
      BY <2>1, <2>2, <3>1 DEF InTurn
    <3>. QED
      BY <3>2 DEF l
  <2>5. PICK j \in 1 .. (k + 1) - 1 : todo[j].rs = q /\ todo[j].size = 0
    BY <2>4
  <2>6. j # 1
    BY <1>2, <1>4, <1>5, <2>1, <2>5
  <2>7. j - 1 \in 1 .. k - 1 /\ (j - 1) + 1 = j
    BY <2>1, <2>6
  <2>8. rest[j - 1] = todo[j]
    BY <1>2, <2>7
  <2>. QED
    BY <2>5, <2>7, <2>8
<1>6. InTurn(t, rest)
  BY <1>5 DEF InTurn
<1>. QED
  BY <1>6 DEF t, rest, p

(***************************************************************************)
(* No patch gives an old ReplicaSet replicas that has none                 *)
(***************************************************************************)
(* The order in which scale shares out: it exists.                         *)
LEMMA SharesSort ==
  ASSUME NEW s, IsList(s), NEW y \in Int, NEW z \in Int
  PROVE  LET S == Active(s, Sets)
         IN Lists(Sorted(S, LAMBDA a, b :
                    CASE y > 0 -> BySizeNewer(s, a, b)
                      [] y < 0 -> BySizeOlder(s, a, b)
                      [] y = 0 -> a # New /\ (b = New \/ (z > 0) = ByCreation(a, b))), S)
<1>. DEFINE S == Active(s, Sets)
            before(a, b) == CASE y > 0 -> BySizeNewer(s, a, b)
                              [] y < 0 -> BySizeOlder(s, a, b)
                              [] y = 0 -> a # New /\ (b = New \/ (z > 0) = ByCreation(a, b))
            list == Sorted(S, before)
            Sorts(R) == \E f \in [1 .. Cardinality(S) -> S] :
                          IsInjective(f) /\ \A i, j \in DOMAIN f : i < j => <<f[i], f[j]>> \in R
<1>1. S \in SUBSET Sets /\ \A x \in S : s[x].size \in Nat /\ Created[x] \in Nat
  <2>1. \A x \in S : x \in Sets /\ s[x].size \in Nat
    BY ListTyped DEF Active
  <2>. HIDE DEF S
  <2>. QED
    BY <2>1, OrderAssumption
<1>2. \A x, y_1 \in S : Created[x] = Created[y_1] => x = y_1
  BY <1>1, OrderAssumption DEF IsInjective
<1>3. IsFiniteSet(S)
  BY <1>1, SetsFinite
<1>. HIDE DEF S
<1>4. ASSUME y > 0
      PROVE  \E f \in [1 .. Cardinality(S) -> S] :
               IsInjective(f) /\ \A i, j \in DOMAIN f : i < j => before(f[i], f[j])
  <2>. DEFINE R == {e \in S \X S : BySizeNewer(s, e[1], e[2])}
  <2>1. \A a, b \in S : <<a, b>> \in R <=> BySizeNewer(s, a, b)
    OBVIOUS
  <2>. HIDE DEF R
  <2>2. \A a \in S : <<a, a>> \notin R
    BY <1>1, <2>1 DEF BySizeNewer
  <2>3. \A a, b \in S : a # b => <<a, b>> \in R \/ <<b, a>> \in R
    BY <1>1, <1>2, <2>1 DEF BySizeNewer
  <2>4. \A a, b, c \in S : <<a, b>> \in R /\ <<b, c>> \in R => <<a, c>> \in R
    BY <1>1, <2>1 DEF BySizeNewer
  <2>5. Sorts(R)
    BY <1>3, <2>2, <2>3, <2>4, RelationSorts
  <2>6. ~(y < 0) /\ y # 0
    BY <1>4
  <2>7. \A a, b \in S : <<a, b>> \in R => before(a, b)
    <3>. SUFFICES ASSUME NEW a \in S, NEW b \in S, <<a, b>> \in R
                  PROVE  before(a, b)
      BY Zenon
    <3>1. BySizeNewer(s, a, b)
      BY <2>1
    <3>. QED
      BY <1>4, <2>6, <3>1 DEF BySizeNewer, BySizeOlder, ByCreation
  <2>. HIDE DEF before
  <2>. QED
    BY <2>5, <2>7
<1>5. ASSUME y < 0
      PROVE  \E f \in [1 .. Cardinality(S) -> S] :
               IsInjective(f) /\ \A i, j \in DOMAIN f : i < j => before(f[i], f[j])
  <2>. DEFINE R == {e \in S \X S : BySizeOlder(s, e[1], e[2])}
  <2>1. \A a, b \in S : <<a, b>> \in R <=> BySizeOlder(s, a, b)
    OBVIOUS
  <2>. HIDE DEF R
  <2>2. \A a \in S : <<a, a>> \notin R
    BY <1>1, <2>1 DEF BySizeOlder
  <2>3. \A a, b \in S : a # b => <<a, b>> \in R \/ <<b, a>> \in R
    BY <1>1, <1>2, <2>1 DEF BySizeOlder
  <2>4. \A a, b, c \in S : <<a, b>> \in R /\ <<b, c>> \in R => <<a, c>> \in R
    BY <1>1, <2>1 DEF BySizeOlder
  <2>5. Sorts(R)
    BY <1>3, <2>2, <2>3, <2>4, RelationSorts
  <2>6. ~(y > 0)
    BY <1>5
  <2>7. \A a, b \in S : <<a, b>> \in R => before(a, b)
    BY <1>5, <2>1, <2>6
  <2>. HIDE DEF before
  <2>. QED
    BY <2>5, <2>7
<1>6. ASSUME y = 0
      PROVE  \E f \in [1 .. Cardinality(S) -> S] :
               IsInjective(f) /\ \A i, j \in DOMAIN f : i < j => before(f[i], f[j])
  <2>. DEFINE Earlier(a, b) == IF z > 0 THEN Created[a] < Created[b] ELSE Created[a] > Created[b]
              R == {e \in S \X S : e[1] # New /\ (e[2] = New \/ Earlier(e[1], e[2]))}
  <2>1. \A a, b \in S : <<a, b>> \in R <=> a # New /\ (b = New \/ Earlier(a, b))
    OBVIOUS
  <2>2. /\ \A a \in S : ~Earlier(a, a)
        /\ \A a, b \in S : a # b => Earlier(a, b) \/ Earlier(b, a)
        /\ \A a, b, c \in S : Earlier(a, b) /\ Earlier(b, c) => Earlier(a, c)
        /\ \A a, b \in S : Earlier(a, b) => (z > 0) = (Created[a] < Created[b])
    BY <1>1, <1>2
  <2>. HIDE DEF R, Earlier
  <2>3. \A a \in S : <<a, a>> \notin R
    BY <2>1, <2>2
  <2>4. \A a, b \in S : a # b => <<a, b>> \in R \/ <<b, a>> \in R
    BY <2>1, <2>2
  <2>5. \A a, b, c \in S : <<a, b>> \in R /\ <<b, c>> \in R => <<a, c>> \in R
    BY <2>1, <2>2
  <2>6. Sorts(R)
    BY <1>3, <2>3, <2>4, <2>5, RelationSorts
  <2>7. ~(y > 0) /\ ~(y < 0)
    BY <1>6
  <2>8. \A a, b \in S : <<a, b>> \in R => a # New /\ (b = New \/ (z > 0) = ByCreation(a, b))
    BY <2>1, <2>2 DEF ByCreation
  <2>9. \A a, b \in S : <<a, b>> \in R => before(a, b)
    BY <1>6, <2>7, <2>8
  <2>. HIDE DEF before
  <2>. QED
    BY <2>6, <2>9
<1>7. list \in [1 .. Cardinality(S) -> S] /\ IsInjective(list)
  <2>. HIDE DEF before
  <2>1. y > 0 \/ y < 0 \/ y = 0
    OBVIOUS
  <2>2. \E f \in [1 .. Cardinality(S) -> S] :
          IsInjective(f) /\ \A i, j \in DOMAIN f : i < j => before(f[i], f[j])
    BY <1>4, <1>5, <1>6, <2>1, Zenon
  <2>. QED
    BY <2>2 DEF Sorted
<1>. HIDE DEF list
<1>8. Lists(list, S)
  BY <1>3, <1>7, ListsAll
<1>. QED
  BY <1>8 DEF S, list

LEMMA TakesStartNone ==
  ASSUME NEW s, IsList(s), NEW S \in SUBSET DOMAIN s, NEW todo, NEW left, Takes(s, S, todo, left)
  PROVE  StartsNone(s, todo)
<1>1. ASSUME NEW i \in DOMAIN todo, todo[i].size \in Nat
      PROVE  s[todo[i].rs].size > 0
  <2>1. todo[i].size # InvalidRequest
    BY <1>1 DEF InvalidRequest
  <2>2. todo[i].size < s[todo[i].rs].size /\ todo[i].rs \in DOMAIN s
    BY <2>1 DEF Takes
  <2>3. s[todo[i].rs].size \in Nat
    BY <2>2, ListTyped
  <2>. QED
    BY <1>1, <2>2, <2>3
<1>2. PICK m \in Nat : Rows(todo, m)
  BY DEF Takes
<1>3. DOMAIN todo = 1 .. m
  BY <1>2 DEF Rows
<1>4. ASSUME NEW i \in DOMAIN todo, NEW j \in 1 .. i - 1, todo[j].rs = todo[i].rs
      PROVE  FALSE
  <2>1. j \in DOMAIN todo /\ j # i
    BY <1>3
  <2>. QED
    BY <1>4, <2>1 DEF Takes
<1>5. todo \in Seq(Range(todo))
  BY <1>2, RowsAreList
<1>. QED
  BY <1>1, <1>4, <1>5 DEF StartsNone

(* One patch after the other.                                              *)
LEMMA SharesStartNone ==
  ASSUME NEW s, IsList(s), NEW S \in SUBSET DOMAIN s, NEW cleanup,
         NEW left \in [DOMAIN s -> Nat], Takes(s, S, cleanup, left),
         \A r \in DOMAIN s : left[r] <= s[r].size,
         \A i \in DOMAIN cleanup : cleanup[i].size # InvalidRequest,
         NEW A, \A r \in A : r \in DOMAIN s /\ left[r] > 0,
         NEW list, Lists(list, A), NEW shares,
         DOMAIN shares = 1 .. Cardinality(A), \A i \in DOMAIN shares : shares[i].rs = list[i],
         NEW keep \in SUBSET DOMAIN shares
  PROVE  StartsNone(s, cleanup \o Selected(shares, keep))
<1>. DEFINE N == Cardinality(A)
            given == Selected(shares, keep)
            todo == cleanup \o given
<1>1. /\ N \in Nat /\ \A i \in 1 .. N : list[i] \in A
      /\ \A i, j \in 1 .. N : list[i] = list[j] => i = j
  BY DEF Lists
<1>2. PICK k \in Nat : Rows(cleanup, k)
  BY DEF Takes
<1>3. PICK m \in Nat : \E place \in [1 .. m -> keep] :
        /\ given = [x \in 1 .. m |-> shares[place[x]]]
        /\ \A i, j \in 1 .. m : i < j => place[i] < place[j]
  <2>1. N \in Nat /\ keep \in SUBSET (1 .. N)
    BY <1>1
  <2>. HIDE DEF N, given
  <2>2. Selects(Selected(shares, keep), shares, keep)
    BY <2>1, SelectedSelects
  <2>. QED
    BY <2>2 DEF Selects, given
<1>4. PICK place \in [1 .. m -> keep] :
        /\ given = [x \in 1 .. m |-> shares[place[x]]]
        /\ \A i, j \in 1 .. m : i < j => place[i] < place[j]
  BY <1>3
<1>. HIDE DEF N, given
<1>5. Rows(given, m)
  BY <1>4 DEF Rows
<1>6. Concatenates(todo, cleanup, given, k, m)
  BY <1>2, <1>5, Concatenated
<1>. HIDE DEF todo
<1>7. /\ DOMAIN todo = 1 .. k + m /\ DOMAIN cleanup = 1 .. k
      /\ \A i \in 1 .. k : todo[i] = cleanup[i]
      /\ \A i \in 1 .. k + m : i \notin 1 .. k => i - k \in 1 .. m /\ todo[i] = given[i - k]
  BY <1>2, <1>6 DEF Concatenates, Rows
<1>8. ASSUME NEW x \in 1 .. m
      PROVE  /\ place[x] \in 1 .. N /\ given[x].rs = list[place[x]]
             /\ given[x].rs \in A
  BY <1>1, <1>4 DEF N
<1>9. StartsNone(s, cleanup)
  BY TakesStartNone
<1>10. ASSUME NEW i \in DOMAIN todo, todo[i].size \in Nat, todo[i].rs \in Olds
       PROVE  /\ s[todo[i].rs].size > 0
              /\ \A j \in 1 .. i - 1 : todo[j].rs = todo[i].rs => todo[j].size # 0
  <2>1. CASE i \in 1 .. k
    <3>1. /\ todo[i] = cleanup[i] /\ i \in DOMAIN cleanup
          /\ \A j \in 1 .. i - 1 : todo[j] = cleanup[j]
      BY <1>7, <2>1
    <3>. QED
      BY <1>9, <1>10, <3>1 DEF StartsNone
  <2>2. CASE i \notin 1 .. k
    <3>. DEFINE x == i - k
                r == todo[i].rs
    <3>1. x \in 1 .. m /\ todo[i] = given[x]
      BY <1>7, <2>2
    <3>2. r \in A /\ r = list[place[x]] /\ place[x] \in 1 .. N
      BY <1>8, <3>1
    <3>3. r \in DOMAIN s /\ left[r] > 0 /\ left[r] <= s[r].size /\ s[r].size \in Nat /\ left[r] \in Nat
      <4>. HIDE DEF r
      <4>1. r \in DOMAIN s
        BY <3>2
      <4>. QED
        BY <3>2, <4>1, ListTyped
    <3>4. s[r].size > 0
      <4>. HIDE DEF r
      <4>. QED BY <3>3
    <3>5. ASSUME NEW j \in 1 .. i - 1, todo[j].rs = r PROVE todo[j].size # 0
      <4>1. CASE j \in 1 .. k
        <5>1. todo[j] = cleanup[j] /\ j \in DOMAIN cleanup
          BY <1>7, <4>1
        <5>2. cleanup[j].size = left[r]
          BY <3>5, <5>1 DEF Takes
        <5>. HIDE DEF r
        <5>. QED
          BY <3>3, <5>1, <5>2
      <4>2. CASE j \notin 1 .. k
        <5>. DEFINE z == j - k
        <5>1. j \in 1 .. k + m /\ i \in 1 .. k + m /\ j < i
          BY <1>7
        <5>2. z \in 1 .. m /\ todo[j] = given[z] /\ z < x
          BY <1>7, <4>2, <5>1
        <5>3. list[place[z]] = r /\ place[z] \in 1 .. N
          BY <1>8, <3>5, <5>2
        <5>. HIDE DEF z, x, r
        <5>4. place[z] = place[x]
          BY <1>1, <3>2, <5>3 DEF N
        <5>5. place[z] < place[x]
          BY <1>4, <3>1, <5>2
        <5>. QED
          BY <3>2, <5>3, <5>4, <5>5
      <4>. QED
        BY <4>1, <4>2
    <3>. QED
      BY <3>4, <3>5
  <2>. QED
    BY <2>1, <2>2
<1>11. todo \in Seq(Range(todo))
  <2>1. Rows(todo, k + m) /\ k + m \in Nat
    BY <1>6 DEF Concatenates
  <2>. QED
    BY <2>1, RowsAreList
<1>12. StartsNone(s, todo)
  BY <1>10, <1>11 DEF StartsNone
<1>. QED
  BY <1>12 DEF todo, given

(* scale cleans up unhealthy replicas, and shares out the rest among those *)
(* that have some left.                                                    *)
LEMMA ProportionallyStartsNone ==
  ASSUME NEW s, IsList(s), NEW n \in Nat
  PROVE  StartsNone(s, ScaleProportionally(s, n))
<1>. DEFINE surplus == Total(s, Sets) - n
            olds == Olds \cap DOMAIN s
            cleanup == IF surplus > 0 THEN CleanupUnhealthyReplicas(s, olds, surplus) ELSE <<>>
            cleaned == Apply(s, cleanup, n)
            toAdd == n - Total(cleaned, Sets)
            A == Active(cleaned, Sets)
            list == Sorted(A, LAMBDA a, b :
                      CASE toAdd > 0 -> BySizeNewer(cleaned, a, b)
                        [] toAdd < 0 -> BySizeOlder(cleaned, a, b)
                        [] toAdd = 0 -> a # New /\ (b = New \/ (surplus > 0) = ByCreation(a, b)))
            shares == Proportional(cleaned, n, list, toAdd)
            keep == {i \in DOMAIN shares : NeedsPatch(cleaned[shares[i].rs], shares[i], n)}
<1>1. surplus \in Int
  BY SumsType
<1>2. \E left \in [DOMAIN s -> Nat] :
        /\ \A r \in DOMAIN s : left[r] <= s[r].size
        /\ Takes(s, olds, cleanup, left)
  <2>1. CASE surplus > 0
    <3>. DEFINE share == [r \in olds |-> IF s[r].size = 0 THEN 0 ELSE s[r].size - s[r].ready]
                row == Sorted(olds, ByCreation)
    <3>1. cleanup = TakeAway(s, row, surplus, share)
      BY <2>1 DEF CleanupUnhealthyReplicas
    <3>2. olds \in SUBSET DOMAIN s /\ olds \in SUBSET Sets
      BY DEF Sets
    <3>3. \A r \in DOMAIN s : s[r].size \in Nat /\ s[r].ready \in Nat
      BY ListTyped
    <3>4. \A r \in olds : share[r] \in Int /\ share[r] <= s[r].size
      BY <3>2, <3>3
    <3>5. Lists(row, olds)
      <4>. HIDE DEF olds
      <4>. QED BY <3>2, CreationSorts
    <3>. HIDE DEF share, row, olds, surplus, cleanup
    <3>6. PICK left : Leaves(s, olds, left, surplus, share) /\ Takes(s, olds, cleanup, left)
      BY <1>1, <3>1, <3>2, <3>4, <3>5, TakeAwayTakes
    <3>. QED
      BY <3>6 DEF Leaves
  <2>2. CASE ~(surplus > 0)
    <3>. DEFINE left == [r \in DOMAIN s |-> s[r].size]
    <3>1. \A r \in DOMAIN s : s[r].size \in Nat
      BY ListTyped
    <3>2. cleanup = <<>>
      BY <2>2
    <3>3. left \in [DOMAIN s -> Nat] /\ \A r \in DOMAIN s : left[r] = s[r].size
      BY <3>1
    <3>. HIDE DEF left, olds
    <3>4. Takes(s, olds, <<>>, left)
      BY <3>1, <3>3, EmptyTakes
    <3>5. \A r \in DOMAIN s : left[r] <= s[r].size
      BY <3>1, <3>3
    <3>. HIDE DEF cleanup
    <3>. QED
      BY <3>2, <3>3, <3>4, <3>5
  <2>. QED
    BY <2>1, <2>2
<1>3. PICK left \in [DOMAIN s -> Nat] :
        /\ \A r \in DOMAIN s : left[r] <= s[r].size
        /\ Takes(s, olds, cleanup, left)
  BY <1>2
<1>4. olds \in SUBSET DOMAIN s
  OBVIOUS
<1>5. ScaleProportionally(s, n) =
        IF \E i \in DOMAIN cleanup : cleanup[i].size = InvalidRequest THEN cleanup
        ELSE cleanup \o Selected(shares, keep)
  BY DEF ScaleProportionally
<1>. HIDE DEF cleanup, olds
<1>6. CASE \E i \in DOMAIN cleanup : cleanup[i].size = InvalidRequest
  <2>1. ScaleProportionally(s, n) = cleanup
    BY <1>5, <1>6
  <2>. QED
    BY <1>3, <1>4, <2>1, TakesStartNone
<1>7. CASE ~ \E i \in DOMAIN cleanup : cleanup[i].size = InvalidRequest
  <2>1. HasSizes(cleaned, s, left)
    BY <1>3, <1>4, <1>7, ApplyLeaves
  <2>. HIDE DEF cleaned
  <2>2. IsList(cleaned) /\ DOMAIN cleaned = DOMAIN s /\ \A r \in DOMAIN s : cleaned[r].size = left[r]
    BY <2>1 DEF HasSizes
  <2>3. toAdd \in Int
    BY <2>2, SumsType
  <2>. HIDE DEF surplus, toAdd
  <2>4. Lists(list, A)
    BY <1>1, <2>2, <2>3, SharesSort
  <2>5. \A r \in A : r \in DOMAIN s /\ left[r] > 0
    BY <2>2 DEF Active
  <2>. HIDE DEF A, list
  <2>6. list \in [1 .. Cardinality(A) -> A] /\ Cardinality(A) \in Nat
    BY <2>4 DEF Lists
  <2>7. DOMAIN shares = 1 .. Cardinality(A) /\ \A i \in DOMAIN shares : shares[i].rs = list[i]
    <3>1. Len(list) = Cardinality(A)
      BY <2>6
    <3>. QED
      BY <3>1 DEF Proportional, Patch
  <2>8. keep \in SUBSET DOMAIN shares
    OBVIOUS
  <2>. HIDE DEF shares, keep
  <2>9. StartsNone(s, cleanup \o Selected(shares, keep))
    BY <1>3, <1>4, <1>7, <2>4, <2>5, <2>7, <2>8, SharesStartNone
  <2>10. ScaleProportionally(s, n) = cleanup \o Selected(shares, keep)
    BY <1>5, <1>7
  <2>. QED
    BY <2>9, <2>10
<1>. QED
  BY <1>6, <1>7

LEMMA SingleStartsNone ==
  ASSUME NEW s, NEW p, p.rs \in Olds => s[p.rs].size > 0
  PROVE  StartsNone(s, <<>>) /\ StartsNone(s, <<p>>) /\ StartsNone(s, PatchIfResized(s, p))
<1>1. StartsNone(s, <<>>)
  BY DEF StartsNone
<1>2. StartsNone(s, <<p>>)
  <2>. DEFINE todo == <<p>>
  <2>1. DOMAIN todo = {1} /\ todo[1] = p /\ todo \in Seq({p})
    OBVIOUS
  <2>2. 1 .. 1 - 1 = {}
    OBVIOUS
  <2>. HIDE DEF todo
  <2>3. Range(todo) = {p}
    BY <2>1 DEF Range
  <2>4. StartsNone(s, todo)
    BY <2>1, <2>2, <2>3 DEF StartsNone
  <2>. QED
    BY <2>4 DEF todo
<1>. QED
  BY <1>1, <1>2 DEF PatchIfResized

(* A scaling event is one of an active ReplicaSet.                         *)
LEMMA ScaleStartsNone ==
  ASSUME NEW s, IsList(s), NEW n \in Nat, IsScalingEvent(s, n)
  PROVE  StartsNone(s, Scale(s, n))
<1>. DEFINE only == FindActiveOrLatest(s)
            A == Active(s, Sets)
<1>1. A # {} /\ IsFiniteSet(A)
  <2>1. A \in SUBSET DOMAIN s
    BY DEF Active
  <2>. QED
    BY <2>1, ListTyped DEF IsScalingEvent
<1>2. CASE only # {}
  <2>. DEFINE r == CHOOSE x \in only : TRUE
  <2>1. r \in A
    <3>1. Cardinality(A) # 0
      BY <1>1, FS_EmptySet
    <3>2. only = A
      BY <1>2, <3>1 DEF FindActiveOrLatest
    <3>. HIDE DEF A, only
    <3>. QED
      BY <1>1, <3>2
  <2>2. s[r].size > 0
    <3>. HIDE DEF r
    <3>. QED BY <2>1 DEF Active
  <2>3. Scale(s, n) = PatchIfResized(s, Patch(r, n))
    BY <1>2 DEF Scale
  <2>. HIDE DEF r
  <2>4. Patch(r, n).rs = r
    BY DEF Patch
  <2>. QED
    BY <2>2, <2>3, <2>4, SingleStartsNone
<1>3. CASE only = {} /\ IsSaturated(s, n)
  <2>. DEFINE S == Active(s, Olds)
              row == Sorted(S, ByCreation)
              olds == Reverse(row)
  <2>1. S \in SUBSET Sets /\ \A x \in S : s[x].size > 0
    BY DEF Active, Sets
  <2>2. Scale(s, n) = [i \in DOMAIN olds |-> Patch(olds[i], 0)]
    BY <1>3 DEF Scale
  <2>. HIDE DEF S
  <2>3. Lists(row, S)
    BY <2>1, CreationSorts
  <2>. HIDE DEF row
  <2>. DEFINE N == Cardinality(S)
  <2>4. /\ N \in Nat /\ row \in [1 .. N -> S]
        /\ \A i, j \in 1 .. N : row[i] = row[j] => i = j
    BY <2>3 DEF Lists
  <2>. HIDE DEF N
  <2>5. Len(row) = N
    BY <2>4
  <2>6. olds = [i \in 1 .. N |-> row[(N - i) + 1]]
    BY <2>5 DEF Reverse
  <2>. HIDE DEF olds
  <2>7. /\ DOMAIN olds = 1 .. N
        /\ \A i \in 1 .. N : (N - i) + 1 \in 1 .. N /\ olds[i] = row[(N - i) + 1] /\ olds[i] \in S
    BY <2>4, <2>6
  <2>8. \A i, j \in 1 .. N : olds[i] = olds[j] => i = j
    <3>. TAKE i, j \in 1 .. N
    <3>1. HAVE olds[i] = olds[j]
    <3>2. (N - i) + 1 = (N - j) + 1
      BY <2>4, <2>7, <3>1
    <3>. QED
      BY <2>4, <3>2
  <2>. DEFINE todo == [i \in DOMAIN olds |-> Patch(olds[i], 0)]
  <2>9. /\ DOMAIN todo = 1 .. N /\ \A i \in 1 .. N : todo[i].rs = olds[i]
        /\ Rows(todo, N)
    BY <2>7 DEF Patch, Rows
  <2>. HIDE DEF todo
  <2>10. StartsNone(s, todo)
    <3>1. ASSUME NEW i \in 1 .. N PROVE s[todo[i].rs].size > 0
      BY <2>1, <2>7, <2>9
    <3>2. ASSUME NEW i \in 1 .. N, NEW j \in 1 .. i - 1, todo[j].rs = todo[i].rs PROVE FALSE
      <4>1. j \in 1 .. N /\ j # i
        BY <2>4
      <4>. QED
        BY <2>8, <2>9, <3>2, <4>1
    <3>3. todo \in Seq(Range(todo))
      BY <2>4, <2>9, RowsAreList
    <3>. QED
      BY <2>9, <3>1, <3>2, <3>3 DEF StartsNone
  <2>. QED
    BY <2>2, <2>10 DEF todo
<1>4. CASE only = {} /\ ~IsSaturated(s, n)
  <2>1. Scale(s, n) = ScaleProportionally(s, n)
    BY <1>4 DEF Scale
  <2>. QED
    BY <2>1, ProportionallyStartsNone
<1>. QED
  BY <1>2, <1>3, <1>4

(* stepByStep: the new ReplicaSet, one that is active, or old ones that    *)
(* lose some.                                                              *)
LEMMA StageStartsNone ==
  ASSUME Reallocates, NEW s, IsList(s), New \in DOMAIN s, NEW n \in Nat,
         NEW i \in 0 .. Len(Steps) - 1
  PROVE  StartsNone(s, UpgradeStage(s, n, i).todo)
<1>. DEFINE stage == UpgradeStage(s, n, i)
            todo == stage.todo
            olds == Active(s, Olds)
<1>1. \/ stage.pc = "new" /\ todo = ReconcileNew(s, n, i)
      \/ stage.pc = "up" /\ todo = <<>>
      \/ stage.pc = "up" /\ olds # {} /\ todo = ScaleUpOld(s, n, i)
      \/ stage.pc = "down"
  BY StageCases
<1>2. CASE todo = ReconcileNew(s, n, i)
  <2>1. PICK k : todo = PatchIfResized(s, Patch(New, k))
    BY <1>2 DEF ReconcileNew
  <2>2. Patch(New, k).rs = New /\ New \notin Olds
    BY SetsAssumption DEF Patch
  <2>. QED
    BY <2>1, <2>2, SingleStartsNone
<1>3. CASE todo = <<>>
  <2>1. StartsNone(s, <<>>)
    BY DEF StartsNone
  <2>. QED
    BY <1>3, <2>1
<1>4. CASE olds # {} /\ todo = ScaleUpOld(s, n, i)
  <2>. DEFINE target == Sorted(olds, LAMBDA a, b : BySizeOlder(s, a, b))[1]
              size == s[target].size - OldLimit(s, n, i, olds)
  <2>1. target \in olds
    BY <1>4, BiggestIsActive
  <2>2. todo = PatchIfResized(s, Patch(target, size))
    BY <1>4 DEF ScaleUpOld
  <2>. HIDE DEF target, size
  <2>3. s[target].size > 0
    BY <2>1 DEF Active
  <2>4. Patch(target, size).rs = target
    BY DEF Patch
  <2>. QED
    BY <2>2, <2>3, <2>4, SingleStartsNone
<1>5. CASE stage.pc = "down"
  <2>1. PlanKeeps(s, todo, n, i)
    BY <1>5, UpgradeStageKeeps
  <2>. HIDE DEF stage, todo
  <2>2. OnlyOlds(s, todo) /\ Shrinks(s, todo)
    BY <2>1 DEF PlanKeeps
  <2>3. \A j \in DOMAIN todo : todo[j].rs \in DOMAIN s /\ s[todo[j].rs].size \in Nat
    <3>1. \A j \in DOMAIN todo : todo[j].rs \in DOMAIN s
      BY <2>2 DEF OnlyOlds, Range
    <3>. QED
      BY <3>1, ListTyped
  <2>4. ASSUME NEW j \in DOMAIN todo, todo[j].size \in Nat PROVE s[todo[j].rs].size > 0
    <3>1. todo[j].size < s[todo[j].rs].size
      BY <2>2, <2>4 DEF Shrinks
    <3>. QED
      BY <2>3, <2>4, <3>1
  <2>5. ASSUME NEW j \in DOMAIN todo, todo[j].size \in Nat, NEW k \in 1 .. j - 1,
               todo[k].rs = todo[j].rs, todo[k].size = 0
        PROVE  FALSE
    <3>1. todo[k].size \in Nat
      BY <2>5
    <3>2. todo[j].size < todo[k].size
      BY <2>2, <2>5, <3>1 DEF Shrinks
    <3>. QED
      BY <2>5, <3>2
  <2>6. StartsNone(s, todo)
    BY <2>2, <2>4, <2>5 DEF StartsNone, OnlyOlds
  <2>. QED
    BY <2>6 DEF todo, stage
<1>. QED
  BY <1>1, <1>2, <1>3, <1>4, <1>5

(* A patch gives no old ReplicaSet replicas that has none, neither what is *)
(* there (s) nor what a list shows (l).                                    *)
LEMMA PatchKeepsFresh ==
  ASSUME NEW s, IsList(s), Olds \subseteq DOMAIN s, NEW l, FreshAlone(s, l),
         NEW p, p.size \in Nat, p.rs \in Olds => s[p.rs].size > 0, NEW n \in Nat
  PROVE  FreshAlone(Patched(s, p, n), l)
<1>. DEFINE t == Patched(s, p, n)
<1>1. ResizesOne(t, s, p)
  BY PatchedResizes
<1>. HIDE DEF t
<1>2. DOMAIN t = DOMAIN s /\ \A r \in DOMAIN s : r # p.rs => t[r] = s[r]
  BY <1>1 DEF ResizesOne
<1>3. ASSUME NEW q \in Olds, l[q].size = 0, t[q].size > 0, NEW r \in Olds \ {q}
      PROVE  t[r].size = 0
  <2>1. s[q].size > 0
    BY <1>2, <1>3
  <2>2. s[r].size = 0
    BY <1>3, <2>1 DEF FreshAlone
  <2>3. r # p.rs
    BY <1>3, <2>2
  <2>. QED
    BY <1>2, <2>2, <2>3
<1>4. FreshAlone(t, l)
  BY <1>2, <1>3 DEF FreshAlone
<1>. QED
  BY <1>4 DEF t

LEMMA BothKeepFresh ==
  ASSUME NEW s, IsList(s), Olds \subseteq DOMAIN s,
         NEW l, IsList(l), Olds \subseteq DOMAIN l, FreshAlone(s, l),
         NEW p, p.size \in Nat, p.rs \in Olds => s[p.rs].size > 0, NEW n \in Nat
  PROVE  FreshAlone(Patched(s, p, n), Patched(l, p, n))
<1>. DEFINE t == Patched(s, p, n)
            u == Patched(l, p, n)
<1>1. ResizesOne(t, s, p) /\ ResizesOne(u, l, p) /\ FreshAlone(t, l)
  BY PatchKeepsFresh, PatchedResizes
<1>. HIDE DEF t, u
<1>2. /\ DOMAIN t = DOMAIN s
      /\ \A r \in Olds : r # p.rs => u[r] = l[r]
      /\ \A r \in Olds : r = p.rs => t[r].size = u[r].size
  BY <1>1 DEF ResizesOne
<1>3. ASSUME NEW q \in Olds, u[q].size = 0, t[q].size > 0
      PROVE  l[q].size = 0
  <2>1. q # p.rs
    BY <1>2, <1>3
  <2>. QED
    BY <1>2, <1>3, <2>1
<1>4. FreshAlone(t, u)
  BY <1>1, <1>3 DEF FreshAlone
<1>. QED
  BY <1>4 DEF t, u

(* The rest of the patches does not either.                                *)
LEMMA RestStartsNone ==
  ASSUME NEW l, IsList(l), Olds \subseteq DOMAIN l, NEW todo, todo # <<>>,
         StartsNone(l, todo), Head(todo).size \in Nat, NEW n \in Nat
  PROVE  /\ Head(todo).rs \in Olds => l[Head(todo).rs].size > 0
         /\ StartsNone(Patched(l, Head(todo), n), Tail(todo))
<1>. DEFINE p == Head(todo)
            u == Patched(l, p, n)
            rest == Tail(todo)
<1>1. /\ p = todo[1] /\ 1 \in DOMAIN todo /\ rest \in Seq(Range(rest))
      /\ \A i \in DOMAIN rest : /\ i + 1 \in DOMAIN todo /\ rest[i] = todo[i + 1] /\ i \in Nat
                                 /\ \A j \in 1 .. i - 1 : rest[j] = todo[j + 1]
  <2>. DEFINE D == Range(todo)
  <2>1. todo \in Seq(D)
    BY DEF StartsNone
  <2>. HIDE DEF D
  <2>2. rest \in Seq(D) /\ Len(rest) = Len(todo) - 1 /\ Len(todo) \in Nat /\ Len(todo) > 0
    BY <2>1
  <2>3. \A i \in 1 .. Len(rest) : rest[i] = todo[i + 1]
    BY <2>1
  <2>4. p = todo[1] /\ DOMAIN todo = 1 .. Len(todo)
    BY <2>1
  <2>. HIDE DEF p, rest
  <2>5. DOMAIN rest = 1 .. Len(rest) /\ Rows(rest, Len(rest)) /\ Len(rest) \in Nat
    BY <2>2 DEF Rows
  <2>6. rest \in Seq(Range(rest))
    BY <2>5, RowsAreList
  <2>. QED
    BY <2>2, <2>3, <2>4, <2>5, <2>6
<1>2. ResizesOne(u, l, p)
  BY PatchedResizes
<1>3. p.rs \in Olds => l[p.rs].size > 0
  BY <1>1 DEF StartsNone
<1>. HIDE DEF p, u, rest
<1>4. /\ \A r \in Olds : r # p.rs => u[r] = l[r]
      /\ \A r \in Olds : r = p.rs => u[r].size = p.size
  BY <1>2 DEF ResizesOne
<1>5. ASSUME NEW i \in DOMAIN rest, rest[i].size \in Nat, rest[i].rs \in Olds
      PROVE  /\ u[rest[i].rs].size > 0
             /\ \A j \in 1 .. i - 1 : rest[j].rs = rest[i].rs => rest[j].size # 0
  <2>. DEFINE k == i + 1
  <2>1. /\ k \in DOMAIN todo /\ rest[i] = todo[k] /\ 1 \in 1 .. k - 1
        /\ \A j \in 1 .. i - 1 : rest[j] = todo[j + 1] /\ j + 1 \in 1 .. k - 1
    BY <1>1, <1>5
  <2>. HIDE DEF k
  <2>2. /\ l[todo[k].rs].size > 0
        /\ \A j \in 1 .. k - 1 : todo[j].rs = todo[k].rs => todo[j].size # 0
    BY <1>5, <2>1 DEF StartsNone
  <2>3. CASE rest[i].rs = p.rs
    <3>1. p.size # 0 /\ p.size \in Nat
      BY <1>1, <2>1, <2>2, <2>3 DEF p
    <3>2. u[rest[i].rs].size = p.size
      BY <1>4, <1>5, <2>3
    <3>. QED
      BY <2>1, <2>2, <3>1, <3>2
  <2>4. CASE rest[i].rs # p.rs
    BY <1>4, <1>5, <2>1, <2>2, <2>4
  <2>. QED
    BY <2>3, <2>4
<1>6. StartsNone(u, rest)
  BY <1>1, <1>5 DEF StartsNone
<1>. QED
  BY <1>3, <1>6 DEF p, u, rest

LEMMA OrderIs ==
  OrderInductive <=>
    /\ FreshAlone(rs, cache.rs)
    /\ pc # "idle" => FreshAlone(rs, rec.rs) /\ StartsNone(rec.rs, rec.todo)
    /\ pc = "down" => InTurn(rec.rs, rec.todo)
BY DEF OrderInductive

LEMMA OrderIsNext ==
  OrderInductive' <=>
    /\ FreshAlone(rs', cache'.rs)
    /\ pc' # "idle" => FreshAlone(rs', rec'.rs) /\ StartsNone(rec'.rs, rec'.todo)
    /\ pc' = "down" => InTurn(rec'.rs, rec'.todo)
BY DEF OrderInductive

LEMMA FreshSelf ==
  ASSUME NEW s
  PROVE  FreshAlone(s, s) /\ StartsNone(s, <<>>)
<1>1. FreshAlone(s, s)
  BY DEF FreshAlone
<1>2. StartsNone(s, <<>>)
  BY DEF StartsNone
<1>. QED
  BY <1>1, <1>2

LEMMA OrderInit == Init => OrderInductive
<1>. SUFFICES ASSUME Init PROVE OrderInductive
  OBVIOUS
<1>1. pc = "idle" /\ cache = Copied(rs, 0)
  <2>1. CASE \E size : cache = Copied(rs, 0)
    BY <2>1 DEF Init
  <2>. QED
    BY <2>1 DEF Init
<1>2. cache.rs = rs
  BY <1>1 DEF Copied
<1>. QED
  BY <1>1, <1>2, FreshSelf, OrderIs

LEMMA StageInTurn ==
  ASSUME Reallocates, NEW s, IsList(s), New \in DOMAIN s, NEW n \in Nat,
         NEW i \in 0 .. Len(Steps) - 1, UpgradeStage(s, n, i).pc = "down"
  PROVE  InTurn(s, UpgradeStage(s, n, i).todo)
BY DownStage, ReconcileOldInTurn

LEMMA OrderStarts ==
  ASSUME TypeInductive, OrderInductive, Reallocates, StartSync \/ StartUpgrade \/ StartStep
  PROVE  OrderInductive'
<1>. DEFINE l == cache.rs
            stage == UpgradeStage(l, replicas, idx)
<1>1. /\ rs' = rs /\ cache' = cache /\ rec'.rs = l
      /\ \/ /\ pc' = "sync" /\ IsScalingEvent(l, replicas)
            /\ rec'.todo = Scale(l, replicas)
         \/ pc' \in {"step", "create"} /\ rec'.todo = <<>>
         \/ New \in DOMAIN l /\ pc' = stage.pc /\ rec'.todo = stage.todo
  BY Starts
<1>2. IsList(l) /\ replicas \in Nat /\ idx \in 0 .. Len(Steps) - 1
  BY TypedFacts
<1>3. FreshAlone(rs, l)
  BY OrderIs
<1>. HIDE DEF l
<1>4. CASE pc' = "sync" /\ IsScalingEvent(l, replicas) /\ rec'.todo = Scale(l, replicas)
  <2>1. StartsNone(l, Scale(l, replicas))
    BY <1>2, <1>4, ScaleStartsNone
  <2>. QED
    BY <1>1, <1>3, <1>4, <2>1, OrderIsNext DEF l
<1>5. CASE pc' \in {"step", "create"} /\ rec'.todo = <<>>
  BY <1>1, <1>3, <1>5, FreshSelf, OrderIsNext DEF l
<1>6. CASE New \in DOMAIN l /\ pc' = stage.pc /\ rec'.todo = stage.todo
  <2>1. StartsNone(l, stage.todo)
    BY <1>2, <1>6, StageStartsNone
  <2>2. stage.pc = "down" => InTurn(l, stage.todo)
    BY <1>2, <1>6, StageInTurn
  <2>. HIDE DEF stage
  <2>. QED
    BY <1>1, <1>3, <1>6, <2>1, <2>2, OrderIsNext DEF l
<1>. QED
  BY <1>1, <1>4, <1>5, <1>6

(* getNewReplicaSet touches no old ReplicaSet.                             *)
LEMMA FreshWithNew ==
  ASSUME NEW s, IsList(s), Olds \subseteq DOMAIN s,
         NEW l, IsList(l), Olds \subseteq DOMAIN l, FreshAlone(s, l),
         NEW q \in SetType
  PROVE  /\ FreshAlone(s, WithNew(l, q)) /\ FreshAlone(WithNew(s, q), WithNew(l, q))
         /\ FreshAlone(WithNew(s, q), l)
<1>. DEFINE t == WithNew(s, q)
            u == WithNew(l, q)
<1>1. /\ DOMAIN t = DOMAIN s \cup {New}
      /\ \A r \in DOMAIN s \cup {New} : t[r] = IF r \in DOMAIN s THEN s[r] ELSE q
      /\ \A r \in DOMAIN l \cup {New} : u[r] = IF r \in DOMAIN l THEN l[r] ELSE q
  BY WithNewType
<1>. HIDE DEF t, u
<1>2. /\ Olds \cap DOMAIN t = Olds /\ Olds \cap DOMAIN s = Olds
      /\ \A r \in Olds : t[r] = s[r] /\ u[r] = l[r]
  BY <1>1
<1>3. FreshAlone(s, u) /\ FreshAlone(t, u) /\ FreshAlone(t, l)
  BY <1>2 DEF FreshAlone
<1>. QED
  BY <1>3 DEF t, u

LEMMA OrderGoesOn ==
  ASSUME TypeInductive, Reallocates, pc = "create", NEW q \in SetType,
         GoesOnWith(q), FreshAlone(rs', WithNew(rec.rs, q)), FreshAlone(rs', cache'.rs)
  PROVE  OrderInductive'
<1>. DEFINE u == WithNew(rec.rs, q)
            n == rec.replicas
            stage == UpgradeStage(u, n, idx)
<1>1. rec'.rs = u /\ pc' = stage.pc /\ rec'.todo = stage.todo
  BY DEF GoesOnWith
<1>2. n \in Nat /\ idx \in 0 .. Len(Steps) - 1 /\ IsList(rec.rs)
  BY TypedFacts
<1>3. IsList(u) /\ New \in DOMAIN u
  <2>1. IsList(u) /\ DOMAIN u = DOMAIN rec.rs \cup {New}
    BY <1>2, WithNewType
  <2>. HIDE DEF u
  <2>. QED BY <2>1
<1>4. FreshAlone(rs', u)
  OBVIOUS
<1>. HIDE DEF u, n
<1>5. StartsNone(u, stage.todo)
  BY <1>2, <1>3, StageStartsNone
<1>6. stage.pc = "down" => InTurn(u, stage.todo)
  BY <1>2, <1>3, StageInTurn
<1>. HIDE DEF stage
<1>. QED
  BY <1>1, <1>4, <1>5, <1>6, OrderIsNext

LEMMA OrderCreates ==
  ASSUME TypeInductive, GrowthInductive, OrderInductive, Reallocates,
         CreateNew \/ FindCreated \/ CreateFails
  PROVE  OrderInductive'
<1>1. pc = "create" /\ Goes /\ (Finds \/ \E q : Creates(q))
  BY Creating
<1>2. IsList(rs) /\ IsList(rec.rs) /\ IsList(cache.rs)
  BY TypedFacts
<1>3. Olds \subseteq DOMAIN rec.rs /\ Olds \subseteq DOMAIN cache.rs /\ Olds \subseteq DOMAIN rs
  BY <1>1 DEF GrowthInductive, Listed
<1>4. FreshAlone(rs, rec.rs) /\ FreshAlone(rs, cache.rs)
  BY <1>1, OrderIs
<1>5. ASSUME GivesUp, FreshAlone(rs', rec.rs), FreshAlone(rs', cache'.rs)
      PROVE  OrderInductive'
  <2>1. rec'.rs = rec.rs /\ rec'.todo = <<>> /\ pc' = "new"
    BY <1>5 DEF GivesUp
  <2>. QED
    BY <1>5, <2>1, FreshSelf, OrderIsNext
<1>6. CASE Finds
  <2>1. rs' = rs /\ cache' = cache
    BY <1>6 DEF Finds
  <2>2. CASE New \in DOMAIN cache.rs /\ GoesOnWith(cache.rs[New])
    <3>. DEFINE q == cache.rs[New]
    <3>1. q \in SetType
      BY <1>2, <2>2 DEF IsList
    <3>2. GoesOnWith(q)
      BY <2>2
    <3>. HIDE DEF q
    <3>3. FreshAlone(rs, WithNew(rec.rs, q))
      BY <1>2, <1>3, <1>4, <3>1, FreshWithNew
    <3>. QED
      BY <1>1, <1>4, <2>1, <3>1, <3>2, <3>3, OrderGoesOn
  <2>. QED
    BY <1>4, <1>5, <1>6, <2>1, <2>2 DEF Finds
<1>7. ASSUME NEW q, Creates(q)
      PROVE  OrderInductive'
  <2>. DEFINE t == WithNew(rs, q)
  <2>1. q \in SetType /\ rs' = t /\ Missable /\ (GoesOnWith(q) \/ GivesUp)
    BY <1>7 DEF Creates, IsFresh
  <2>2. FreshAlone(t, rec.rs) /\ FreshAlone(t, WithNew(rec.rs, q)) /\ FreshAlone(t, cache.rs)
    BY <1>2, <1>3, <1>4, <2>1, FreshWithNew
  <2>. HIDE DEF t
  <2>3. FreshAlone(rs', cache'.rs)
    <3>1. cache'.rs = rs' \/ cache'.rs = cache.rs
      BY <2>1 DEF Missable, Copied
    <3>. QED
      BY <2>1, <2>2, <3>1, FreshSelf
  <2>. QED
    BY <1>1, <1>5, <2>1, <2>2, <2>3, OrderGoesOn
<1>. QED
  BY <1>1, <1>6, <1>7

LEMMA OrderPatches ==
  ASSUME TypeInductive, GrowthInductive, PlanInductive, OrderInductive, PatchNext
  PROVE  OrderInductive'
<1>. DEFINE s == rs
            l == rec.rs
            c == cache.rs
            todo == rec.todo
            p == Head(todo)
            n == rec.replicas
            t == Patched(s, p, n)
            u == Patched(l, p, n)
<1>1. /\ todo # <<>> /\ p.size \in Nat /\ s[p.rs] = l[p.rs]
      /\ rs' = t /\ rec'.rs = u /\ rec'.todo = Tail(todo) /\ pc' = pc /\ pc # "idle" /\ Missable
  BY Patches
<1>2. IsList(s) /\ IsList(l) /\ n \in Nat
  BY <1>1, TypedFacts
<1>3. Olds \subseteq DOMAIN l /\ Olds \subseteq DOMAIN s
  BY <1>1 DEF GrowthInductive, Listed
<1>4. /\ FreshAlone(s, l) /\ FreshAlone(s, c) /\ StartsNone(l, todo)
      /\ pc = "down" => InTurn(l, todo) /\ Planned(l, todo, n, idx, rec.missed, rec.surplus)
  BY <1>1, OrderIs, PlanIs
<1>5. cache'.rs = rs' \/ cache'.rs = c
  BY <1>1 DEF Missable, Copied
<1>. HIDE DEF s, l, c, todo, n
<1>6. p.rs \in Olds => l[p.rs].size > 0
  BY <1>1, <1>2, <1>3, <1>4, RestStartsNone
<1>7. StartsNone(u, Tail(todo))
  BY <1>1, <1>2, <1>3, <1>4, RestStartsNone
<1>8. pc = "down" => InTurn(u, Tail(todo))
  <2>1. pc = "down" => OnlyOlds(l, todo) /\ Shrinks(l, todo)
    BY <1>4 DEF Planned
  <2>. QED
    BY <1>1, <1>2, <1>4, <2>1, PatchKeepsTurn
<1>. HIDE DEF p
<1>9. p.rs \in Olds => s[p.rs].size > 0
  BY <1>1, <1>6
<1>10. FreshAlone(t, u) /\ FreshAlone(t, c)
  BY <1>1, <1>2, <1>3, <1>4, <1>9, BothKeepFresh, PatchKeepsFresh
<1>11. FreshAlone(t, t)
  BY FreshSelf
<1>. HIDE DEF t, u
<1>. QED
  BY <1>1, <1>5, <1>7, <1>8, <1>10, <1>11, OrderIsNext DEF c, todo

LEMMA OrderFails ==
  ASSUME TypeInductive, OrderInductive, PatchFails
  PROVE  OrderInductive'
<1>1. /\ rs' = rs /\ cache' = cache /\ rec'.rs = rec.rs /\ rec'.todo = <<>>
      /\ pc' = pc /\ pc # "idle"
  BY Fails
<1>2. InTurn(rec.rs, <<>>)
  BY DEF InTurn
<1>. QED
  BY <1>1, <1>2, FreshSelf, OrderIs, OrderIsNext

(* The Deployment controller gives replicas to an old ReplicaSet only if   *)
(* no other one has any.                                                   *)
LEMMA FreshCluster ==
  ASSUME TypeInductive, NEW l, FreshAlone(rs, l), Cluster \/ UNCHANGED vars
  PROVE  FreshAlone(rs', l)
<1>0. IsList(rs) /\ replicas \in Nat
  BY TypedFacts
<1>1. CASE Pod \/ \E r \in DOMAIN rs : PodFails(r)
  <2>1. PICK r \in DOMAIN rs, d \in Nat : \A k \in Nat : PodsChange(rs', k + d, rs, k, r)
    BY <1>1, PodSteps
  <2>2. PodsChange(rs', 0 + d, rs, 0, r)
    BY <2>1
  <2>3. DOMAIN rs' = DOMAIN rs /\ \A x \in DOMAIN rs : rs'[x].size = rs[x].size
    BY <2>2 DEF PodsChange, Changes
  <2>. QED
    BY <2>3 DEF FreshAlone
<1>2. ASSUME NEW r \in FindActiveOrLatest(rs), NativeResizes(r, replicas)
      PROVE  FreshAlone(rs', l)
  <2>1. \A x \in DOMAIN rs \ {r} : rs[x].size = 0
    BY <1>0, <1>2, OnlyActive
  <2>2. CASE r \notin DOMAIN rs
    BY <1>0, <1>2, <2>2, NativeResizesOne
  <2>3. CASE r \in DOMAIN rs
    <3>1. DOMAIN rs' = DOMAIN rs /\ \A x \in DOMAIN rs \ {r} : rs'[x] = rs[x]
      BY <1>0, <1>2, <2>3, NativeResizesOne DEF Changes
    <3>. QED
      BY <2>1, <3>1 DEF FreshAlone
  <2>. QED
    BY <2>2, <2>3
<1>3. ASSUME NEW r \in Active(rs, Olds), NativeResizes(r, 0)
      PROVE  FreshAlone(rs', l)
  <2>1. r \in DOMAIN rs
    BY DEF Active
  <2>2. /\ DOMAIN rs' = DOMAIN rs /\ rs'[r].size = 0
        /\ \A x \in DOMAIN rs \ {r} : rs'[x] = rs[x]
    BY <1>3, <2>1, NativeResizesOne DEF Changes
  <2>. QED
    BY <2>2 DEF FreshAlone
<1>4. CASE NativeScales
  BY <1>2, <1>3, <1>4 DEF NativeScales
<1>5. CASE NativeReports \/ Deliver \/ (\E x \in Targets : UserScales(x)) \/ UserContinues
             \/ UNCHANGED vars
  <2>1. rs' = rs
    BY <1>5 DEF NativeReports, Deliver, UserScales, UserContinues, world, vars
  <2>. QED
    BY <2>1
<1>. QED
  BY <1>1, <1>4, <1>5 DEF Cluster

LEMMA OrderNext ==
  Reallocates /\ TypeInductive /\ GrowthInductive /\ PlanInductive /\ OrderInductive
    /\ [Next]_vars => OrderInductive'
<1>. SUFFICES ASSUME Reallocates, TypeInductive, GrowthInductive, PlanInductive, OrderInductive,
                     [Next]_vars
              PROVE  OrderInductive'
  OBVIOUS
<1>1. CASE EndSync \/ EndUpgrade \/ EndStep
  <2>1. pc' = "idle" /\ rs' = rs /\ cache' = cache
    BY <1>1, Ends
  <2>. QED
    BY <2>1, OrderIs, OrderIsNext
<1>2. CASE Reconcile
  BY <1>1, <1>2, ReconcileIs, OrderStarts, OrderCreates, OrderPatches, OrderFails
<1>3. CASE Cluster \/ UNCHANGED vars
  <2>1. pc' = pc /\ rec' = rec
    BY <1>3, ClusterKeepsRec
  <2>2. /\ FreshAlone(rs, rec.rs) => FreshAlone(rs', rec.rs)
        /\ FreshAlone(rs, cache.rs) => FreshAlone(rs', cache.rs)
    BY <1>3, FreshCluster
  <2>3. cache'.rs = rs' \/ cache'.rs = cache.rs
    BY <1>3, ClusterCopies DEF Copied
  <2>. QED
    BY <2>1, <2>2, <2>3, FreshSelf, OrderIs, OrderIsNext
<1>. QED
  BY <1>2, <1>3, NextIs

(* The patch that takes ready pods away is the next one in turn.           *)
LEMMA OrderStep ==
  TypeInductive /\ GrowthInductive /\ PlanInductive /\ OrderInductive /\ [Next]_vars =>
    [ScalesDownOld =>
       \A r, q \in Olds \cap DOMAIN rs :
         rs'[r].size < rs[r].size /\ rs[r].ready = rs[r].size
           /\ Revision[q] > Revision[r] => rs[q].size = 0]_rs
<1>. SUFFICES ASSUME TypeInductive, GrowthInductive, PlanInductive, OrderInductive, [Next]_vars,
                     ScalesDownOld, NEW r \in Olds \cap DOMAIN rs, NEW q \in Olds \cap DOMAIN rs,
                     rs'[r].size < rs[r].size, rs[r].ready = rs[r].size,
                     Revision[q] > Revision[r]
              PROVE  rs[q].size = 0
  OBVIOUS
<1>. DEFINE l == rec.rs
            todo == rec.todo
            p == Head(todo)
<1>1. DownPatch(rs, l, todo, p, rec.replicas, rs')
  BY ScalesDownIs
<1>2. FreshAlone(rs, l) /\ InTurn(l, todo) /\ Olds \subseteq DOMAIN l
  BY OrderIs DEF ScalesDownOld, GrowthInductive, Listed
<1>3. todo # <<>>
  BY DEF ScalesDownOld
<1>. HIDE DEF l, todo
<1>4. p = todo[1] /\ 1 \in DOMAIN todo
  <2>. DEFINE D == Range(todo)
  <2>1. todo \in Seq(D)
    BY <1>1 DEF DownPatch, OnlyOlds
  <2>. HIDE DEF D
  <2>. QED
    BY <1>3, <2>1
<1>. HIDE DEF p
<1>5. IsList(rs) /\ rs[r].size \in Nat /\ rs[q].size \in Nat
  BY TypedFacts, ListTyped
<1>6. r = p.rs /\ p.size \in Nat /\ rs'[r].size = p.size
  BY <1>1, <1>5, DownPatchFacts
<1>7. l[r] = rs[r]
  BY <1>1, <1>6 DEF DownPatch
<1>8. todo[1].size \in Nat /\ todo[1].size < l[todo[1].rs].ready /\ Revision[q] > Revision[todo[1].rs]
  BY <1>4, <1>6, <1>7
<1>9. ~(l[q].size > 0)
  <2>1. q \in Olds \cap DOMAIN l
    BY <1>2
  <2>2. \A j \in 1 .. 1 - 1 : FALSE
    OBVIOUS
  <2>. QED
    BY <1>2, <1>4, <1>8, <2>1, <2>2 DEF InTurn
<1>10. l[q].size = 0
  <2>1. l[q].size \in Nat
    BY <1>1, <1>2, ListTyped DEF DownPatch
  <2>. QED
    BY <1>9, <2>1
<1>11. r # q
  BY <1>5, <1>6, <1>7, <1>10
<1>. QED
  BY <1>2, <1>5, <1>6, <1>10, <1>11 DEF FreshAlone

(* No patch takes ready pods from an old ReplicaSet while one with a       *)
(* larger revision has replicas: the stable version goes last, whatever    *)
(* the cluster does between the patches, and also when lists show pods     *)
(* that are no longer wanted.                                              *)
THEOREM StableGoesLast ==
  ASSUME Reallocates
  PROVE  Spec => SmallerRevisionLast
<1>1. TypeInductive /\ GrowthInductive /\ PlanInductive /\ [Next]_vars => PlanInductive'
  BY PlanNext
<1>2. TypeInductive /\ GrowthInductive /\ PlanInductive /\ OrderInductive /\ [Next]_vars =>
        OrderInductive'
  BY OrderNext
<1>3. TypeInductive /\ GrowthInductive /\ PlanInductive /\ OrderInductive /\ [Next]_vars =>
        [ScalesDownOld =>
           \A r, q \in Olds \cap DOMAIN rs :
             rs'[r].size < rs[r].size /\ rs[r].ready = rs[r].size
               /\ Revision[q] > Revision[r] => rs[q].size = 0]_rs
  BY OrderStep
<1>. QED
  BY <1>1, <1>2, <1>3, TypeInit, TypeNext, GrowthInit, GrowthNext, PlanInit, OrderInit, PTL
  DEF Spec, SmallerRevisionLast

(***************************************************************************)
(* How many replicas the old ReplicaSets have                              *)
(***************************************************************************)
LEMMA OldsCompare ==
  ASSUME NEW s, IsList(s), NEW u, IsList(u), Olds \cap DOMAIN u = Olds \cap DOMAIN s,
         \A q \in Olds \cap DOMAIN s : s[q].size <= u[q].size
  PROVE  Total(s, Olds) <= Total(u, Olds)
<1>. DEFINE f == [r \in DOMAIN s |-> s[r].size]
            g == [r \in DOMAIN u |-> u[r].size]
            T == Olds \cap DOMAIN s
<1>1. Total(s, Olds) = SumFunctionOnSet(f, T) /\ Total(u, Olds) = SumFunctionOnSet(g, T)
  BY DEF Total
<1>2. IsFiniteSet(T)
  BY ListTyped
<1>3. \A r \in T : f[r] \in Int /\ g[r] \in Int /\ f[r] <= g[r]
  BY ListTyped
<1>. HIDE DEF f, g, T
<1>. QED
  BY <1>1, <1>2, <1>3, SumMonotone

LEMMA OldsSame ==
  ASSUME NEW s, IsList(s), NEW u, IsList(u), Olds \cap DOMAIN u = Olds \cap DOMAIN s,
         \A q \in Olds \cap DOMAIN s : s[q].size = u[q].size
  PROVE  Total(s, Olds) = Total(u, Olds)
<1>1. \A q \in Olds \cap DOMAIN s : s[q].size \in Nat /\ u[q].size \in Nat
  BY ListTyped
<1>2. Total(s, Olds) <= Total(u, Olds) /\ Total(u, Olds) <= Total(s, Olds)
  BY <1>1, OldsCompare
<1>. QED
  BY <1>2, SumsType

(* One old ReplicaSet and the others.                                      *)
LEMMA OldsSplit ==
  ASSUME NEW s, IsList(s), NEW r \in Olds \cap DOMAIN s
  PROVE  \E k \in Nat :
           /\ Total(s, Olds) = s[r].size + k
           /\ (\A q \in Olds \cap DOMAIN s : q # r => s[q].size = 0) => k = 0
           /\ \A u : IsList(u) /\ Olds \cap DOMAIN u = Olds \cap DOMAIN s
                     /\ (\A q \in Olds \cap DOMAIN s : q # r => u[q].size = s[q].size) =>
                  Total(u, Olds) = u[r].size + k
<1>. DEFINE f == [x \in DOMAIN s |-> s[x].size]
            T == Olds \cap DOMAIN s
            U == T \ {r}
            k == SumFunctionOnSet(f, U)
<1>1. IsFiniteSet(T) /\ IsFiniteSet(U) /\ \A x \in T : f[x] \in Nat
  BY ListTyped
<1>2. Total(s, Olds) = SumFunctionOnSet(f, T)
  BY DEF Total
<1>3. k \in Nat
  <2>. HIDE DEF f, T, U
  <2>. DEFINE D == Nat
  <2>1. D \in {Nat, Int} /\ \A x \in U : f[x] \in D
    BY <1>1 DEF U
  <2>. HIDE DEF D
  <2>2. SumFunctionOnSet(f, U) \in D
    BY <1>1, <2>1, SumType
  <2>. QED
    BY <2>2 DEF D
<1>4. Total(s, Olds) = s[r].size + k
  <2>1. f[r] = s[r].size
    OBVIOUS
  <2>. HIDE DEF f
  <2>. QED
    BY <1>1, <1>2, <2>1, SumSplit
<1>5. (\A q \in T : q # r => s[q].size = 0) => k = 0
  <2>. HAVE \A q \in T : q # r => s[q].size = 0
  <2>1. \A x \in U : f[x] = 0
    OBVIOUS
  <2>. HIDE DEF f, U
  <2>. QED
    BY <1>1, <2>1, SumZero
<1>6. ASSUME NEW u, IsList(u), Olds \cap DOMAIN u = T, \A q \in T : q # r => u[q].size = s[q].size
      PROVE  Total(u, Olds) = u[r].size + k
  <2>. DEFINE g == [x \in DOMAIN u |-> u[x].size]
              h == [x \in U |-> 0]
  <2>1. \A x \in T : g[x] \in Nat
    BY <1>6, ListTyped
  <2>2. Total(u, Olds) = SumFunctionOnSet(g, T)
    BY <1>6 DEF Total
  <2>3. g[r] = u[r].size
    BY <1>6
  <2>4. \A x \in U : f[x] \in Int /\ g[x] \in Int /\ f[x] <= g[x] /\ g[x] <= f[x]
    BY <1>1, <1>6, <2>1
  <2>5. SumFunctionOnSet(g, U) \in Int
    <3>. HIDE DEF f, g, U
    <3>. DEFINE D == Int
    <3>1. D \in {Nat, Int} /\ \A x \in U : g[x] \in D
      BY <2>4
    <3>. HIDE DEF D
    <3>2. SumFunctionOnSet(g, U) \in D
      BY <1>1, <3>1, SumType
    <3>. QED
      BY <3>2 DEF D
  <2>6. SumFunctionOnSet(g, U) = k
    <3>. HIDE DEF f, g, U
    <3>1. SumFunctionOnSet(g, U) <= SumFunctionOnSet(f, U)
      BY <1>1, <2>4, SumMonotone
    <3>2. SumFunctionOnSet(f, U) <= SumFunctionOnSet(g, U)
      BY <1>1, <2>4, SumMonotone
    <3>. QED
      BY <1>3, <2>5, <3>1, <3>2
  <2>7. SumFunctionOnSet(g, T) = g[r] + SumFunctionOnSet(g, U)
    <3>. HIDE DEF f, g
    <3>. QED
      BY <1>1, <2>1, SumSplit
  <2>. HIDE DEF g, k
  <2>. QED
    BY <2>2, <2>3, <2>6, <2>7
<1>. QED
  <2>. HIDE DEF k
  <2>. QED BY <1>3, <1>4, <1>5, <1>6

LEMMA OldsNone ==
  ASSUME NEW s, IsList(s)
  PROVE  Total(s, Olds) = 0 <=> Active(s, Olds) = {}
<1>1. ASSUME Total(s, Olds) = 0, NEW r \in Active(s, Olds) PROVE FALSE
  <2>1. r \in Olds \cap DOMAIN s /\ s[r].size > 0 /\ s[r].size \in Nat
    BY ListTyped DEF Active
  <2>2. PICK k \in Nat : Total(s, Olds) = s[r].size + k
    BY <2>1, OldsSplit
  <2>. QED
    BY <1>1, <2>1, <2>2
<1>2. ASSUME Active(s, Olds) = {} PROVE Total(s, Olds) = 0
  <2>. DEFINE f == [x \in DOMAIN s |-> s[x].size]
              T == Olds \cap DOMAIN s
  <2>1. IsFiniteSet(T) /\ \A x \in T : f[x] = 0
    <3>1. \A x \in T : ~(s[x].size > 0) /\ s[x].size \in Nat
      BY <1>2, ListTyped DEF Active
    <3>. QED
      BY <3>1, ListTyped
  <2>2. Total(s, Olds) = SumFunctionOnSet(f, T)
    BY DEF Total
  <2>. HIDE DEF f, T
  <2>. QED
    BY <2>1, <2>2, SumZero
<1>. QED
  BY <1>1, <1>2

(* The old ones and the new one are all there are.                         *)
LEMMA OldsAndNew ==
  ASSUME NEW s, IsList(s)
  PROVE  /\ New \in DOMAIN s => Total(s, Sets) = Total(s, Olds) + s[New].size
         /\ New \notin DOMAIN s => Total(s, Sets) = Total(s, Olds)
<1>. DEFINE f == [x \in DOMAIN s |-> s[x].size]
            T == Sets \cap DOMAIN s
            U == Olds \cap DOMAIN s
<1>1. IsFiniteSet(T) /\ \A x \in T : f[x] \in Int
  BY ListTyped
<1>2. Total(s, Sets) = SumFunctionOnSet(f, T) /\ Total(s, Olds) = SumFunctionOnSet(f, U)
  BY DEF Total
<1>3. CASE New \in DOMAIN s
  <2>1. New \in T /\ T \ {New} = U /\ f[New] = s[New].size
    BY <1>3, SetsAssumption DEF Sets
  <2>. HIDE DEF f, T, U
  <2>2. SumFunctionOnSet(f, T) = f[New] + SumFunctionOnSet(f, T \ {New})
    BY <1>1, <2>1, SumSplit
  <2>3. Total(s, Olds) \in Int /\ s[New].size \in Int
    BY <1>3, SumsType, ListTyped
  <2>4. Total(s, Sets) = s[New].size + Total(s, Olds)
    BY <1>2, <2>1, <2>2
  <2>. QED
    BY <1>3, <2>3, <2>4
<1>4. CASE New \notin DOMAIN s
  <2>1. T = U
    BY <1>4 DEF Sets
  <2>. QED
    BY <1>2, <1>4, <2>1
<1>. QED
  BY <1>3, <1>4

(***************************************************************************)
(* What stepByStep plans for a Deployment nobody scales                    *)
(***************************************************************************)
(* newRSNewReplicas: up to the limit of the step, unless no old one is     *)
(* left, and up to the surge.                                              *)
LEMMA NewSizeWithin ==
  ASSUME NEW s, IsList(s), New \in DOMAIN s, NEW n \in Nat, s[New].size <= n,
         NEW i \in 0 .. Len(Steps) - 1
  PROVE  LET size == NewSize(s, n, i)
             old  == Total(s, Olds)
             w    == s[New].size
         IN /\ size \in w .. n
            /\ size = w \/ size <= Limit(i, n) \/ old = 0
            /\ size = w \/ old + size <= n + MaxSurge(n) \/ old = 0
            /\ old > 0 /\ w < Limit(i, n) /\ old + w < n + MaxSurge(n) => size # w
<1>. DEFINE old == Total(s, Olds)
            w == s[New].size
            limit == Limit(i, n)
            surge == MaxSurge(n)
<1>1. old \in Nat /\ w \in 0 .. n /\ limit \in 0 .. n /\ surge \in Nat
  <2>1. w \in 0 .. n
    BY ListTyped
  <2>2. old \in Nat
    BY SumsType
  <2>3. limit \in 0 .. n /\ surge \in Nat
    BY LimitType, SurgeType
  <2>. HIDE DEF old, w, limit, surge
  <2>. QED
    BY <2>1, <2>2, <2>3
<1>2. NewSize(s, n, i) = NewRSNewReplicas(n, surge, limit, old + w, w)
  <2>1. Total(s, Sets) = old + w
    BY OldsAndNew
  <2>. QED
    BY <2>1 DEF NewSize
<1>. DEFINE size == NewRSNewReplicas(n, surge, limit, old + w, w)
<1>3. /\ size \in w .. n
      /\ size = w \/ size <= limit \/ old = 0
      /\ size = w \/ old + size <= n + surge \/ old = 0
      /\ old > 0 /\ w < limit /\ old + w < n + surge => size # w
  <2>. HIDE DEF old, w, limit, surge
  <2>. QED BY <1>1 DEF NewRSNewReplicas, Lesser
<1>4. NewSize(s, n, i) = size
  BY <1>2
<1>. HIDE DEF size
<1>. QED
  BY <1>3, <1>4

LEMMA NewPlanned ==
  ASSUME NEW s, IsList(s), New \in DOMAIN s, NEW n \in Nat, s[New].size <= n,
         NEW i \in 0 .. Len(Steps) - 1
  PROVE  /\ ReconcileNew(s, n, i) # <<>> =>
              /\ ReconcileNew(s, n, i) = <<Patch(New, NewSize(s, n, i))>>
              /\ PatchWithin("new", s, Patch(New, NewSize(s, n, i)), n, i)
              /\ PatchSurges("new", s, Patch(New, NewSize(s, n, i)), n)
         /\ ReconcileNew(s, n, i) = <<>> => s[New].size = n \/ NewSize(s, n, i) = s[New].size
<1>. DEFINE w == s[New].size
            size == NewSize(s, n, i)
            to == IF w >= n THEN n ELSE size
            p == Patch(New, to)
<1>1. w \in Nat /\ w <= n /\ Total(s, Olds) \in Nat
  BY ListTyped, SumsType
<1>2. /\ size \in w .. n
      /\ size = w \/ size <= Limit(i, n) \/ Total(s, Olds) = 0
      /\ size = w \/ Total(s, Olds) + size <= n + MaxSurge(n) \/ Total(s, Olds) = 0
  BY NewSizeWithin
<1>3. ReconcileNew(s, n, i) = IF w = to THEN <<>> ELSE <<p>>
  <2>1. p.rs = New /\ p.size = to
    BY DEF Patch
  <2>2. ReconcileNew(s, n, i) = PatchIfResized(s, p)
    BY DEF ReconcileNew
  <2>. HIDE DEF p, to
  <2>. QED
    BY <2>1, <2>2 DEF PatchIfResized
<1>4. CASE w = to
  BY <1>1, <1>3, <1>4
<1>5. CASE w # to
  <2>1. to = size /\ size # w
    BY <1>1, <1>5
  <2>2. Total(s, Olds) = 0 => Active(s, Olds) = {}
    BY OldsNone
  <2>3. Patch(New, size).rs = New /\ Patch(New, size).size = size
    BY DEF Patch
  <2>. HIDE DEF size, to, w
  <2>4. PatchWithin("new", s, Patch(New, size), n, i) /\ PatchSurges("new", s, Patch(New, size), n)
    BY <1>2, <2>1, <2>2, <2>3 DEF PatchWithin, PatchSurges, w
  <2>. QED
    BY <1>3, <1>5, <2>1, <2>4 DEF size, w
<1>. QED
  BY <1>4, <1>5

(* scaleUpOldReplicaSets: one of them, and not beyond the partition.       *)
LEMMA UpPlanned ==
  ASSUME NEW s, IsList(s), New \in DOMAIN s, NEW n \in Nat, NEW i \in 0 .. Len(Steps) - 1,
         Active(s, Olds) # {}, OldLimit(s, n, i, Active(s, Olds)) <= 0, ScaleUpOld(s, n, i) # <<>>
  PROVE  \E p : /\ ScaleUpOld(s, n, i) = <<p>> /\ PatchWithin("up", s, p, n, i)
                /\ PatchSurges("up", s, p, n)
                /\ WithinStart(s, n) => s[New].size > 0
<1>. DEFINE olds == Active(s, Olds)
            r == Sorted(olds, LAMBDA a, b : BySizeOlder(s, a, b))[1]
            limit == OldLimit(s, n, i, olds)
            p == Patch(r, s[r].size - limit)
            old == Total(s, Olds)
            w == s[New].size
<1>1. r \in olds
  BY BiggestIsActive
<1>2. p.rs = r /\ p.size = s[r].size - limit
  BY DEF Patch
<1>3. ScaleUpOld(s, n, i) = IF s[r].size = p.size THEN <<>> ELSE <<p>>
  <2>1. ScaleUpOld(s, n, i) = PatchIfResized(s, p)
    BY DEF ScaleUpOld
  <2>. HIDE DEF p, r
  <2>. QED
    BY <1>2, <2>1 DEF PatchIfResized
<1>4. s[r].size \in Nat /\ w \in Nat /\ old \in Nat /\ Limit(i, n) \in 0 .. n
  <2>1. r \in DOMAIN s
    BY <1>1 DEF Active
  <2>. HIDE DEF r
  <2>. QED
    BY <2>1, ListTyped, SumsType, LimitType
<1>5. limit = old - (n - Greater(Limit(i, n), w))
  <2>1. Total(s, olds) = old
    <3>1. \A x \in DOMAIN s : s[x].size \in Nat
      BY ListTyped
    <3>. QED
      BY <3>1, ActiveTotal
  <2>. HIDE DEF olds, old
  <2>. QED
    BY <2>1 DEF OldLimit, ScaleDownLimitForOld
<1>. HIDE DEF r, limit, old, w, p
<1>6. ScaleUpOld(s, n, i) = <<p>> /\ p.size # s[r].size
  BY <1>3
<1>7. limit # 0 /\ limit <= 0
  BY <1>2, <1>4, <1>6 DEF limit
<1>8. PatchWithin("up", s, p, n, i)
  BY <1>1, <1>2 DEF PatchWithin
<1>9. ASSUME WithinStart(s, n) PROVE w > 0
  <2>1. w = 0 => old = n
    BY <1>9 DEF WithinStart, w, old
  <2>. QED
    BY <1>4, <1>5, <1>7, <2>1 DEF Greater
<1>10. PatchSurges("up", s, p, n)
  <2>3. limit \in Int
    BY <1>4, <1>5 DEF Greater
  <2>. DEFINE k == s[r].size
  <2>4. old - k + p.size <= n - w
    <3>1. p.size = k - limit /\ k \in Nat
      BY <1>2, <1>4
    <3>2. n - Greater(Limit(i, n), w) <= n - w /\ Greater(Limit(i, n), w) \in Nat
      BY <1>4 DEF Greater
    <3>. HIDE DEF k
    <3>3. old - k + p.size = old - limit
      BY <1>4, <2>3, <3>1
    <3>. QED
      BY <1>4, <1>5, <3>2, <3>3
  <2>. QED
    BY <1>2, <2>4 DEF PatchSurges, w, old
<1>. QED
  BY <1>6, <1>8, <1>9, <1>10 DEF w

(* Old ones are only taken away from if the new one has replicas.          *)
LEMMA DownPlanned ==
  ASSUME NEW s, IsList(s), New \in DOMAIN s, NEW n \in Nat, s[New].size <= n,
         NEW i \in 0 .. Len(Steps) - 1, WithinStart(s, n), ReconcileNew(s, n, i) = <<>>,
         ~(OldLimit(s, n, i, Active(s, Olds)) <= 0)
  PROVE  s[New].size > 0
<1>. DEFINE olds == Active(s, Olds)
            limit == Limit(i, n)
            old == Total(s, Olds)
            w == s[New].size
            surge == MaxSurge(n)
<1>1. w \in Nat /\ old \in Nat /\ limit \in 0 .. n /\ surge \in Nat
  BY ListTyped, SumsType, LimitType, SurgeType
<1>2. OldLimit(s, n, i, olds) = old - (n - Greater(limit, w))
  <2>1. Total(s, olds) = old
    <3>1. \A x \in DOMAIN s : s[x].size \in Nat
      BY ListTyped
    <3>. QED
      BY <3>1, ActiveTotal
  <2>. HIDE DEF olds, old
  <2>. QED
    BY <2>1 DEF OldLimit, ScaleDownLimitForOld
<1>3. SUFFICES ASSUME w = 0 PROVE FALSE
  BY <1>1
<1>4. old = n /\ w >= LowerBound(n)
  BY <1>3 DEF WithinStart
<1>5. w = n \/ NewSize(s, n, i) = w
  BY NewPlanned
<1>6. old > 0 /\ w < limit /\ old + w < n + surge => NewSize(s, n, i) # w
  BY NewSizeWithin
<1>. HIDE DEF olds, limit, old, w, surge
<1>7. limit > 0
  BY <1>1, <1>2, <1>3, <1>4 DEF Greater, olds
<1>8. surge > 0
  <2>1. LowerBound(n) = IF surge > 0 THEN 0 ELSE Lesser(1, n)
    BY DEF LowerBound, NewRSReplicasLowerBound, surge
  <2>. QED
    BY <1>1, <1>3, <1>4, <1>7, <2>1 DEF Lesser
<1>. QED
  BY <1>1, <1>3, <1>4, <1>5, <1>6, <1>7, <1>8

LEMMA StagePlannedWithin ==
  ASSUME NEW s, IsList(s), New \in DOMAIN s, NEW n \in Nat, s[New].size <= n,
         NEW i \in 0 .. Len(Steps) - 1, RoomToStart => WithinStart(s, n)
  PROVE  LET stage == UpgradeStage(s, n, i)
         IN /\ PlannedWithin(stage.pc, s, stage.todo, n, i)
            /\ stage.todo # <<>> => PatchSurges(stage.pc, s, Head(stage.todo), n)
<1>. DEFINE stage == UpgradeStage(s, n, i)
            new == ReconcileNew(s, n, i)
            olds == Active(s, Olds)
<1>1. CASE new # <<>>
  <2>. DEFINE p == Patch(New, NewSize(s, n, i))
  <2>1. stage.pc = "new" /\ stage.todo = new
    BY <1>1, StageCases
  <2>2. new = <<p>> /\ PatchWithin("new", s, p, n, i) /\ PatchSurges("new", s, p, n)
    BY <1>1, NewPlanned
  <2>. HIDE DEF stage, new, p
  <2>3. Head(<<p>>) = p
    OBVIOUS
  <2>. QED
    BY <2>1, <2>2, <2>3 DEF PlannedWithin, PatchStarts, stage
<1>2. CASE new = <<>> /\ stage.pc = "up" /\ stage.todo = <<>>
  BY <1>2 DEF PlannedWithin
<1>3. CASE /\ stage.todo # <<>> /\ olds # {} /\ OldLimit(s, n, i, olds) <= 0
           /\ stage.pc = "up" /\ stage.todo = ScaleUpOld(s, n, i)
  <2>1. PICK p : /\ ScaleUpOld(s, n, i) = <<p>> /\ PatchWithin("up", s, p, n, i)
                 /\ PatchSurges("up", s, p, n)
                 /\ WithinStart(s, n) => s[New].size > 0
    BY <1>3, UpPlanned
  <2>. HIDE DEF stage
  <2>2. Head(<<p>>) = p
    OBVIOUS
  <2>. QED
    BY <1>3, <2>1, <2>2 DEF PlannedWithin, PatchStarts, stage
<1>4. CASE /\ new = <<>> /\ olds # {} /\ ~(OldLimit(s, n, i, olds) <= 0) /\ stage.pc = "down"
  <2>1. WithinStart(s, n) => s[New].size > 0
    BY <1>4, DownPlanned
  <2>. HIDE DEF stage
  <2>. QED
    BY <1>4, <2>1 DEF PlannedWithin, PatchStarts, PatchSurges, stage
<1>. QED
  BY <1>1, <1>2, <1>3, <1>4, StageCases DEF PlannedWithin

(***************************************************************************)
(* What getNewReplicaSet creates                                           *)
(***************************************************************************)
FreshWithin(q, n, i) ==
  /\ q \in SetType /\ q.desired = n /\ q.pods = 0
  /\ q.size \in LowerBound(n) .. n
  /\ q.size <= Greater(Limit(i, n), LowerBound(n))
  /\ q.size <= Greater(MaxSurge(n), 1)

LEMMA LowerBoundType ==
  ASSUME NEW n \in Nat
  PROVE  LowerBound(n) \in 0 .. n /\ LowerBound(n) <= 1
<1>1. MaxSurge(n) \in Nat
  BY SurgeType
<1>. QED
  BY <1>1 DEF LowerBound, NewRSReplicasLowerBound, Lesser

LEMMA FreshSize ==
  ASSUME NEW l, IsList(l), New \notin DOMAIN l, NEW n \in Nat, Total(l, Olds) = n,
         NEW i \in 0 .. Len(Steps) - 1, NEW q \in SetType, q.size = 0
  PROVE  LET size == Greater(NewSize(WithNew(l, q), n, i), LowerBound(n))
         IN /\ size \in LowerBound(n) .. n
            /\ size <= Greater(Limit(i, n), LowerBound(n))
            /\ size <= Greater(MaxSurge(n), 1)
<1>. DEFINE u == WithNew(l, q)
            z == NewSize(u, n, i)
            least == LowerBound(n)
            limit == Limit(i, n)
            surge == MaxSurge(n)
<1>1. /\ IsList(u) /\ DOMAIN u = DOMAIN l \cup {New}
      /\ \A r \in DOMAIN u : u[r] = IF r \in DOMAIN l THEN l[r] ELSE q
  BY WithNewType
<1>. HIDE DEF u
<1>2. New \in DOMAIN u /\ u[New].size = 0
  BY <1>1
<1>3. Total(u, Olds) = n
  <2>1. Olds \cap DOMAIN u = Olds \cap DOMAIN l /\ \A x \in Olds \cap DOMAIN l : u[x].size = l[x].size
    BY <1>1, SetsAssumption
  <2>. QED
    BY <1>1, <2>1, OldsSame
<1>4. /\ z \in 0 .. n
      /\ z = 0 \/ z <= limit \/ n = 0
      /\ z = 0 \/ n + z <= n + surge \/ n = 0
  BY <1>1, <1>2, <1>3, NewSizeWithin
<1>5. least \in 0 .. n /\ least <= 1 /\ surge \in Nat /\ limit \in 0 .. n
  BY LowerBoundType, SurgeType, LimitType
<1>. HIDE DEF z, least, limit, surge
<1>6. /\ Greater(z, least) \in least .. n
      /\ Greater(z, least) <= Greater(limit, least)
      /\ Greater(z, least) <= Greater(surge, 1)
  BY <1>4, <1>5 DEF Greater
<1>. QED
  BY <1>6 DEF u, z, least, limit, surge

LEMMA FreshIsWithin ==
  ASSUME TypeInductive, pc = "create", Total(rec.rs, Olds) = rec.replicas, NEW q, IsFresh(q)
  PROVE  FreshWithin(q, rec.replicas, idx)
<1>. DEFINE n == rec.replicas
            l == rec.rs
<1>1. IsList(l) /\ n \in Nat /\ New \notin DOMAIN l /\ idx \in 0 .. Len(Steps) - 1
  BY TypedFacts
<1>2. PICK r \in SetType :
        r.size = 0 /\ q.size = Greater(NewSize(WithNew(l, r), n, idx), LowerBound(n))
  BY DEF IsFresh, LowerBound
<1>3. Total(l, Olds) = n /\ q \in SetType /\ q.desired = n /\ q.pods = 0
  BY DEF IsFresh
<1>. HIDE DEF l, n
<1>4. /\ q.size \in LowerBound(n) .. n
      /\ q.size <= Greater(Limit(idx, n), LowerBound(n))
      /\ q.size <= Greater(MaxSurge(n), 1)
  BY <1>1, <1>2, <1>3, FreshSize
<1>5. FreshWithin(q, n, idx)
  BY <1>3, <1>4 DEF FreshWithin
<1>. QED
  BY <1>5 DEF n

(* It changes nothing for the old ones.                                    *)
LEMMA FreshKeepsWithin ==
  ASSUME NEW s, IsList(s), New \notin DOMAIN s, NEW n \in Nat, WithinAll(s, n),
         NEW i \in 0 .. Len(Steps) - 1, NEW q, FreshWithin(q, n, i)
  PROVE  LET t == WithNew(s, q)
         IN /\ IsList(t) /\ DOMAIN t = DOMAIN s \cup {New} /\ t[New] = q
            /\ \A r \in DOMAIN s : t[r] = s[r]
            /\ WithinAll(t, n) /\ WithinStart(t, n) /\ WithinStep(t, n, i)
            /\ WithinSurge(t, n)
<1>. DEFINE t == WithNew(s, q)
<1>1. q \in SetType /\ q.desired = n /\ q.size \in LowerBound(n) .. n /\ q.size <= Greater(MaxSurge(n), 1)
      /\ q.size <= Greater(Limit(i, n), LowerBound(n))
  BY DEF FreshWithin
<1>2. /\ IsList(t) /\ DOMAIN t = DOMAIN s \cup {New}
      /\ \A r \in DOMAIN t : t[r] = IF r \in DOMAIN s THEN s[r] ELSE q
  BY <1>1, WithNewType
<1>. HIDE DEF t
<1>3. t[New] = q /\ \A r \in DOMAIN s : t[r] = s[r]
  BY <1>2
<1>4. Total(t, Olds) = n
  <2>1. Olds \cap DOMAIN t = Olds \cap DOMAIN s /\ \A x \in Olds \cap DOMAIN s : t[x].size = s[x].size
    BY <1>2, SetsAssumption
  <2>2. Total(s, Olds) = n
    BY DEF WithinAll
  <2>. QED
    BY <1>2, <2>1, <2>2, OldsSame
<1>5. LowerBound(n) \in Nat /\ MaxSurge(n) \in Nat
  BY LowerBoundType, SurgeType
<1>6. WithinAll(t, n)
  BY <1>1, <1>2, <1>3, <1>5 DEF WithinAll
<1>7. WithinSurge(t, n)
  <2>1. n + q.size <= n + Greater(MaxSurge(n), 1)
    BY <1>1, <1>5 DEF Greater
  <2>. QED
    BY <1>1, <1>3, <1>4, <1>5, <2>1 DEF WithinSurge
<1>8. WithinStep(t, n, i)
  BY <1>1, <1>3 DEF WithinStep
<1>9. WithinStart(t, n)
  <2>1. q.size >= LowerBound(n)
    BY <1>1, <1>5
  <2>. QED
    BY <1>3, <1>4, <2>1 DEF WithinStart
<1>. QED
  BY <1>2, <1>3, <1>6, <1>7, <1>8, <1>9 DEF t

(***************************************************************************)
(* Patches keep within these bounds                                        *)
(***************************************************************************)
LEMMA PatchedIs ==
  ASSUME NEW s, IsList(s), NEW p, p.size \in Nat, NEW n \in Nat
  PROVE  LET t == Patched(s, p, n)
         IN /\ IsList(t) /\ DOMAIN t = DOMAIN s
            /\ \A r \in DOMAIN s : r # p.rs => t[r] = s[r]
            /\ p.rs \in DOMAIN s => t[p.rs].size = p.size /\ t[p.rs].desired = n
                                    /\ t[p.rs].pods = s[p.rs].pods
<1>. DEFINE t == Patched(s, p, n)
            m == n + MaxSurge(n)
<1>1. /\ IsList(t) /\ DOMAIN t = DOMAIN s
      /\ \A r \in DOMAIN s : r # p.rs => t[r] = s[r]
      /\ p.rs \in DOMAIN s => t[p.rs].size = p.size /\ t[p.rs].pods = s[p.rs].pods
  BY PatchedType
<1>2. ASSUME p.rs \in DOMAIN s PROVE t[p.rs].desired = n
  <2>1. t[p.rs] = Resized(s[p.rs], p.size, n) /\ s[p.rs] \in SetType
    BY <1>2, ListTyped DEF Patched
  <2>2. \A q \in SetType : [q EXCEPT !.size = p.size, !.desired = n, !.max = m].desired = n
    BY DEF SetType
  <2>3. Resized(s[p.rs], p.size, n).desired = n
    BY <2>1, <2>2 DEF Resized
  <2>. QED
    BY <2>1, <2>3
<1>. QED
  BY <1>1, <1>2

(* One patch of those listed (l), of which the others have become s.       *)
Patchable(s, l, p, n) ==
  /\ IsList(s) /\ IsList(l) /\ New \in DOMAIN l /\ n \in Nat
  /\ p.size \in Nat /\ p.rs \in DOMAIN l /\ s[p.rs] = l[p.rs]
  /\ WithinAll(s, n) /\ WithinAll(l, n) /\ OnlyNewGrows(s, l)

LEMMA PatchableSelf ==
  ASSUME NEW s, NEW l, NEW p, NEW n, Patchable(s, l, p, n)
  PROVE  Patchable(l, l, p, n)
<1>1. IsList(l) /\ New \in DOMAIN l
  BY DEF Patchable
<1>2. l[New].size \in Nat
  BY <1>1, ListTyped
<1>3. l[New].size >= l[New].size
  BY <1>2
<1>4. Olds \subseteq DOMAIN l
  BY DEF Patchable, OnlyNewGrows
<1>5. OnlyNewGrows(l, l)
  BY <1>3, <1>4 DEF OnlyNewGrows
<1>. QED
  BY <1>5 DEF Patchable

LEMMA PatchKeepsAll ==
  ASSUME NEW s, NEW l, NEW p, NEW n, Patchable(s, l, p, n), NEW stage,
         NEW i \in 0 .. Len(Steps) - 1, PatchWithin(stage, l, p, n, i)
  PROVE  LET t == Patched(s, p, n)
         IN /\ WithinAll(t, n)
            /\ WithinStep(s, n, i) => WithinStep(t, n, i)
<1>. DEFINE t == Patched(s, p, n)
<1>0. /\ IsList(s) /\ IsList(l) /\ New \in DOMAIN l /\ n \in Nat /\ New \in DOMAIN s /\ Olds \subseteq DOMAIN s /\ Olds \subseteq DOMAIN l
      /\ p.size \in Nat /\ p.rs \in DOMAIN s /\ s[p.rs] = l[p.rs]
  BY DEF Patchable, OnlyNewGrows
<1>1. /\ IsList(t) /\ DOMAIN t = DOMAIN s
      /\ \A r \in DOMAIN s : r # p.rs => t[r] = s[r]
      /\ t[p.rs].size = p.size /\ t[p.rs].desired = n
  BY <1>0, PatchedIs
<1>. HIDE DEF t
<1>2. WithinAll(t, n)
  <2>1. p.rs = New => p.size <= n
    BY SetsAssumption DEF PatchWithin, Active
  <2>2. s[New].size <= n /\ \A r \in DOMAIN s : s[r].desired = n
    BY <1>0 DEF Patchable, WithinAll
  <2>3. \A r \in DOMAIN t : t[r].desired = n
    BY <1>1, <2>2
  <2>4. t[New].size <= n
    BY <1>0, <1>1, <2>1, <2>2
  <2>. QED
    BY <1>0, <1>1, <2>3, <2>4 DEF WithinAll
<1>3. ASSUME WithinStep(s, n, i) PROVE WithinStep(t, n, i)
  <2>1. CASE p.rs = New
    <3>1. p.size <= Limit(i, n) \/ Active(l, Olds) = {}
      BY <2>1, SetsAssumption DEF PatchWithin, Active
    <3>2. ASSUME Active(l, Olds) = {} PROVE Active(t, Olds) = {}
      <4>1. \A q \in Olds : l[q].size = 0
        BY <1>0, <3>2, ListTyped DEF Active
      <4>2. \A q \in Olds : t[q].size = 0
        BY <1>0, <1>1, <2>1, <4>1, SetsAssumption DEF Patchable, OnlyNewGrows
      <4>. QED
        BY <1>1, <4>2 DEF Active
    <3>3. p.size <= Limit(i, n) => p.size <= Greater(Limit(i, n), LowerBound(n))
      <4>. DEFINE a == Limit(i, n)
                  b == LowerBound(n)
      <4>1. a \in Nat /\ b \in Nat
        BY <1>0, LowerBoundType, LimitType
      <4>. HIDE DEF a, b
      <4>2. p.size <= a => p.size <= Greater(a, b)
        BY <1>0, <4>1 DEF Greater
      <4>. QED
        BY <4>2 DEF a, b
    <3>. QED
      BY <1>1, <2>1, <3>1, <3>2, <3>3 DEF WithinStep
  <2>2. CASE p.rs # New
    <3>1. p.rs \in Active(l, Olds)
      BY <2>2 DEF PatchWithin
    <3>2. Active(s, Olds) # {}
      BY <1>0, <3>1 DEF Active
    <3>3. t[New] = s[New]
      BY <1>0, <1>1, <2>2
    <3>. QED
      BY <1>0, <1>1, <1>3, <3>2, <3>3 DEF WithinStep
  <2>. QED
    BY <2>1, <2>2
<1>. QED
  BY <1>2, <1>3 DEF t

(* What is patched is what was there: nothing that another list (c) shows  *)
(* as used up comes back.                                                  *)
LEMMA PatchKeepsSince ==
  ASSUME NEW s, NEW l, NEW p, NEW n, Patchable(s, l, p, n), NEW stage, NEW i,
         PatchWithin(stage, l, p, n, i), NEW c, IsList(c), OnlyNewGrows(s, c)
  PROVE  OnlyNewGrows(Patched(s, p, n), c)
<1>. DEFINE t == Patched(s, p, n)
<1>0. /\ IsList(s) /\ IsList(l) /\ New \in DOMAIN l /\ New \in DOMAIN s /\ n \in Nat
      /\ p.size \in Nat /\ p.rs \in DOMAIN s /\ s[p.rs] = l[p.rs]
  BY DEF Patchable, OnlyNewGrows
<1>1. /\ IsList(t) /\ DOMAIN t = DOMAIN s
      /\ \A r \in DOMAIN s : r # p.rs => t[r] = s[r]
      /\ t[p.rs].size = p.size
  BY <1>0, PatchedIs
<1>. HIDE DEF t
<1>2. /\ DOMAIN c \subseteq DOMAIN s /\ Olds \subseteq DOMAIN c
      /\ New \in DOMAIN c => s[New].size >= c[New].size
      /\ \A q \in Olds : c[q].size = 0 => s[q].size = 0
  BY DEF OnlyNewGrows
<1>3. ASSUME New \in DOMAIN c PROVE t[New].size >= c[New].size
  <2>1. CASE p.rs = New
    <3>1. p.size >= l[New].size /\ t[New].size = p.size
      BY <1>1, <2>1, SetsAssumption DEF PatchWithin, Active
    <3>2. l[New].size >= c[New].size /\ l[New].size \in Nat /\ c[New].size \in Nat
      BY <1>0, <1>2, <1>3, <2>1, ListTyped
    <3>. QED
      BY <1>0, <3>1, <3>2
  <2>2. CASE p.rs # New
    BY <1>0, <1>1, <1>2, <1>3, <2>2
  <2>. QED
    BY <2>1, <2>2
<1>4. ASSUME NEW q \in Olds, c[q].size = 0 PROVE t[q].size = 0
  <2>1. s[q].size = 0 /\ q \in DOMAIN s
    BY <1>2, <1>4
  <2>2. q # p.rs
    <3>1. q = p.rs => l[q].size > 0
      BY <1>4, SetsAssumption DEF PatchWithin, Active
    <3>. QED
      BY <1>0, <2>1, <3>1
  <2>. QED
    BY <1>1, <2>1, <2>2
<1>5. OnlyNewGrows(t, c)
  BY <1>1, <1>2, <1>3, <1>4 DEF OnlyNewGrows
<1>. QED
  BY <1>5 DEF t

(* The patch of a reconcile happens to its list, too.                      *)
LEMMA PatchKeepsListed ==
  ASSUME NEW s, NEW l, NEW p, NEW n, Patchable(s, l, p, n)
  PROVE  LET t == Patched(s, p, n)
             u == Patched(l, p, n)
         IN /\ IsList(t) /\ IsList(u) /\ New \in DOMAIN u
            /\ OnlyNewGrows(t, u)
<1>. DEFINE t == Patched(s, p, n)
            u == Patched(l, p, n)
<1>0. /\ IsList(s) /\ IsList(l) /\ New \in DOMAIN l /\ n \in Nat
      /\ p.size \in Nat /\ p.rs \in DOMAIN s /\ p.rs \in DOMAIN l /\ s[p.rs] = l[p.rs]
      /\ DOMAIN l \subseteq DOMAIN s /\ Olds \subseteq DOMAIN l
      /\ s[New].size >= l[New].size
      /\ \A q \in Olds : l[q].size = 0 => s[q].size = 0
  BY DEF Patchable, OnlyNewGrows
<1>1. /\ IsList(t) /\ DOMAIN t = DOMAIN s
      /\ \A r \in DOMAIN s : r # p.rs => t[r] = s[r]
      /\ t[p.rs].size = p.size
  BY <1>0, PatchedIs
<1>2. /\ IsList(u) /\ DOMAIN u = DOMAIN l
      /\ \A r \in DOMAIN l : r # p.rs => u[r] = l[r]
      /\ u[p.rs].size = p.size
  BY <1>0, PatchedIs
<1>. HIDE DEF t, u
<1>3. p.size >= p.size /\ p.size <= p.size
  BY <1>0
<1>4. t[New].size >= u[New].size
  <2>1. CASE p.rs = New
    BY <1>1, <1>2, <1>3, <2>1
  <2>2. CASE p.rs # New
    BY <1>0, <1>1, <1>2, <2>2
  <2>. QED
    BY <2>1, <2>2
<1>5. \A q \in Olds : u[q].size = 0 => t[q].size = 0
  <2>. TAKE q \in Olds
  <2>1. CASE q = p.rs
    BY <1>1, <1>2, <2>1
  <2>2. CASE q # p.rs
    BY <1>0, <1>1, <1>2, <2>2
  <2>. QED
    BY <2>1, <2>2
<1>6. OnlyNewGrows(t, u)
  BY <1>0, <1>1, <1>2, <1>4, <1>5 DEF OnlyNewGrows
<1>. QED
  BY <1>0, <1>1, <1>2, <1>6 DEF t, u

(* An old one is only patched when the new one has replicas.               *)
LEMMA PatchKeepsStart ==
  ASSUME NEW s, NEW l, NEW p, NEW n, Patchable(s, l, p, n), NEW stage, NEW i,
         PatchWithin(stage, l, p, n, i), PatchStarts(stage, l), WithinStart(s, n)
  PROVE  WithinStart(Patched(s, p, n), n)
<1>. DEFINE t == Patched(s, p, n)
            least == LowerBound(n)
<1>0. /\ IsList(s) /\ IsList(l) /\ New \in DOMAIN l /\ New \in DOMAIN s /\ n \in Nat
      /\ p.size \in Nat /\ p.rs \in DOMAIN s /\ s[p.rs] = l[p.rs]
      /\ s[New].size >= l[New].size
  BY DEF Patchable, OnlyNewGrows
<1>1. /\ IsList(t) /\ DOMAIN t = DOMAIN s
      /\ \A r \in DOMAIN s : r # p.rs => t[r] = s[r]
      /\ t[p.rs].size = p.size
  BY <1>0, PatchedIs
<1>. HIDE DEF t
<1>2. /\ least \in Nat /\ s[New].size \in Nat /\ l[New].size \in Nat
      /\ s[New].size >= least /\ (s[New].size = 0 => Total(s, Olds) = n)
  BY <1>0, LowerBoundType, ListTyped DEF WithinStart
<1>3. ASSUME p.rs = New PROVE WithinStart(t, n)
  <2>1. p.size >= l[New].size
    BY <1>3, SetsAssumption DEF PatchWithin, Active
  <2>2. Total(t, Olds) = Total(s, Olds)
    BY <1>0, <1>1, <1>3, OldsSame, SetsAssumption
  <2>3. t[New].size = p.size /\ s[New].size = l[New].size
    BY <1>0, <1>1, <1>3
  <2>. HIDE DEF least
  <2>4. t[New].size >= least /\ (t[New].size = 0 => s[New].size = 0)
    BY <1>0, <1>2, <2>1, <2>3
  <2>. QED
    BY <1>2, <2>2, <2>4 DEF WithinStart, least
<1>4. ASSUME p.rs # New PROVE WithinStart(t, n)
  <2>1. l[New].size > 0
    BY <1>4 DEF PatchWithin, PatchStarts
  <2>2. t[New] = s[New]
    BY <1>0, <1>1, <1>4
  <2>3. s[New].size # 0
    BY <1>0, <1>2, <2>1
  <2>. QED
    BY <1>2, <2>2, <2>3 DEF WithinStart
<1>. QED
  BY <1>3, <1>4 DEF t

(***************************************************************************)
(* And so does the rest of the cluster                                     *)
(***************************************************************************)
(* No ReplicaSet is resized, or the only active one is given all replicas, *)
(* or an old one is taken away when the new one has them all.              *)
Moves(t, s, n) ==
  /\ IsList(t) /\ DOMAIN t = DOMAIN s /\ \A r \in DOMAIN s : t[r].desired = n
  /\ \/ \A r \in DOMAIN s : t[r].size = s[r].size
     \/ \E r \in DOMAIN s :
          /\ \A q \in DOMAIN s \ {r} : t[q].size = s[q].size
          /\ \/ r = New /\ Active(s, Olds) = {} /\ t[r].size = n
             \/ /\ New \in DOMAIN s /\ r \in Active(s, Olds)
                /\ \/ t[r].size = 0 /\ s[New].size = n
                   \/ /\ t[r].size = n /\ s[New].size = 0 /\ s[r].size # n
                      /\ \A q \in Olds \cap DOMAIN s : q # r => s[q].size = 0

LEMMA MovesKeepAll ==
  ASSUME NEW s, IsList(s), NEW t, NEW n \in Nat, Moves(t, s, n), WithinAll(s, n),
         NEW i \in 0 .. Len(Steps) - 1
  PROVE  /\ WithinAll(t, n)
         /\ WithinStep(s, n, i) => WithinStep(t, n, i)
<1>0. IsList(t) /\ DOMAIN t = DOMAIN s /\ \A r \in DOMAIN s : t[r].desired = n
  BY DEF Moves
<1>1. \A r \in DOMAIN s : s[r].size \in Nat /\ t[r].size \in Nat /\ r \in Sets
  BY <1>0, ListTyped
<1>2. /\ New \in DOMAIN s => s[New].size <= n
      /\ New \notin DOMAIN s => Total(s, Olds) = n
  BY DEF WithinAll
<1>3. CASE \A r \in DOMAIN s : t[r].size = s[r].size
  <2>1. Total(t, Olds) = Total(s, Olds)
    BY <1>0, <1>3, OldsSame
  <2>2. Active(t, Olds) = Active(s, Olds)
    BY <1>0, <1>3 DEF Active
  <2>. QED
    BY <1>0, <1>2, <1>3, <2>1, <2>2 DEF WithinAll, WithinStep
<1>4. ASSUME NEW r \in DOMAIN s, \A q \in DOMAIN s \ {r} : t[q].size = s[q].size,
             r = New, Active(s, Olds) = {}, t[r].size = n
      PROVE  WithinAll(t, n) /\ Active(t, Olds) = {}
  <2>1. Active(t, Olds) = Active(s, Olds)
    BY <1>0, <1>4, SetsAssumption DEF Active
  <2>. QED
    BY <1>0, <1>4, <2>1 DEF WithinAll
<1>5. ASSUME NEW r \in DOMAIN s, \A q \in DOMAIN s \ {r} : t[q].size = s[q].size,
             New \in DOMAIN s, r \in Active(s, Olds)
      PROVE  /\ WithinAll(t, n)
             /\ WithinStep(s, n, i) => WithinStep(t, n, i)
  <2>1. r # New
    BY <1>5, SetsAssumption DEF Active
  <2>2. t[New].size = s[New].size
    BY <1>5, <2>1
  <2>3. Active(s, Olds) # {}
    BY <1>5
  <2>. QED
    BY <1>0, <1>2, <1>5, <2>2, <2>3 DEF WithinAll, WithinStep
<1>. QED
  BY <1>3, <1>4, <1>5 DEF Moves, WithinStep

LEMMA MovesKeepStart ==
  ASSUME NEW s, IsList(s), NEW t, NEW n \in Nat, Moves(t, s, n), WithinStart(s, n)
  PROVE  WithinStart(t, n)
<1>. SUFFICES ASSUME New \in DOMAIN t PROVE WithinStart(t, n)
  BY DEF WithinStart
<1>. DEFINE least == LowerBound(n)
<1>0. IsList(t) /\ DOMAIN t = DOMAIN s /\ New \in DOMAIN s
  BY DEF Moves
<1>1. \A r \in DOMAIN s : s[r].size \in Nat /\ t[r].size \in Nat /\ r \in Sets
  BY <1>0, ListTyped
<1>2. /\ least \in 0 .. n /\ s[New].size >= least
      /\ s[New].size = 0 => Total(s, Olds) = n
  BY <1>0, LowerBoundType DEF WithinStart
<1>3. CASE \A r \in DOMAIN s : t[r].size = s[r].size
  <2>1. Total(t, Olds) = Total(s, Olds)
    BY <1>0, <1>3, OldsSame
  <2>. QED
    BY <1>0, <1>2, <1>3, <2>1 DEF WithinStart
<1>4. ASSUME NEW r \in DOMAIN s, \A q \in DOMAIN s \ {r} : t[q].size = s[q].size,
             r = New, Active(s, Olds) = {}, t[r].size = n
      PROVE  WithinStart(t, n)
  <2>1. \A q \in Olds \cap DOMAIN s : t[q].size = s[q].size
    BY <1>4, SetsAssumption
  <2>2. Total(t, Olds) = 0
    BY <1>0, <1>4, <2>1, OldsSame, OldsNone
  <2>. HIDE DEF least
  <2>3. t[New].size >= least
    BY <1>2, <1>4
  <2>. QED
    BY <1>4, <2>2, <2>3 DEF WithinStart, least
<1>5. ASSUME NEW r \in DOMAIN s, \A q \in DOMAIN s \ {r} : t[q].size = s[q].size,
             r \in Active(s, Olds),
             \/ s[New].size = n
             \/ s[r].size # n /\ \A q \in Olds \cap DOMAIN s : q # r => s[q].size = 0
      PROVE  WithinStart(t, n)
  <2>1. r \in Olds \cap DOMAIN s /\ r # New /\ s[r].size > 0
    BY <1>5, SetsAssumption DEF Active
  <2>2. t[New].size = s[New].size
    BY <1>0, <1>5, <2>1
  <2>3. s[New].size # 0
    <3>. SUFFICES ASSUME s[New].size = 0 PROVE FALSE
      OBVIOUS
    <3>1. PICK k \in Nat : /\ Total(s, Olds) = s[r].size + k
                           /\ (\A q \in Olds \cap DOMAIN s : q # r => s[q].size = 0) => k = 0
      BY <2>1, OldsSplit
    <3>2. n = s[r].size + k /\ s[r].size \in Nat
      BY <1>1, <1>2, <3>1
    <3>3. n # 0
      BY <2>1, <3>2
    <3>4. k = 0 => s[r].size = n
      BY <3>2
    <3>. QED
      BY <1>5, <3>1, <3>3, <3>4
  <2>. QED
    BY <1>2, <2>2, <2>3 DEF WithinStart
<1>. QED
  BY <1>3, <1>4, <1>5 DEF Moves

LEMMA MovesKeepSince ==
  ASSUME NEW s, IsList(s), NEW t, NEW n \in Nat, Moves(t, s, n), WithinAll(s, n),
         NEW l, IsList(l), OnlyNewGrows(s, l)
  PROVE  OnlyNewGrows(t, l)
<1>0. /\ IsList(t) /\ DOMAIN t = DOMAIN s /\ DOMAIN l \subseteq DOMAIN s /\ Olds \subseteq DOMAIN l
      /\ New \in DOMAIN l => s[New].size >= l[New].size
      /\ \A q \in Olds : l[q].size = 0 => s[q].size = 0
  BY DEF Moves, OnlyNewGrows
<1>1. /\ \A r \in DOMAIN s : s[r].size \in Nat /\ t[r].size \in Nat /\ r \in Sets
      /\ \A r \in DOMAIN l : l[r].size \in Nat
  BY <1>0, ListTyped
<1>2. CASE \A r \in DOMAIN s : t[r].size = s[r].size
  BY <1>0, <1>2 DEF OnlyNewGrows
<1>3. ASSUME NEW r \in DOMAIN s, \A q \in DOMAIN s \ {r} : t[q].size = s[q].size,
             r = New, t[r].size = n
      PROVE  OnlyNewGrows(t, l)
  <2>1. \A q \in Olds : t[q].size = s[q].size
    BY <1>0, <1>3, SetsAssumption
  <2>2. ASSUME New \in DOMAIN l PROVE n >= l[New].size
    <3>1. s[New].size <= n /\ s[New].size >= l[New].size /\ s[New].size \in Nat /\ l[New].size \in Nat
      BY <1>0, <1>1, <1>3, <2>2 DEF WithinAll
    <3>. QED
      BY <3>1
  <2>. QED
    BY <1>0, <1>3, <2>1, <2>2 DEF OnlyNewGrows
<1>4. ASSUME NEW r \in DOMAIN s, \A q \in DOMAIN s \ {r} : t[q].size = s[q].size,
             r \in Active(s, Olds)
      PROVE  OnlyNewGrows(t, l)
  <2>1. r # New /\ s[r].size > 0 /\ r \in Olds
    BY <1>4, SetsAssumption DEF Active
  <2>2. New \in DOMAIN l => t[New].size = s[New].size
    BY <1>0, <1>4, <2>1
  <2>3. ASSUME NEW q \in Olds, l[q].size = 0 PROVE t[q].size = 0
    <3>1. s[q].size = 0
      BY <1>0, <2>3
    <3>2. q # r
      BY <2>1, <3>1
    <3>. QED
      BY <1>0, <1>4, <3>1, <3>2
  <2>. QED
    BY <1>0, <2>2, <2>3 DEF OnlyNewGrows
<1>. QED
  BY <1>2, <1>3, <1>4 DEF Moves

LEMMA NativeMoves ==
  ASSUME TypeInductive, NEW r, NEW m \in Nat, NativeResizes(r, m), WithinAll(rs, replicas),
         \/ r \in FindActiveOrLatest(rs) /\ m = replicas
         \/ IsSaturated(rs, replicas) /\ r \in Active(rs, Olds) /\ m = 0
  PROVE  Moves(rs', rs, replicas)
<1>0. IsList(rs) /\ replicas \in Nat
  BY TypedFacts
<1>1. /\ r \notin DOMAIN rs => rs' = rs
      /\ r \in DOMAIN rs => Changes(rs', rs, r) /\ rs'[r].size = m
  BY NativeResizesOne
<1>2. \A q \in DOMAIN rs : rs[q].desired = replicas /\ rs[q].size \in Nat /\ q \in Sets
  BY <1>0, ListTyped DEF WithinAll
<1>3. CASE r \notin DOMAIN rs
  BY <1>0, <1>1, <1>2, <1>3 DEF Moves
<1>4. CASE r \in DOMAIN rs
  <2>1. IsList(rs') /\ DOMAIN rs' = DOMAIN rs /\ \A q \in DOMAIN rs \ {r} : rs'[q] = rs[q]
    BY <1>1, <1>4 DEF Changes
  <2>2. rs'[r].desired = replicas /\ rs[r].size # m
    <3>1. rs[r] \in SetType
      BY <1>0, <1>4, ListTyped
    <3>2. rs'[r] = [rs[r] EXCEPT !.size = m, !.desired = replicas, !.max = replicas]
      BY <1>4 DEF NativeResizes
    <3>3. \A x \in SetType :
            [x EXCEPT !.size = m, !.desired = replicas, !.max = replicas].desired = replicas
      BY DEF SetType
    <3>. QED
      BY <3>1, <3>2, <3>3 DEF NativeResizes
  <2>3. \A q \in DOMAIN rs : rs'[q].desired = replicas
    BY <1>2, <2>1, <2>2
  <2>4. \A q \in DOMAIN rs \ {r} : rs'[q].size = rs[q].size
    BY <2>1
  <2>5. CASE r \in FindActiveOrLatest(rs) /\ m = replicas
    <3>1. /\ \A x \in DOMAIN rs \ {r} : rs[x].size = 0
          /\ New \in DOMAIN rs => r = New \/ rs[r].size > 0
      BY <1>0, <2>5, OnlyActive
    <3>2. CASE r = New
      <4>1. Active(rs, Olds) = {}
        BY <1>2, <3>1, <3>2, SetsAssumption DEF Active
      <4>. QED
        BY <1>1, <1>4, <2>1, <2>3, <2>4, <2>5, <3>2, <4>1 DEF Moves
    <3>3. CASE r # New
      <4>1. r \in Olds \cap DOMAIN rs
        BY <1>2, <1>4, <3>3 DEF Sets
      <4>2. \A q \in Olds \cap DOMAIN rs : q # r => rs[q].size = 0
        BY <3>1
      <4>3. PICK k \in Nat : Total(rs, Olds) = rs[r].size + k /\ k = 0
        BY <1>0, <4>1, <4>2, OldsSplit
      <4>4. rs[r].size # replicas
        BY <2>2, <2>5
      <4>5. New \in DOMAIN rs
        <5>1. Total(rs, Olds) = rs[r].size
          BY <1>2, <1>4, <4>3
        <5>. QED
          BY <4>4, <5>1 DEF WithinAll
      <4>6. r \in Active(rs, Olds) /\ rs[New].size = 0
        BY <3>1, <3>3, <4>1, <4>5 DEF Active
      <4>. QED
        BY <1>1, <1>4, <2>1, <2>3, <2>4, <2>5, <4>2, <4>4, <4>5, <4>6 DEF Moves
    <3>. QED
      BY <3>2, <3>3
  <2>6. CASE IsSaturated(rs, replicas) /\ r \in Active(rs, Olds) /\ m = 0
    <3>1. New \in DOMAIN rs /\ rs[New].size = replicas
      BY <2>6 DEF IsSaturated
    <3>. QED
      BY <1>1, <1>4, <2>1, <2>3, <2>4, <2>6, <3>1 DEF Moves
  <2>. QED
    BY <2>5, <2>6
<1>. QED
  BY <1>3, <1>4

LEMMA StaysWhere ==
  ASSUME IsList(rs), replicas \in Nat, WithinAll(rs, replicas), IsList(rs'),
         DOMAIN rs' = DOMAIN rs,
         \A r \in DOMAIN rs : rs'[r].size = rs[r].size /\ rs'[r].desired = rs[r].desired
  PROVE  Moves(rs', rs, replicas)
BY DEF Moves, WithinAll

LEMMA ClusterMoves ==
  ASSUME TypeInductive, WithinAll(rs, replicas), Cluster \/ UNCHANGED vars, scales' = scales
  PROVE  Moves(rs', rs, replicas) /\ replicas' = replicas
<1>0. IsList(rs) /\ replicas \in Nat /\ scales \in Nat
  BY TypeParts, TypedFacts, BoundsType DEF CountersTyped
<1>1. CASE Pod \/ \E r \in DOMAIN rs : PodFails(r)
  <2>0. PICK r \in DOMAIN rs, d \in Nat : \A k \in Nat : PodsChange(rs', k + d, rs, k, r)
    BY <1>1, PodSteps
  <2>1. PodsChange(rs', 0 + d, rs, 0, r)
    BY <2>0
  <2>2. IsList(rs') /\ DOMAIN rs' = DOMAIN rs /\ \A x \in DOMAIN rs \ {r} : rs'[x] = rs[x]
    BY <2>1 DEF PodsChange, Changes
  <2>3. rs'[r].size = rs[r].size /\ rs'[r].desired = rs[r].desired
    BY <2>1 DEF PodsChange
  <2>4. \A x \in DOMAIN rs : rs'[x].size = rs[x].size /\ rs'[x].desired = rs[x].desired
    BY <2>2, <2>3
  <2>5. replicas' = replicas
    BY <1>1 DEF Pod, ReplicaSetControllerActs, PodBecomesReady, PodFails
  <2>. QED
    BY <1>0, <2>2, <2>4, <2>5, StaysWhere
<1>2. CASE NativeScales
  <2>1. CASE \E r \in FindActiveOrLatest(rs) : NativeResizes(r, replicas)
    <3>1. PICK r \in FindActiveOrLatest(rs) : NativeResizes(r, replicas)
      BY <2>1
    <3>. QED
      BY <1>0, <3>1, NativeMoves, NativeResizesOne
  <2>2. CASE IsSaturated(rs, replicas) /\ \E r \in Active(rs, Olds) : NativeResizes(r, 0)
    <3>1. PICK r \in Active(rs, Olds) : NativeResizes(r, 0)
      BY <2>2
    <3>. QED
      BY <1>0, <2>2, <3>1, NativeMoves, NativeResizesOne
  <2>. QED
    BY <1>2, <2>1, <2>2 DEF NativeScales
<1>3. CASE NativeReports \/ Deliver \/ UserContinues \/ UNCHANGED vars
  <2>1. rs' = rs /\ replicas' = replicas
    BY <1>3 DEF NativeReports, Deliver, UserContinues, vars, world
  <2>. QED
    BY <1>0, <2>1, StaysWhere
<1>4. CASE \E n \in Targets : UserScales(n)
  <2>1. scales' = scales + 1
    BY <1>4 DEF UserScales
  <2>. QED
    BY <1>0, <2>1
<1>. QED
  BY <1>1, <1>2, <1>3, <1>4 DEF Cluster

(***************************************************************************)
(* The sizes of an unscaled Deployment                                     *)
(***************************************************************************)
(* Nothing has happened to what has just been copied.                      *)
LEMMA ListedSelf ==
  ASSUME NEW s, IsList(s), Olds \subseteq DOMAIN s, NEW n, NEW i, SizesWithin(s, n, i)
  PROVE  ListedWithin(s, s, n)
<1>1. \A r \in DOMAIN s : s[r].size \in Nat
  BY ListTyped
<1>2. \A r \in DOMAIN s : s[r].size >= s[r].size
  BY <1>1
<1>. QED
  BY <1>2 DEF SizesWithin, ListedWithin, OnlyNewGrows

LEMMA UnscaledInit == Init => UnscaledInductive
<1>. SUFFICES ASSUME Init PROVE Unscaled
  BY DEF UnscaledInductive
<1>. DEFINE n == replicas
            old == Total(rs, Olds)
            w == rs[New].size
<1>0. IsList(rs) /\ n \in Nat /\ n \in Replicas /\ pc = "idle" /\ idx = 0
  BY TypeInit, TypedFacts DEF Init
<1>1. PICK size \in [IF NewExists THEN Sets ELSE Olds -> 0 .. replicas] :
        /\ SumFunction(size) = replicas
        /\ rs = [r \in DOMAIN size |->
                   [size |-> size[r], pods |-> size[r], ready |-> size[r],
                    desired |-> replicas, max |-> replicas + MaxSurge(replicas)]]
  BY DEF Init
<1>2. /\ DOMAIN rs = IF NewExists THEN Sets ELSE Olds
      /\ \A r \in DOMAIN rs : rs[r].size = size[r] /\ rs[r].desired = n
  BY <1>1
<1>3. Total(rs, Sets) = n
  <2>1. [r \in DOMAIN rs |-> rs[r].size] = size
    BY <1>1, <1>2
  <2>2. Sets \cap DOMAIN rs = DOMAIN size
    BY <1>1, <1>2 DEF Sets
  <2>. QED
    BY <1>1, <2>1, <2>2 DEF Total, SumFunction
<1>4. New \in DOMAIN rs <=> NewExists
  BY <1>2, SetsAssumption DEF Sets
<1>5. old \in Nat /\ MaxSurge(n) \in Nat
  BY <1>0, SumsType, SurgeType
<1>6. ASSUME New \in DOMAIN rs PROVE w \in Nat /\ old + w = n
  BY <1>0, <1>3, <1>6, ListTyped, OldsAndNew
<1>7. ASSUME New \notin DOMAIN rs PROVE old = n
  BY <1>0, <1>3, <1>7, OldsAndNew
<1>8. WithinAll(rs, n)
  <2>1. New \in DOMAIN rs => w <= n
    BY <1>5, <1>6
  <2>. QED
    BY <1>2, <1>7, <2>1 DEF WithinAll
<1>9. ASSUME RoomToStart PROVE WithinStart(rs, n)
  <2>1. ASSUME New \in DOMAIN rs PROVE w >= LowerBound(n) /\ (w = 0 => old = n)
    <3>1. MaxSurge(n) > 0
      BY <1>0, <1>4, <1>9, <2>1 DEF RoomToStart
    <3>2. LowerBound(n) = 0
      BY <3>1 DEF LowerBound, NewRSReplicasLowerBound
    <3>. QED
      BY <1>0, <1>5, <1>6, <2>1, <3>2
  <2>. QED
    BY <2>1 DEF WithinStart
<1>10. ASSUME RisingPlan PROVE WithinStep(rs, n, 0)
  <2>1. ASSUME New \in DOMAIN rs, Active(rs, Olds) # {}
        PROVE  w <= Greater(Limit(0, n), LowerBound(n))
    <3>. DEFINE least == Greater(Limit(0, n), LowerBound(n))
    <3>1. n - 1 <= least
      BY <1>0, <1>4, <1>10, <2>1 DEF RisingPlan
    <3>2. old > 0
      BY <1>0, <1>5, <2>1, OldsNone
    <3>3. least \in Int
      BY <1>0, FirstStep, LimitType, LowerBoundType DEF Greater
    <3>. HIDE DEF least
    <3>4. w <= least
      BY <1>0, <1>5, <1>6, <2>1, <3>1, <3>2, <3>3
    <3>. QED
      BY <3>4 DEF least
  <2>. QED
    BY <2>1 DEF WithinStep
<1>11. SizesWithin(rs, replicas, idx)
  BY <1>0, <1>8, <1>9, <1>10 DEF SizesWithin
<1>12. cache.rs = rs
  <2>1. cache = Copied(rs, 0)
    BY DEF Init
  <2>. QED
    BY <2>1 DEF Copied
<1>13. Olds \subseteq DOMAIN rs
  BY <1>2 DEF Sets
<1>14. ListedWithin(rs, cache.rs, replicas)
  BY <1>0, <1>11, <1>12, <1>13, ListedSelf
<1>. QED
  BY <1>0, <1>11, <1>14 DEF Unscaled

LEMMA UnscaledStarts ==
  ASSUME TypeInductive, Unscaled, StartSync \/ StartUpgrade \/ StartStep
  PROVE  Unscaled'
<1>. DEFINE l == cache.rs
            stage == UpgradeStage(l, replicas, idx)
<1>0. IsList(l) /\ replicas \in Nat /\ idx \in 0 .. Len(Steps) - 1
  BY TypedFacts
<1>1. /\ rs' = rs /\ cache' = cache /\ replicas' = replicas /\ idx' = idx
      /\ rec'.rs = l /\ rec'.replicas = replicas
      /\ \/ /\ pc' = "sync" /\ IsScalingEvent(l, replicas)
            /\ rec'.todo = Scale(l, replicas)
         \/ pc' = "step" /\ rec'.todo = <<>>
         \/ pc' = "create" /\ rec'.todo = <<>>
         \/ /\ New \in DOMAIN l /\ pc' = stage.pc /\ rec'.todo = stage.todo
            /\ pc' \in {"new", "up", "down"}
  BY Starts
<1>2. /\ ListedWithin(rs, l, replicas) /\ WithinAll(l, replicas)
      /\ RoomToStart => WithinStart(l, replicas)
  BY DEF Unscaled, ListedWithin
<1>3. ~IsScalingEvent(l, replicas)
  BY <1>2 DEF WithinAll, IsScalingEvent, Active
<1>. HIDE DEF l
<1>4. PlannedWithin(pc', l, rec'.todo, replicas, idx)
  <2>1. CASE rec'.todo = <<>>
    BY <2>1 DEF PlannedWithin
  <2>2. CASE New \in DOMAIN l /\ pc' = stage.pc /\ rec'.todo = stage.todo
    <3>1. l[New].size <= replicas
      BY <1>2, <2>2 DEF WithinAll
    <3>2. PlannedWithin(stage.pc, l, stage.todo, replicas, idx)
      BY <1>0, <1>2, <2>2, <3>1, StagePlannedWithin
    <3>. HIDE DEF stage
    <3>. QED
      BY <2>2, <3>2
  <2>. QED
    BY <1>1, <1>3, <2>1, <2>2
<1>5. pc' # "sync"
  BY <1>1, <1>3
<1>. HIDE DEF stage
<1>. QED
  BY <1>1, <1>2, <1>4, <1>5 DEF Unscaled, l

(* The new ReplicaSet on a list, too: it is as it was found, or as the     *)
(* informer has it.                                                        *)
LEMMA WithNewWithin ==
  ASSUME NEW l, IsList(l), New \notin DOMAIN l, NEW n \in Nat, WithinAll(l, n),
         NEW q \in SetType, q.desired = n, q.size <= n
  PROVE  LET u == WithNew(l, q)
         IN /\ IsList(u) /\ New \in DOMAIN u /\ WithinAll(u, n)
            /\ q.size >= LowerBound(n) => WithinStart(u, n)
<1>. DEFINE u == WithNew(l, q)
<1>1. /\ IsList(u) /\ DOMAIN u = DOMAIN l \cup {New}
      /\ \A r \in DOMAIN u : u[r] = IF r \in DOMAIN l THEN l[r] ELSE q
  BY WithNewType
<1>. HIDE DEF u
<1>2. New \in DOMAIN u /\ u[New] = q
  BY <1>1
<1>3. Total(u, Olds) = n
  <2>1. Olds \cap DOMAIN u = Olds \cap DOMAIN l /\ \A x \in Olds \cap DOMAIN l : u[x].size = l[x].size
    BY <1>1, SetsAssumption
  <2>. QED
    BY <1>1, <2>1, OldsSame DEF WithinAll
<1>4. WithinAll(u, n)
  BY <1>1, <1>2 DEF WithinAll
<1>5. q.size >= LowerBound(n) => WithinStart(u, n)
  BY <1>2, <1>3 DEF WithinStart
<1>. QED
  BY <1>1, <1>2, <1>4, <1>5 DEF u

(* The old ones are on every list, and the new one has grown since.        *)
LEMMA WithNewGrows ==
  ASSUME NEW s, NEW l, New \notin DOMAIN l, OnlyNewGrows(s, l), NEW q
  PROVE  /\ New \notin DOMAIN s /\ q.size \in Nat => OnlyNewGrows(WithNew(s, q), WithNew(l, q))
         /\ New \notin DOMAIN s => OnlyNewGrows(WithNew(s, q), l)
         /\ New \in DOMAIN s /\ s[New].size >= q.size => OnlyNewGrows(s, WithNew(l, q))
<1>. DEFINE t == WithNew(s, q)
            u == WithNew(l, q)
<1>1. /\ DOMAIN t = DOMAIN s \cup {New} /\ DOMAIN u = DOMAIN l \cup {New}
      /\ \A r \in DOMAIN t : t[r] = IF r \in DOMAIN s THEN s[r] ELSE q
      /\ \A r \in DOMAIN u : u[r] = IF r \in DOMAIN l THEN l[r] ELSE q
  BY DEF WithNew
<1>. HIDE DEF t, u
<1>2. /\ DOMAIN l \subseteq DOMAIN s /\ Olds \subseteq DOMAIN l
      /\ \A r \in Olds : l[r].size = 0 => s[r].size = 0
  BY DEF OnlyNewGrows
<1>3. u[New] = q /\ \A r \in Olds : u[r] = l[r] /\ t[r] = s[r]
  BY <1>1, <1>2
<1>4. ASSUME New \notin DOMAIN s, q.size \in Nat PROVE OnlyNewGrows(t, u)
  <2>1. t[New] = q /\ q.size >= q.size
    BY <1>1, <1>4
  <2>. QED
    BY <1>1, <1>2, <1>3, <2>1 DEF OnlyNewGrows
<1>5. ASSUME New \notin DOMAIN s PROVE OnlyNewGrows(t, l)
  BY <1>1, <1>2, <1>3, <1>5 DEF OnlyNewGrows
<1>6. ASSUME New \in DOMAIN s, s[New].size >= q.size PROVE OnlyNewGrows(s, u)
  BY <1>1, <1>2, <1>3, <1>6 DEF OnlyNewGrows
<1>. QED
  BY <1>4, <1>5, <1>6 DEF t, u

(* What getNewReplicaSet goes on with, or not.                             *)
LEMMA UnscaledGoesOn ==
  ASSUME TypeInductive, Unscaled, pc = "create", Goes,
         IsList(rs'), SizesWithin(rs', replicas, idx), ListedWithin(rs', cache'.rs, replicas),
         OnlyNewGrows(rs', rec.rs), NEW q \in SetType,
         \/ GivesUp
         \/ /\ GoesOnWith(q) /\ OnlyNewGrows(rs', WithNew(rec.rs, q))
            /\ q.desired = replicas /\ q.size <= replicas
            /\ RoomToStart => q.size >= LowerBound(replicas)
  PROVE  Unscaled'
<1>. DEFINE n == replicas
            l == rec.rs
            u == WithNew(l, q)
            stage == UpgradeStage(u, n, idx)
<1>1. /\ idx' = idx /\ replicas' = n /\ rec'.replicas = n /\ rec.replicas = n
      /\ ListedWithin(rs, l, n) /\ n \in Replicas
  BY DEF Goes, Unscaled
<1>2. /\ IsList(l) /\ n \in Nat /\ idx \in 0 .. Len(Steps) - 1
      /\ New \notin DOMAIN l /\ rec.todo = <<>>
  BY TypedFacts
<1>3. CASE GivesUp
  <2>1. rec'.rs = l /\ rec'.todo = <<>> /\ pc' = "new"
    BY <1>3 DEF GivesUp
  <2>2. PlannedWithin(pc', rec'.rs, rec'.todo, n, idx)
    BY <2>1 DEF PlannedWithin
  <2>3. ListedWithin(rs', l, n)
    BY <1>1 DEF ListedWithin
  <2>. QED
    BY <1>1, <2>1, <2>2, <2>3 DEF Unscaled
<1>4. CASE ~GivesUp
  <2>1. /\ rec'.rs = u /\ pc' = stage.pc /\ rec'.todo = stage.todo
        /\ pc' \in {"new", "up", "down"} /\ OnlyNewGrows(rs', u)
        /\ q.desired = n /\ q.size <= n /\ (RoomToStart => q.size >= LowerBound(n))
    BY <1>1, <1>4 DEF GoesOnWith
  <2>2. WithinAll(l, n)
    BY <1>1 DEF ListedWithin
  <2>. HIDE DEF u, l, n
  <2>3. IsList(u) /\ New \in DOMAIN u /\ WithinAll(u, n) /\ (RoomToStart => WithinStart(u, n))
    BY <1>2, <2>1, <2>2, WithNewWithin DEF u
  <2>4. PlannedWithin(stage.pc, u, stage.todo, n, idx)
    <3>1. u[New].size <= n
      BY <2>3 DEF WithinAll
    <3>. QED
      BY <1>2, <2>3, <3>1, StagePlannedWithin
  <2>5. ListedWithin(rs', u, n)
    BY <2>1, <2>3 DEF ListedWithin
  <2>. HIDE DEF stage
  <2>. QED
    BY <1>1, <2>1, <2>4, <2>5 DEF Unscaled, n
<1>. QED
  BY <1>3, <1>4

LEMMA UnscaledCreates ==
  ASSUME TypeInductive, GrowthInductive, Unscaled, CreateNew \/ FindCreated \/ CreateFails
  PROVE  Unscaled'
<1>. DEFINE n == replicas
            l == rec.rs
<1>0. pc = "create" /\ Goes /\ (Finds \/ \E q : Creates(q))
  BY Creating
<1>1. /\ IsList(rs) /\ IsList(l) /\ IsList(cache.rs) /\ n \in Nat /\ idx \in 0 .. Len(Steps) - 1
      /\ New \notin DOMAIN l
  BY <1>0, TypedFacts
<1>2. /\ rec.replicas = n /\ SizesWithin(rs, n, idx)
      /\ ListedWithin(rs, l, n) /\ ListedWithin(rs, cache.rs, n)
  BY <1>0 DEF Unscaled
<1>3. WithinAll(rs, n) /\ WithinAll(l, n) /\ OnlyNewGrows(rs, l)
  BY <1>2 DEF SizesWithin, ListedWithin
<1>4. \E q : q \in SetType
  <2>1. [size |-> 0, pods |-> 0, ready |-> 0, desired |-> 0, max |-> 0] \in SetType
    BY DEF SetType
  <2>. QED BY <2>1
<1>5. CASE Finds
  <2>1. rs' = rs /\ cache' = cache
    BY <1>5 DEF Finds
  <2>2. CASE GivesUp
    BY <1>0, <1>1, <1>2, <1>3, <1>4, <2>1, <2>2, UnscaledGoesOn
  <2>3. CASE New \in DOMAIN rs /\ New \in DOMAIN cache.rs /\ GoesOnWith(cache.rs[New])
    <3>. DEFINE q == cache.rs[New]
    <3>1. q \in SetType /\ GoesOnWith(q)
      BY <1>1, <2>3 DEF IsList
    <3>2. q.desired = n /\ q.size <= n /\ (RoomToStart => q.size >= LowerBound(n))
      BY <1>2, <2>3 DEF ListedWithin, WithinAll, WithinStart
    <3>3. New \in DOMAIN rs /\ rs[New].size >= q.size
      BY <1>2, <2>3 DEF ListedWithin, OnlyNewGrows
    <3>. HIDE DEF q
    <3>4. OnlyNewGrows(rs, WithNew(l, q))
      BY <1>1, <1>3, <3>3, WithNewGrows
    <3>. QED
      BY <1>0, <1>1, <1>2, <1>3, <2>1, <3>1, <3>2, <3>4, UnscaledGoesOn
  <2>. QED
    BY <1>5, <2>2, <2>3 DEF Finds
<1>6. ASSUME NEW q, Creates(q) PROVE Unscaled'
  <2>. DEFINE t == WithNew(rs, q)
  <2>1. /\ New \notin DOMAIN rs /\ IsFresh(q) /\ rs' = t /\ Missable
        /\ GoesOnWith(q) \/ GivesUp
    BY <1>6 DEF Creates
  <2>2. FreshWithin(q, n, idx)
    <3>1. Total(l, Olds) = n
      BY <1>1, <1>3 DEF WithinAll
    <3>. QED
      BY <1>0, <1>2, <2>1, <3>1, FreshIsWithin
  <2>3. /\ q \in SetType /\ q.desired = n /\ q.size <= n /\ q.size >= LowerBound(n)
        /\ q.size \in Nat
    <3>1. q \in SetType /\ q.desired = n /\ q.size \in LowerBound(n) .. n
      BY <2>2 DEF FreshWithin
    <3>2. LowerBound(n) \in Nat
      BY <1>1, LowerBoundType
    <3>. QED
      BY <1>1, <3>1, <3>2 DEF SetType
  <2>4. IsList(t) /\ SizesWithin(t, n, idx)
    BY <1>1, <1>3, <2>1, <2>2, FreshKeepsWithin DEF SizesWithin
  <2>5. /\ OnlyNewGrows(t, l) /\ OnlyNewGrows(t, WithNew(l, q))
        /\ OnlyNewGrows(t, cache.rs)
    <3>1. OnlyNewGrows(rs, cache.rs) /\ New \notin DOMAIN cache.rs
      BY <1>2, <2>1 DEF ListedWithin, OnlyNewGrows
    <3>. QED
      BY <1>1, <1>3, <2>1, <2>3, <3>1, WithNewGrows
  <2>6. ListedWithin(rs', cache'.rs, n)
    <3>1. ListedWithin(t, cache.rs, n)
      BY <1>2, <2>5 DEF ListedWithin
    <3>2. Olds \subseteq DOMAIN t
      BY <2>5 DEF OnlyNewGrows
    <3>3. cache'.rs = rs' \/ cache'.rs = cache.rs
      BY <2>1 DEF Missable, Copied
    <3>. HIDE DEF t
    <3>. QED
      BY <2>1, <2>4, <3>1, <3>2, <3>3, ListedSelf
  <2>. HIDE DEF t
  <2>. QED
    BY <1>0, <2>1, <2>3, <2>4, <2>5, <2>6, UnscaledGoesOn
<1>. QED
  BY <1>0, <1>5, <1>6

LEMMA UnscaledPatches ==
  ASSUME TypeInductive, GrowthInductive, PlanInductive, Unscaled, PatchNext
  PROVE  Unscaled'
<1>. DEFINE n == replicas
            l == rec.rs
            todo == rec.todo
            p == Head(todo)
            t == Patched(rs, p, n)
            u == Patched(l, p, n)
<1>0. /\ todo # <<>> /\ p.size \in Nat /\ rs[p.rs] = l[p.rs] /\ pc # "idle"
      /\ rec.replicas = n /\ n \in Replicas
      /\ SizesWithin(rs, n, idx) /\ ListedWithin(rs, l, n) /\ ListedWithin(rs, cache.rs, n)
      /\ PlannedWithin(pc, l, todo, n, idx)
  <2>1. todo # <<>> /\ p.size \in Nat /\ rs[p.rs] = l[p.rs] /\ pc # "idle"
    BY Patches
  <2>. QED
    BY <2>1 DEF Unscaled
<1>1. /\ pc \in {"new", "up", "down"}
      /\ pc \in {"new", "up"} => todo = <<p>> /\ PatchWithin(pc, l, p, n, idx)
      /\ RoomToStart => PatchStarts(pc, l)
  BY <1>0 DEF PlannedWithin
<1>2. /\ IsList(rs) /\ IsList(l) /\ IsList(cache.rs) /\ n \in Nat /\ idx \in 0 .. Len(Steps) - 1
  BY TypedFacts
<1>3. New \in DOMAIN l
  <2>1. LocalsTyped
    BY TypeParts
  <2>. QED
    BY <1>0, <1>1, <2>1 DEF LocalsTyped
<1>4. /\ rs' = t /\ rec'.rs = u /\ rec'.todo = Tail(todo) /\ rec'.replicas = n
      /\ pc' = pc /\ idx' = idx /\ replicas' = n
      /\ cache'.rs = rs' \/ cache'.rs = cache.rs
  <2>1. /\ rs' = Patched(rs, p, rec.replicas) /\ rec'.rs = Patched(l, p, rec.replicas)
        /\ rec'.todo = Tail(todo) /\ pc' = pc /\ Goes /\ Missable
    BY Patches
  <2>2. rec'.replicas = n /\ idx' = idx /\ replicas' = n
    BY <1>0, <2>1 DEF Goes
  <2>3. cache'.rs = rs' \/ cache'.rs = cache.rs
    BY <2>1 DEF Missable, Copied
  <2>4. rs' = t /\ rec'.rs = u
    BY <1>0, <2>1
  <2>. QED
    BY <2>1, <2>2, <2>3, <2>4
<1>. HIDE DEF l, todo, p, n
<1>5. PatchWithin(pc, l, p, n, idx)
  <2>1. CASE pc = "down"
    <3>1. OnlyOlds(l, todo) /\ Shrinks(l, todo)
      BY <2>1 DEF PlanInductive, l, todo
    <3>2. p \in Pending(todo)
      <4>1. todo \in Seq(Range(todo))
        BY <3>1 DEF OnlyOlds
      <4>. QED
        BY <1>0, <4>1, HeadAndTail DEF Pending, p
    <3>3. /\ p.rs \in Olds /\ p.rs \in DOMAIN l
          /\ l[p.rs].size > p.size /\ l[p.rs].size > 0
      BY <1>2, <3>1, <3>2, PendingShrinks
    <3>4. p.rs \in Active(l, Olds)
      BY <3>3 DEF Active
    <3>5. p.size < l[p.rs].size
      <4>1. l[p.rs].size \in Nat
        BY <1>2, <3>3, ListTyped
      <4>. QED
        BY <1>0, <3>3, <4>1
    <3>. QED
      BY <2>1, <3>4, <3>5 DEF PatchWithin
  <2>. QED
    BY <1>1, <2>1
<1>6. p.rs \in DOMAIN l
  BY <1>3, <1>5 DEF PatchWithin, Active
<1>7. /\ WithinAll(rs, n) /\ WithinAll(l, n) /\ OnlyNewGrows(rs, l) /\ OnlyNewGrows(rs, cache.rs)
      /\ RoomToStart => WithinStart(rs, n) /\ WithinStart(l, n) /\ PatchStarts(pc, l)
      /\ RisingPlan => WithinStep(rs, n, idx)
  BY <1>0, <1>1 DEF SizesWithin, ListedWithin
<1>8. Patchable(rs, l, p, n)
  BY <1>0, <1>2, <1>3, <1>6, <1>7 DEF Patchable
<1>9. Patchable(l, l, p, n)
  BY <1>8, PatchableSelf
<1>10. WithinAll(t, n) /\ WithinAll(u, n) /\ (RisingPlan => WithinStep(t, n, idx))
  BY <1>2, <1>5, <1>7, <1>8, <1>9, PatchKeepsAll
<1>11. IsList(t) /\ IsList(u) /\ New \in DOMAIN u /\ OnlyNewGrows(t, u)
  BY <1>8, PatchKeepsListed
<1>12. RoomToStart => WithinStart(t, n) /\ WithinStart(u, n)
  BY <1>5, <1>7, <1>8, <1>9, PatchKeepsStart
<1>13. OnlyNewGrows(t, cache.rs)
  BY <1>2, <1>5, <1>7, <1>8, PatchKeepsSince
<1>14. PlannedWithin(pc, u, Tail(todo), n, idx)
  <2>1. CASE pc \in {"new", "up"}
    <3>1. todo = <<p>>
      BY <1>1, <2>1
    <3>2. \A x : Tail(<<x>>) = <<>>
      OBVIOUS
    <3>3. Tail(todo) = <<>>
      BY <3>1, <3>2
    <3>. QED
      BY <3>3 DEF PlannedWithin
  <2>2. CASE pc = "down"
    <3>1. p.rs # New
      BY <1>5, <2>2, SetsAssumption DEF PatchWithin, Active
    <3>2. u[New] = l[New]
      <4>0. IsList(l) /\ p.size \in Nat /\ n \in Nat
        BY <1>0, <1>2
      <4>1. \A r \in DOMAIN l : r # p.rs => u[r] = l[r]
        BY <4>0, PatchedIs
      <4>. QED
        BY <1>3, <3>1, <4>1
    <3>3. RoomToStart => u[New].size > 0
      BY <1>7, <2>2, <3>2 DEF PatchStarts
    <3>. HIDE DEF u
    <3>. QED
      BY <2>2, <3>3 DEF PlannedWithin, PatchStarts
  <2>. QED
    BY <1>1, <2>1, <2>2
<1>. HIDE DEF t, u
<1>15. SizesWithin(t, n, idx) /\ ListedWithin(t, u, n) /\ ListedWithin(t, cache.rs, n)
  BY <1>0, <1>10, <1>11, <1>12, <1>13 DEF SizesWithin, ListedWithin
<1>16. ListedWithin(t, t, n)
  <2>1. Olds \subseteq DOMAIN t
    BY <1>11 DEF OnlyNewGrows
  <2>. QED
    BY <1>11, <1>15, <2>1, ListedSelf
<1>. QED
  BY <1>0, <1>1, <1>4, <1>14, <1>15, <1>16 DEF Unscaled, n

LEMMA UnscaledFails ==
  ASSUME TypeInductive, Unscaled, PatchFails
  PROVE  Unscaled'
<1>1. /\ rs' = rs /\ cache' = cache /\ rec'.rs = rec.rs /\ rec'.todo = <<>>
      /\ rec'.replicas = rec.replicas
      /\ pc' = pc /\ idx' = idx /\ replicas' = replicas
  BY Fails DEF Goes
<1>2. PlannedWithin(pc', rec'.rs, rec'.todo, replicas, idx)
  BY <1>1 DEF PlannedWithin
<1>. QED
  BY <1>1, <1>2 DEF Unscaled

(* The next step asks for no less, and the status says no more than that   *)
(* the index moves on.                                                     *)
LEMMA UnscaledEnds ==
  ASSUME TypeInductive, Unscaled, EndSync \/ EndUpgrade \/ EndStep
  PROVE  Unscaled'
<1>. DEFINE n == replicas
<1>0. idx \in StepIndices /\ n \in Nat /\ n \in Replicas /\ SizesWithin(rs, n, idx)
  BY TypeParts DEF OthersTyped, Unscaled
<1>1. /\ rs' = rs /\ cache' = cache /\ replicas' = n /\ pc' = "idle"
      /\ idx' = idx \/ (idx' = idx + 1 /\ ~LastStep)
  <2>1. ~EndSync
    BY DEF Unscaled, EndSync
  <2>2. CASE EndUpgrade
    BY <2>2 DEF EndUpgrade, EndReconcile, world
  <2>3. CASE EndStep
    BY <2>3 DEF EndStep, EndReconcile, world
  <2>. QED
    BY <2>1, <2>2, <2>3
<1>2. ListedWithin(rs, cache.rs, n)
  BY DEF Unscaled
<1>3. CASE idx' = idx
  BY <1>0, <1>1, <1>2, <1>3 DEF Unscaled
<1>4. CASE idx' = idx + 1 /\ ~LastStep
  <2>1. idx + 1 \in StepIndices
    BY <1>0, <1>4, PlanAssumption DEF StepIndices, LastStep
  <2>2. ASSUME RisingPlan PROVE WithinStep(rs, n, idx + 1)
    <3>. DEFINE now == Limit(idx, n)
                next == Limit(idx + 1, n)
                least == LowerBound(n)
    <3>1. now <= next
      BY <1>0, <2>1, <2>2 DEF RisingPlan
    <3>2. now \in Nat /\ next \in Nat /\ least \in Nat
      BY <1>0, <2>1, LimitType, LowerBoundType DEF StepIndices
    <3>3. ASSUME New \in DOMAIN rs, Active(rs, Olds) # {}
          PROVE  rs[New].size <= Greater(next, least)
      <4>1. rs[New].size <= Greater(now, least)
        BY <1>0, <2>2, <3>3 DEF SizesWithin, WithinStep
      <4>2. rs[New].size \in Nat
        BY <3>3, TypedFacts, ListTyped
      <4>. HIDE DEF now, next, least
      <4>. QED
        BY <3>1, <3>2, <4>1, <4>2 DEF Greater
    <3>. QED
      BY <3>3 DEF WithinStep
  <2>3. SizesWithin(rs, n, idx + 1)
    BY <1>0, <2>2 DEF SizesWithin
  <2>. QED
    BY <1>0, <1>1, <1>2, <1>4, <2>3 DEF Unscaled
<1>. QED
  BY <1>1, <1>3, <1>4

LEMMA UnscaledCluster ==
  ASSUME TypeInductive, GrowthInductive, Unscaled, Cluster \/ UNCHANGED vars, scales' = scales
  PROVE  Unscaled'
<1>0. /\ IsList(rs) /\ IsList(rec.rs) /\ IsList(cache.rs) /\ replicas \in Nat
      /\ idx \in 0 .. Len(Steps) - 1
  BY TypedFacts
<1>1. SizesWithin(rs, replicas, idx) /\ WithinAll(rs, replicas)
  BY DEF Unscaled, SizesWithin
<1>2. Moves(rs', rs, replicas) /\ replicas' = replicas
  BY <1>1, ClusterMoves
<1>3. pc' = pc /\ rec' = rec /\ idx' = idx
  <2>1. idx' = idx
    BY ClusterKeepsRelease DEF release, UserContinues
  <2>. QED
    BY <2>1, ClusterKeepsRec
<1>4. SizesWithin(rs', replicas, idx)
  BY <1>0, <1>1, <1>2, MovesKeepAll, MovesKeepStart DEF SizesWithin
<1>5. ASSUME NEW l, IsList(l), ListedWithin(rs, l, replicas) PROVE ListedWithin(rs', l, replicas)
  BY <1>0, <1>1, <1>2, <1>5, MovesKeepSince DEF ListedWithin
<1>6. ListedWithin(rs', cache.rs, replicas)
  BY <1>0, <1>5 DEF Unscaled
<1>7. ListedWithin(rs', cache'.rs, replicas)
  <2>1. IsList(rs') /\ Olds \subseteq DOMAIN rs'
    BY <1>2, <1>6 DEF Moves, ListedWithin, OnlyNewGrows
  <2>2. cache'.rs = rs' \/ cache'.rs = cache.rs
    BY ClusterCopies DEF Copied
  <2>. QED
    BY <1>4, <1>6, <2>1, <2>2, ListedSelf
<1>. QED
  BY <1>0, <1>2, <1>3, <1>4, <1>5, <1>7 DEF Unscaled

LEMMA ScalesKept ==
  ASSUME TypeInductive, [Next]_vars, scales' = 0
  PROVE  scales = 0 /\ scales' = scales
<1>1. CASE Reconcile
  BY <1>1 DEF Reconcile, StartSync, StartUpgrade, StartStep, StartReconcile, CreateNew,
    CreateErrs, FindCreated, CreateFails, PatchNext, PatchFails, EndSync, EndUpgrade, EndStep, EndReconcile, counters
<1>2. CASE Pod \/ (\E r \in DOMAIN rs : PodFails(r)) \/ NativeScales \/ NativeReports
  BY <1>2 DEF Pod, ReplicaSetControllerActs, PodBecomesReady, PodFails, NativeScales,
    NativeResizes, NativeReports, counters
<1>3. CASE UserContinues \/ Deliver \/ UNCHANGED vars
  BY <1>3 DEF UserContinues, Deliver, counters, vars
<1>4. CASE \E n \in Targets : UserScales(n)
  <2>1. scales \in Nat
    BY TypeParts, BoundsType DEF CountersTyped
  <2>2. scales' = scales + 1
    BY <1>4 DEF UserScales
  <2>. QED
    BY <2>1, <2>2
<1>. QED
  BY <1>1, <1>2, <1>3, <1>4 DEF Next

LEMMA UnscaledNext ==
  TypeInductive /\ GrowthInductive /\ PlanInductive /\ UnscaledInductive /\ [Next]_vars =>
    UnscaledInductive'
<1>. SUFFICES ASSUME TypeInductive, GrowthInductive, PlanInductive, UnscaledInductive,
                     [Next]_vars, scales' = 0
              PROVE  Unscaled'
  BY DEF UnscaledInductive
<1>1. scales' = scales /\ Unscaled
  BY ScalesKept DEF UnscaledInductive
<1>2. CASE Reconcile
  BY <1>1, <1>2, ReconcileIs, UnscaledStarts, UnscaledCreates, UnscaledPatches, UnscaledFails,
    UnscaledEnds
<1>3. CASE Cluster \/ UNCHANGED vars
  BY <1>1, <1>3, UnscaledCluster
<1>. QED
  BY <1>2, <1>3, NextIs

(***************************************************************************)
(* What the Deployment controller reports                                  *)
(***************************************************************************)
(* A list in which the new one has not shrunk.                             *)
LEMMA ReportedGrows ==
  ASSUME NEW s, IsList(s), NEW t, IsList(t), NEW d \in StatusType, ReportedWithin(s, d),
         New \in DOMAIN s => New \in DOMAIN t /\ t[New].size >= s[New].size
  PROVE  ReportedWithin(t, d)
<1>1. SUFFICES ASSUME d.observed, d.updated > 0
               PROVE  New \in DOMAIN t /\ d.updated <= t[New].size
  BY DEF ReportedWithin
<1>2. New \in DOMAIN s /\ New \in DOMAIN t /\ d.updated <= s[New].size /\ t[New].size >= s[New].size
  BY <1>1 DEF ReportedWithin
<1>3. d.updated \in Nat /\ s[New].size \in Nat /\ t[New].size \in Nat
  BY <1>2, ListTyped DEF StatusType
<1>. QED
  BY <1>2, <1>3

LEMMA StatusTyped ==
  ASSUME TypeInductive
  PROVE  deStatus \in StatusType /\ rec.deStatus \in StatusType
BY TypeParts DEF OthersTyped, LocalsTyped

LEMMA ReportsInit == Init => ReportsInductive
<1>. SUFFICES ASSUME Init PROVE Reports
  BY DEF ReportsInductive
<1>1. ~deStatus.observed /\ pc = "idle"
  <2>1. PICK r \in Sets :
          deStatus = [replicas |-> replicas, updated |-> Pods(rs, {r}), observed |-> FALSE]
    BY DEF Init
  <2>2. deStatus.observed = FALSE
    BY <2>1
  <2>. QED
    BY <2>2 DEF Init
<1>2. New \in DOMAIN rs => rs[New].pods <= rs[New].size
  <2>1. PICK size \in [IF NewExists THEN Sets ELSE Olds -> 0 .. replicas] :
          rs = [r \in DOMAIN size |->
                  [size |-> size[r], pods |-> size[r], ready |-> size[r],
                   desired |-> replicas, max |-> replicas + MaxSurge(replicas)]]
    BY DEF Init
  <2>2. \A r \in DOMAIN rs : rs[r].pods = rs[r].size
    BY <2>1
  <2>3. \A r \in DOMAIN rs : rs[r].size \in Nat
    BY TypeInit, TypedFacts, ListTyped
  <2>4. \A r \in DOMAIN rs : rs[r].pods <= rs[r].size
    BY <2>2, <2>3
  <2>. QED
    BY <2>4
<1>. QED
  BY <1>1, <1>2 DEF Reports, ReportedWithin

LEMMA ReportsStarts ==
  ASSUME TypeInductive, Reports, StartSync \/ StartUpgrade \/ StartStep
  PROVE  Reports'
<1>1. rs' = rs /\ deStatus' = deStatus /\ rec'.deStatus = deStatus
  BY Starts
<1>. QED
  BY <1>1 DEF Reports

LEMMA ReportsCreates ==
  ASSUME TypeInductive, Reports, CreateNew \/ FindCreated \/ CreateFails
  PROVE  Reports'
<1>1. pc # "idle" /\ deStatus' = deStatus /\ rec'.deStatus = rec.deStatus
  BY Creating DEF Goes
<1>2. ReportedWithin(rs, deStatus) /\ ReportedWithin(rs, rec.deStatus)
  BY <1>1 DEF Reports
<1>3. CASE rs' = rs
  BY <1>1, <1>2, <1>3 DEF Reports
<1>4. ASSUME NEW q, Creates(q) PROVE Reports'
  <2>1. New \notin DOMAIN rs /\ rs' = WithNew(rs, q) /\ q \in SetType /\ q.pods = 0
    BY <1>4 DEF Creates, IsFresh
  <2>2. rs'[New] = q
    BY <2>1 DEF WithNew
  <2>3. q.size \in Nat
    BY <2>1 DEF SetType
  <2>4. rs'[New].pods <= rs'[New].size
    BY <2>1, <2>2, <2>3
  <2>5. ReportedWithin(rs', deStatus) /\ ReportedWithin(rs', rec.deStatus)
    BY <1>2, <2>1 DEF ReportedWithin
  <2>. QED
    BY <1>1, <2>4, <2>5 DEF Reports
<1>. QED
  BY <1>3, <1>4, Creating DEF Finds

LEMMA ReportsPatches ==
  ASSUME TypeInductive, PlanInductive, Unscaled, Reports, PatchNext
  PROVE  Reports'
<1>. DEFINE n == rec.replicas
            l == rec.rs
            p == Head(rec.todo)
            t == Patched(rs, p, n)
<1>1. /\ rec.todo # <<>> /\ p.size \in Nat /\ rs[p.rs] = l[p.rs]
      /\ rs' = t /\ pc # "idle"
      /\ rec'.deStatus = rec.deStatus /\ deStatus' = deStatus
  BY Patches DEF Goes
<1>2. IsList(rs) /\ IsList(l) /\ n \in Nat
  BY TypedFacts
<1>3. ReportedWithin(rs, deStatus) /\ ReportedWithin(rs, rec.deStatus)
  BY <1>1 DEF Reports
<1>4. p.rs = New => p.size >= l[New].size
  <2>1. CASE pc = "down"
    <3>1. OnlyOlds(l, rec.todo) /\ Shrinks(l, rec.todo)
      BY <2>1 DEF PlanInductive
    <3>2. p \in Pending(rec.todo)
      <4>1. rec.todo \in Seq(Range(rec.todo))
        BY <3>1 DEF OnlyOlds
      <4>. QED
        BY <1>1, <4>1, HeadAndTail DEF Pending
    <3>. HIDE DEF p
    <3>. QED
      BY <1>2, <3>1, <3>2, PendingShrinks
  <2>2. CASE pc # "down"
    <3>1. PatchWithin(pc, l, p, replicas, idx)
      BY <1>1, <2>2 DEF Unscaled, PlannedWithin
    <3>. QED
      BY <3>1, SetsAssumption DEF PatchWithin, Active
  <2>. QED
    BY <2>1, <2>2
<1>. HIDE DEF p, n, l
<1>5. /\ IsList(t) /\ DOMAIN t = DOMAIN rs
      /\ \A r \in DOMAIN rs : r # p.rs => t[r] = rs[r]
      /\ p.rs \in DOMAIN rs => t[p.rs].size = p.size /\ t[p.rs].pods = rs[p.rs].pods
  <2>1. p.size \in Nat /\ n \in Nat /\ IsList(rs)
    BY <1>1, <1>2
  <2>. QED
    BY <2>1, PatchedIs
<1>. HIDE DEF t
<1>6. ASSUME New \in DOMAIN rs
      PROVE  t[New].pods = rs[New].pods /\ t[New].size >= rs[New].size
  <2>1. rs[New].size \in Nat
    BY <1>2, <1>6, ListTyped
  <2>2. CASE p.rs = New
    BY <1>1, <1>4, <1>5, <1>6, <2>2
  <2>3. CASE p.rs # New
    BY <1>5, <1>6, <2>1, <2>3
  <2>. QED
    BY <2>2, <2>3
<1>7. ReportedWithin(t, deStatus) /\ ReportedWithin(t, rec.deStatus)
  BY <1>2, <1>3, <1>5, <1>6, StatusTyped, ReportedGrows
<1>8. New \in DOMAIN t => t[New].pods <= t[New].size
  <2>. SUFFICES ASSUME New \in DOMAIN t PROVE t[New].pods <= t[New].size
    OBVIOUS
  <2>1. rs[New].pods \in Nat /\ rs[New].size \in Nat /\ t[New].size \in Nat
    BY <1>2, <1>5, ListTyped DEF SetType
  <2>2. rs[New].pods <= rs[New].size
    BY <1>5 DEF Reports
  <2>. QED
    BY <1>5, <1>6, <2>1, <2>2
<1>. QED
  BY <1>1, <1>7, <1>8 DEF Reports

LEMMA ReportsFails ==
  ASSUME TypeInductive, Reports, PatchFails
  PROVE  Reports'
<1>1. rs' = rs /\ pc # "idle" /\ rec'.deStatus = rec.deStatus /\ deStatus' = deStatus
  BY Fails DEF Goes
<1>. QED
  BY <1>1 DEF Reports

LEMMA ReportsEnds ==
  ASSUME Reports, EndSync \/ EndUpgrade \/ EndStep
  PROVE  Reports'
<1>1. rs' = rs /\ deStatus' = deStatus /\ pc' = "idle"
  BY Ends
<1>. QED
  BY <1>1 DEF Reports

LEMMA PodsOfNew ==
  ASSUME NEW s, IsList(s)
  PROVE  Pods(s, {New}) = IF New \in DOMAIN s THEN s[New].pods ELSE 0
<1>. DEFINE f == [r \in DOMAIN s |-> s[r].pods]
            D == DOMAIN s
            sum(T) == SumFunctionOnSet(f, T)
<1>1. Pods(s, {New}) = sum({New} \cap D)
  BY DEF Pods
<1>2. IsFiniteSet(D) /\ \A r \in D : f[r] \in Int /\ f[r] = s[r].pods
  <2>1. IsFiniteSet(D) /\ \A r \in D : s[r].pods \in Nat
    BY ListTyped DEF SetType
  <2>. QED
    BY <2>1
<1>. HIDE DEF f, D
<1>3. \A T \in SUBSET D : /\ \A x \in T : sum(T) = f[x] + sum(T \ {x})
                          /\ T = {} => sum(T) = 0
  BY <1>2, SumFacts
<1>. HIDE DEF sum
<1>4. CASE New \in D
  <2>1. {New} \cap D = {New} /\ {New} \in SUBSET D /\ {New} \ {New} = {} /\ {} \in SUBSET D
    BY <1>4
  <2>2. sum({New}) = f[New] + sum({}) /\ sum({}) = 0
    BY <1>3, <2>1
  <2>. QED
    BY <1>1, <1>2, <1>4, <2>1, <2>2 DEF D
<1>5. CASE New \notin D
  <2>1. {New} \cap D = {}
    BY <1>5
  <2>. QED
    BY <1>1, <1>3, <1>5, <2>1 DEF D
<1>. QED
  BY <1>4, <1>5

(* The new one has the pods it had, or those it wants, and nobody else     *)
(* makes it smaller.                                                       *)
LEMMA MovesGrow ==
  ASSUME NEW s, IsList(s), NEW t, NEW n \in Nat, Moves(t, s, n), WithinAll(s, n),
         New \in DOMAIN s
  PROVE  t[New].size >= s[New].size
<1>1. IsList(t) /\ DOMAIN t = DOMAIN s /\ s[New].size <= n
  BY DEF Moves, WithinAll
<1>2. s[New].size \in Nat /\ t[New].size \in Nat
  BY <1>1, ListTyped
<1>3. ASSUME NEW r \in Active(s, Olds) PROVE r # New
  BY SetsAssumption DEF Active
<1>4. t[New].size = s[New].size \/ t[New].size = n
  BY <1>1, <1>3 DEF Moves
<1>. QED
  BY <1>1, <1>2, <1>4

LEMMA ClusterPods ==
  ASSUME TypeInductive, Cluster \/ UNCHANGED vars, New \in DOMAIN rs
  PROVE  rs'[New].pods = rs[New].pods \/ rs'[New].pods = rs'[New].size
<1>0. rs[New] \in SetType
  BY TypedFacts, ListTyped
<1>1. CASE UNCHANGED rs
  BY <1>1
<1>2. ASSUME NEW r, NEW q, rs' = [rs EXCEPT ![r] = q],
             r = New => q.pods = rs[New].pods \/ q.pods = q.size
      PROVE  rs'[New].pods = rs[New].pods \/ rs'[New].pods = rs'[New].size
  <2>1. CASE r = New
    <3>1. rs'[New] = q
      BY <1>2, <2>1
    <3>. QED
      BY <1>2, <2>1, <3>1
  <2>2. CASE r # New
    BY <1>2, <2>2
  <2>. QED
    BY <2>1, <2>2
<1>3. ASSUME NEW r, ReplicaSetControllerActs(r)
      PROVE  rs'[New].pods = rs[New].pods \/ rs'[New].pods = rs'[New].size
  <2>. DEFINE ready == Lesser(rs[r].ready, rs[r].size)
              q == [rs[r] EXCEPT !.pods = rs[r].size, !.ready = ready]
  <2>1. rs' = [rs EXCEPT ![r] = q]
    BY <1>3 DEF ReplicaSetControllerActs
  <2>. HIDE DEF ready
  <2>2. r = New => q.pods = q.size
    BY <1>0 DEF SetType
  <2>. HIDE DEF q
  <2>. QED
    BY <1>2, <2>1, <2>2
<1>4. ASSUME NEW r, PodBecomesReady(r) \/ PodFails(r)
      PROVE  rs'[New].pods = rs[New].pods \/ rs'[New].pods = rs'[New].size
  <2>1. PICK ready : rs' = [rs EXCEPT ![r] = [rs[r] EXCEPT !.ready = ready]]
    BY <1>4 DEF PodBecomesReady, PodFails
  <2>. DEFINE q == [rs[r] EXCEPT !.ready = ready]
  <2>2. r = New => q.pods = rs[New].pods
    BY <1>0 DEF SetType
  <2>3. rs' = [rs EXCEPT ![r] = q]
    BY <2>1
  <2>. HIDE DEF q
  <2>. QED
    BY <1>2, <2>2, <2>3
<1>5. CASE NativeScales
  <2>1. PICK r, m : NativeResizes(r, m)
    BY <1>5 DEF NativeScales
  <2>. DEFINE q == [rs[r] EXCEPT !.size = m, !.desired = replicas, !.max = replicas]
  <2>2. rs' = [rs EXCEPT ![r] = q]
    BY <2>1 DEF NativeResizes
  <2>3. r = New => q.pods = rs[New].pods
    BY <1>0 DEF SetType
  <2>. HIDE DEF q
  <2>. QED
    BY <1>2, <2>2, <2>3
<1>6. CASE NativeReports \/ Deliver \/ (\E n \in Targets : UserScales(n)) \/ UserContinues
             \/ UNCHANGED vars
  <2>1. rs' = rs
    BY <1>6 DEF NativeReports, Deliver, UserScales, UserContinues, world, vars
  <2>. QED
    BY <1>1, <2>1
<1>. QED
  BY <1>3, <1>4, <1>5, <1>6 DEF Cluster, Pod

LEMMA ReportsCluster ==
  ASSUME TypeInductive, Unscaled, Reports, Cluster \/ UNCHANGED vars, scales' = scales
  PROVE  Reports'
<1>0. IsList(rs) /\ IsList(rec.rs) /\ replicas \in Nat /\ WithinAll(rs, replicas)
  BY TypedFacts DEF Unscaled, SizesWithin
<1>1. /\ IsList(rs') /\ DOMAIN rs' = DOMAIN rs
      /\ New \in DOMAIN rs => rs'[New].size >= rs[New].size
  <2>1. Moves(rs', rs, replicas)
    BY <1>0, ClusterMoves
  <2>. QED
    BY <1>0, <2>1, MovesGrow DEF Moves
<1>2. pc' = pc /\ rec' = rec
  BY ClusterKeepsRec
<1>3. New \in DOMAIN rs => rs'[New].pods <= rs'[New].size
  <2>. SUFFICES ASSUME New \in DOMAIN rs PROVE rs'[New].pods <= rs'[New].size
    OBVIOUS
  <2>1. /\ rs[New].pods \in Nat /\ rs[New].size \in Nat
        /\ rs'[New].pods \in Nat /\ rs'[New].size \in Nat
    BY <1>0, <1>1, ListTyped DEF SetType
  <2>2. rs[New].pods <= rs[New].size
    BY DEF Reports
  <2>3. rs'[New].pods = rs[New].pods \/ rs'[New].pods = rs'[New].size
    BY ClusterPods
  <2>. QED
    BY <1>1, <2>1, <2>2, <2>3
<1>4. ReportedWithin(rs', deStatus')
  <2>1. CASE NativeReports
    <3>1. deStatus'.updated = Pods(rs, {New}) /\ rs' = rs
      BY <2>1 DEF NativeReports
    <3>2. New \notin DOMAIN rs => deStatus'.updated = 0
      BY <1>0, <3>1, PodsOfNew
    <3>3. New \in DOMAIN rs => deStatus'.updated <= rs[New].size
      BY <1>0, <3>1, PodsOfNew DEF Reports
    <3>. QED
      BY <3>1, <3>2, <3>3 DEF ReportedWithin
  <2>2. CASE ~NativeReports
    <3>1. ~\E n \in Targets : UserScales(n)
      <4>1. scales \in Nat
        BY TypeParts, BoundsType DEF CountersTyped
      <4>. QED
        BY <4>1 DEF UserScales
    <3>2. deStatus' = deStatus
      <4>1. CASE Pod \/ \E r \in DOMAIN rs : PodFails(r)
        BY <4>1 DEF Pod, ReplicaSetControllerActs, PodBecomesReady, PodFails
      <4>2. CASE NativeScales \/ Deliver \/ UserContinues \/ UNCHANGED vars
        BY <4>2 DEF NativeScales, NativeResizes, Deliver, UserContinues, world, vars
      <4>. QED
        BY <2>2, <3>1, <4>1, <4>2 DEF Cluster
    <3>. QED
      BY <1>0, <1>1, <3>2, StatusTyped, ReportedGrows DEF Reports
  <2>. QED
    BY <2>1, <2>2
<1>5. ASSUME pc # "idle" PROVE ReportedWithin(rs', rec.deStatus)
  BY <1>0, <1>1, <1>5, StatusTyped, ReportedGrows DEF Reports
<1>. QED
  BY <1>1, <1>2, <1>3, <1>4, <1>5 DEF Reports

LEMMA ReportsNext ==
  TypeInductive /\ PlanInductive /\ UnscaledInductive /\ ReportsInductive /\ [Next]_vars =>
    ReportsInductive'
<1>. SUFFICES ASSUME TypeInductive, PlanInductive, UnscaledInductive, ReportsInductive,
                     [Next]_vars, scales' = 0
              PROVE  Reports'
  BY DEF ReportsInductive
<1>1. scales' = scales /\ Unscaled /\ Reports
  BY ScalesKept DEF UnscaledInductive, ReportsInductive
<1>2. CASE Reconcile
  BY <1>1, <1>2, ReconcileIs, ReportsStarts, ReportsCreates, ReportsPatches, ReportsFails,
    ReportsEnds
<1>3. CASE Cluster \/ UNCHANGED vars
  BY <1>1, <1>3, ReportsCluster
<1>. QED
  BY <1>2, <1>3, NextIs

(***************************************************************************)
(* Within the surge                                                        *)
(***************************************************************************)
(* One patch keeps within it, and changes nothing for the list.            *)
LEMMA PatchKeepsNoOld ==
  ASSUME NEW s, NEW l, NEW p, NEW n, Patchable(s, l, p, n), NEW stage, NEW i,
         PatchWithin(stage, l, p, n, i), NoOldGrows(s, l)
  PROVE  NoOldGrows(Patched(s, p, n), Patched(l, p, n))
<1>. DEFINE t == Patched(s, p, n)
            u == Patched(l, p, n)
<1>0. /\ IsList(s) /\ IsList(l) /\ New \in DOMAIN l /\ n \in Nat
      /\ p.size \in Nat /\ p.rs \in DOMAIN s /\ p.rs \in DOMAIN l /\ s[p.rs] = l[p.rs]
      /\ DOMAIN l \subseteq DOMAIN s /\ Olds \subseteq DOMAIN l
  BY DEF Patchable, OnlyNewGrows
<1>1. /\ DOMAIN t = DOMAIN s
      /\ \A r \in DOMAIN s : r # p.rs => t[r] = s[r]
      /\ t[p.rs].size = p.size
  BY <1>0, PatchedIs
<1>2. /\ DOMAIN u = DOMAIN l
      /\ \A r \in DOMAIN l : r # p.rs => u[r] = l[r]
      /\ u[p.rs].size = p.size
  BY <1>0, PatchedIs
<1>. HIDE DEF t, u
<1>3. p.size <= p.size
  BY <1>0
<1>4. ASSUME NEW q \in Olds PROVE t[q].size <= u[q].size
  <2>1. s[q].size <= l[q].size
    BY DEF NoOldGrows
  <2>2. CASE q = p.rs
    BY <1>1, <1>2, <1>3, <2>2
  <2>3. CASE q # p.rs
    BY <1>0, <1>1, <1>2, <2>1, <2>3
  <2>. QED
    BY <2>2, <2>3
<1>5. ASSUME Active(t, Olds) # {} PROVE t[New].size = u[New].size
  <2>1. CASE p.rs = New
    BY <1>1, <1>2, <2>1
  <2>2. CASE p.rs # New
    <3>1. p.rs \in Active(l, Olds)
      BY <2>2 DEF PatchWithin
    <3>2. Active(s, Olds) # {}
      BY <1>0, <3>1 DEF Active
    <3>. QED
      BY <1>0, <1>1, <1>2, <2>2, <3>2 DEF NoOldGrows
  <2>. QED
    BY <2>1, <2>2
<1>6. NoOldGrows(t, u)
  BY <1>2, <1>4, <1>5 DEF NoOldGrows
<1>. QED
  BY <1>6 DEF t, u

LEMMA PatchKeepsSurge ==
  ASSUME NEW s, NEW l, NEW p, NEW n, Patchable(s, l, p, n), NEW stage, NEW i,
         PatchWithin(stage, l, p, n, i), PatchSurges(stage, l, p, n),
         WithinSurge(s, n), NoOldGrows(s, l)
  PROVE  WithinSurge(Patched(s, p, n), n)
<1>. DEFINE t == Patched(s, p, n)
            old == Total(s, Olds)
            listed == Total(l, Olds)
            left == Total(t, Olds)
            surge == MaxSurge(n)
            top == Greater(surge, 1)
<1>0. /\ IsList(s) /\ IsList(l) /\ New \in DOMAIN l /\ n \in Nat /\ DOMAIN l \subseteq DOMAIN s
      /\ p.size \in Nat /\ p.rs \in DOMAIN s /\ s[p.rs] = l[p.rs] /\ New \in DOMAIN s
      /\ Olds \cap DOMAIN s = Olds /\ Olds \cap DOMAIN l = Olds
  BY DEF Patchable, OnlyNewGrows
<1>1. /\ IsList(t) /\ DOMAIN t = DOMAIN s
      /\ \A r \in DOMAIN s : r # p.rs => t[r] = s[r]
      /\ t[p.rs].size = p.size
  BY <1>0, PatchedIs
<1>. HIDE DEF t
<1>2. /\ old \in Nat /\ listed \in Nat /\ left \in Nat /\ surge \in Nat
      /\ s[New].size \in Nat /\ l[New].size \in Nat /\ s[p.rs].size \in Nat
  BY <1>0, <1>1, SumsType, SurgeType, ListTyped
<1>3. top \in Nat /\ surge <= top
  BY <1>2 DEF Greater
<1>4. old <= listed
  BY <1>0, OldsCompare DEF NoOldGrows
<1>5. old <= n /\ old + s[New].size <= n + top
  BY <1>0 DEF WithinSurge
<1>6. ASSUME p.rs \in Active(l, Olds)
      PROVE  /\ left = old - s[p.rs].size + p.size
             /\ s[New].size = l[New].size /\ t[New] = s[New]
  <2>1. p.rs \in Olds \cap DOMAIN s /\ s[p.rs].size > 0
    BY <1>0, <1>6 DEF Active
  <2>2. PICK k \in Nat : /\ old = s[p.rs].size + k
                         /\ \A u : IsList(u) /\ Olds \cap DOMAIN u = Olds \cap DOMAIN s
                                   /\ (\A q \in Olds \cap DOMAIN s : q # p.rs => u[q].size = s[q].size) =>
                                Total(u, Olds) = u[p.rs].size + k
    BY <1>0, <2>1, OldsSplit
  <2>3. left = p.size + k
    BY <1>1, <2>2
  <2>4. Active(s, Olds) # {}
    BY <2>1 DEF Active
  <2>5. s[New].size = l[New].size
    BY <1>0, <2>4 DEF NoOldGrows
  <2>6. t[New] = s[New]
    BY <1>0, <1>1, <2>1, SetsAssumption
  <2>7. left = old - s[p.rs].size + p.size
    BY <1>0, <1>2, <2>2, <2>3
  <2>. QED
    BY <2>5, <2>6, <2>7
<1>7. left <= n /\ left + t[New].size <= n + top
  <2>1. CASE stage = "new"
    <3>1. /\ p.rs = New /\ p.size >= l[New].size /\ p.size <= n
          /\ Active(l, Olds) = {} \/ listed + p.size <= n + surge
      BY <2>1 DEF PatchWithin, PatchSurges
    <3>2. left = old
      BY <1>0, <1>1, <3>1, OldsSame, SetsAssumption
    <3>3. Active(l, Olds) = {} => listed = 0
      BY <1>0, OldsNone
    <3>4. t[New].size = p.size
      BY <1>1, <3>1
    <3>5. old + p.size <= n + top
      <4>1. CASE listed = 0
        BY <1>0, <1>2, <1>3, <1>4, <3>1, <4>1
      <4>2. CASE listed + p.size <= n + surge
        BY <1>0, <1>2, <1>3, <1>4, <4>2
      <4>. QED
        BY <3>1, <3>3, <4>1, <4>2
    <3>. QED
      BY <1>5, <3>2, <3>4, <3>5
  <2>2. CASE stage = "up"
    <3>1. p.rs \in Active(l, Olds) /\ listed - l[p.rs].size + p.size <= n - l[New].size
      BY <2>2 DEF PatchWithin, PatchSurges
    <3>2. /\ left = old - s[p.rs].size + p.size
          /\ s[New].size = l[New].size /\ t[New] = s[New]
      BY <1>6, <3>1
    <3>3. left <= n - s[New].size
      BY <1>0, <1>2, <1>4, <3>1, <3>2
    <3>. QED
      BY <1>0, <1>2, <1>3, <1>5, <3>1, <3>2, <3>3
  <2>3. CASE stage = "down"
    <3>1. p.rs \in Active(l, Olds) /\ p.size < l[p.rs].size
      BY <2>3 DEF PatchWithin
    <3>2. left = old - s[p.rs].size + p.size /\ t[New] = s[New]
      BY <1>6, <3>1
    <3>3. left <= old
      BY <1>0, <1>2, <3>1, <3>2
    <3>. QED
      BY <1>0, <1>2, <1>3, <1>5, <3>1, <3>2, <3>3
  <2>. QED
    BY <2>1, <2>2, <2>3 DEF PatchWithin
<1>. QED
  BY <1>7 DEF WithinSurge, t

(* Neither does the Deployment controller, which gives replicas only to a  *)
(* single ReplicaSet, and takes old ones away.                             *)
LEMMA MovesKeepSurge ==
  ASSUME NEW s, IsList(s), NEW t, NEW n \in Nat, Moves(t, s, n), WithinStart(s, n),
         WithinSurge(s, n)
  PROVE  /\ WithinSurge(t, n)
         /\ \A q \in Olds \cap DOMAIN s : t[q].size <= s[q].size
         /\ New \in DOMAIN s /\ Active(t, Olds) # {} =>
              t[New].size = s[New].size /\ Active(s, Olds) # {}
<1>. DEFINE old == Total(s, Olds)
            left == Total(t, Olds)
            top == Greater(MaxSurge(n), 1)
<1>0. IsList(t) /\ DOMAIN t = DOMAIN s
  BY DEF Moves
<1>1. \A r \in DOMAIN s : s[r].size \in Nat /\ t[r].size \in Nat /\ r \in Sets
  BY <1>0, ListTyped
<1>2. old \in Nat /\ left \in Nat /\ top \in Nat
  BY <1>0, SumsType, SurgeType DEF Greater
<1>3. /\ old <= n
      /\ New \in DOMAIN s => /\ s[New].size = 0 => old = n
                             /\ old + s[New].size <= n + top
  BY DEF WithinSurge, WithinStart
<1>4. CASE \A r \in DOMAIN s : t[r].size = s[r].size
  <2>1. left = old
    BY <1>0, <1>4, OldsSame
  <2>2. WithinSurge(t, n)
    BY <1>0, <1>3, <1>4, <2>1 DEF WithinSurge
  <2>3. Active(t, Olds) = Active(s, Olds)
    BY <1>0, <1>4 DEF Active
  <2>. QED
    BY <1>1, <1>4, <2>2, <2>3
<1>5. ASSUME NEW r \in DOMAIN s, \A q \in DOMAIN s \ {r} : t[q].size = s[q].size,
             r = New, Active(s, Olds) = {}, t[r].size = n
      PROVE  /\ WithinSurge(t, n)
             /\ \A q \in Olds \cap DOMAIN s : t[q].size <= s[q].size
             /\ Active(t, Olds) = {}
  <2>1. \A q \in Olds \cap DOMAIN s : t[q].size = s[q].size
    BY <1>5, SetsAssumption
  <2>2. left = old /\ old = 0
    BY <1>0, <1>5, <2>1, OldsSame, OldsNone
  <2>3. left <= n /\ left + t[New].size <= n + top
    BY <1>2, <1>5, <2>2
  <2>4. WithinSurge(t, n)
    BY <2>3 DEF WithinSurge
  <2>5. Active(t, Olds) = {}
    BY <1>0, <1>5, <2>1 DEF Active
  <2>. QED
    BY <1>1, <2>1, <2>4, <2>5
<1>6. ASSUME NEW r \in DOMAIN s, \A q \in DOMAIN s \ {r} : t[q].size = s[q].size,
             New \in DOMAIN s, r \in Active(s, Olds)
      PROVE  /\ r \in Olds \cap DOMAIN s /\ s[r].size > 0 /\ t[New].size = s[New].size
             /\ \E k \in Nat : /\ old = s[r].size + k /\ left = t[r].size + k
                               /\ (\A q \in Olds \cap DOMAIN s : q # r => s[q].size = 0) => k = 0
  <2>1. r \in Olds \cap DOMAIN s /\ s[r].size > 0 /\ r # New
    BY <1>6, SetsAssumption DEF Active
  <2>2. PICK k \in Nat : /\ old = s[r].size + k
                         /\ (\A q \in Olds \cap DOMAIN s : q # r => s[q].size = 0) => k = 0
                         /\ \A u : IsList(u) /\ Olds \cap DOMAIN u = Olds \cap DOMAIN s
                                   /\ (\A q \in Olds \cap DOMAIN s : q # r => u[q].size = s[q].size) =>
                                Total(u, Olds) = u[r].size + k
    BY <2>1, OldsSplit
  <2>3. left = t[r].size + k
    BY <1>0, <1>6, <2>2
  <2>. QED
    BY <1>6, <2>1, <2>2, <2>3
<1>7. ASSUME NEW r \in DOMAIN s, \A q \in DOMAIN s \ {r} : t[q].size = s[q].size,
             New \in DOMAIN s, r \in Active(s, Olds), t[r].size = 0, s[New].size = n
      PROVE  /\ WithinSurge(t, n)
             /\ \A q \in Olds \cap DOMAIN s : t[q].size <= s[q].size
             /\ t[New].size = s[New].size
  <2>1. PICK k \in Nat : old = s[r].size + k /\ left = t[r].size + k
    BY <1>6, <1>7
  <2>2. r \in Olds /\ t[New].size = n
    BY <1>6, <1>7
  <2>3. left <= old
    BY <1>1, <1>7, <2>1
  <2>4. left <= n /\ left + n <= n + top
    BY <1>2, <1>3, <1>7, <2>3
  <2>5. WithinSurge(t, n)
    BY <2>2, <2>4 DEF WithinSurge
  <2>6. \A q \in Olds \cap DOMAIN s : t[q].size <= s[q].size
    <3>. TAKE q \in Olds \cap DOMAIN s
    <3>1. CASE q = r
      BY <1>1, <1>7, <3>1
    <3>2. CASE q # r
      <4>1. t[q].size = s[q].size /\ s[q].size \in Nat
        BY <1>1, <1>7, <3>2
      <4>. QED
        BY <4>1
    <3>. QED
      BY <3>1, <3>2
  <2>. QED
    BY <1>7, <2>2, <2>5, <2>6
<1>8. ASSUME NEW r \in DOMAIN s, \A q \in DOMAIN s \ {r} : t[q].size = s[q].size,
             New \in DOMAIN s, r \in Active(s, Olds), s[New].size = 0, s[r].size # n,
             \A q \in Olds \cap DOMAIN s : q # r => s[q].size = 0
      PROVE  FALSE
  <2>1. old = s[r].size + 0
    BY <1>6, <1>8
  <2>2. s[r].size \in Nat
    BY <1>1
  <2>. QED
    BY <1>3, <1>8, <2>1, <2>2
<1>. QED
  BY <1>4, <1>5, <1>7, <1>8 DEF Moves

(* What was listed or copied grows no more than that.                      *)
LEMMA NoOldTransitive ==
  ASSUME NEW s, IsList(s), NEW t, IsList(t), NEW l, IsList(l),
         DOMAIN l \subseteq DOMAIN s, DOMAIN s \subseteq DOMAIN t, Olds \subseteq DOMAIN l,
         NoOldGrows(s, l), \A q \in Olds \cap DOMAIN s : t[q].size <= s[q].size,
         New \in DOMAIN s /\ Active(t, Olds) # {} =>
              t[New].size = s[New].size /\ Active(s, Olds) # {}
  PROVE  NoOldGrows(t, l)
<1>1. ASSUME NEW q \in Olds PROVE t[q].size <= l[q].size
  <2>1. t[q].size <= s[q].size /\ s[q].size <= l[q].size
    BY DEF NoOldGrows
  <2>2. t[q].size \in Nat /\ s[q].size \in Nat /\ l[q].size \in Nat
    BY ListTyped
  <2>. QED
    BY <2>1, <2>2
<1>. QED
  BY <1>1 DEF NoOldGrows

LEMMA NoOldSelf ==
  ASSUME NEW s, IsList(s), Olds \subseteq DOMAIN s
  PROVE  NoOldGrows(s, s)
<1>1. \A q \in Olds : s[q].size \in Nat
  BY ListTyped
<1>2. \A q \in Olds : s[q].size <= s[q].size
  BY <1>1
<1>. QED
  BY <1>2 DEF NoOldGrows

(***************************************************************************)
(* No more than the surge, in every step                                   *)
(***************************************************************************)
LEMMA SurgeInit ==
  ASSUME Init, TypeInductive, UnscaledInductive
  PROVE  SurgeInductive
<1>. SUFFICES ASSUME scales = 0 PROVE Surges
  BY DEF SurgeInductive
<1>. DEFINE n == replicas
            old == Total(rs, Olds)
            w == rs[New].size
            top == Greater(MaxSurge(n), 1)
<1>0. /\ IsList(rs) /\ n \in Nat /\ pc = "idle" /\ old \in Nat /\ MaxSurge(n) \in Nat
      /\ top \in Nat /\ Olds \subseteq DOMAIN rs
  <2>1. IsList(rs) /\ n \in Nat /\ pc = "idle"
    BY TypedFacts DEF Init
  <2>2. old \in Nat /\ MaxSurge(n) \in Nat
    BY <2>1, SumsType, SurgeType
  <2>3. top \in Nat
    BY <2>2 DEF Greater
  <2>4. Olds \subseteq DOMAIN rs
    BY DEF UnscaledInductive, Unscaled, ListedWithin, OnlyNewGrows
  <2>. QED
    BY <2>1, <2>2, <2>3, <2>4
<1>1. cache.rs = rs
  <2>1. cache = Copied(rs, 0)
    BY DEF Init
  <2>. QED
    BY <2>1 DEF Copied
<1>2. Total(rs, Sets) = n
  <2>1. PICK size \in [IF NewExists THEN Sets ELSE Olds -> 0 .. replicas] :
          /\ SumFunction(size) = replicas
          /\ rs = [r \in DOMAIN size |->
                     [size |-> size[r], pods |-> size[r], ready |-> size[r],
                      desired |-> replicas, max |-> replicas + MaxSurge(replicas)]]
    BY DEF Init
  <2>2. DOMAIN rs = DOMAIN size /\ \A r \in DOMAIN rs : rs[r].size = size[r]
    BY <2>1
  <2>3. [r \in DOMAIN rs |-> rs[r].size] = size
    BY <2>1, <2>2
  <2>4. Sets \cap DOMAIN rs = DOMAIN size
    BY <2>1, <2>2 DEF Sets
  <2>. QED
    BY <2>1, <2>3, <2>4 DEF Total, SumFunction
<1>3. WithinSurge(rs, n)
  <2>1. ASSUME New \in DOMAIN rs PROVE old <= n /\ old + w <= n + top
    <3>1. w \in Nat /\ old + w = n
      BY <1>0, <1>2, <2>1, ListTyped, OldsAndNew
    <3>. HIDE DEF w, old, n, top
    <3>. QED
      BY <1>0, <3>1
  <2>2. ASSUME New \notin DOMAIN rs PROVE old <= n
    <3>1. old = n
      BY <1>0, <1>2, <2>2, OldsAndNew
    <3>. QED
      BY <1>0, <3>1
  <2>. QED
    BY <2>1, <2>2 DEF WithinSurge
<1>4. NoOldGrows(rs, rs)
  BY <1>0, NoOldSelf
<1>. QED
  BY <1>0, <1>1, <1>3, <1>4 DEF Surges

LEMMA SurgeStarts ==
  ASSUME TypeInductive, Unscaled, Surges, RoomToStart, StartSync \/ StartUpgrade \/ StartStep,
         ~rec'.missed
  PROVE  Surges'
<1>. DEFINE l == cache.rs
            n == replicas
            stage == UpgradeStage(l, n, idx)
<1>0. IsList(l) /\ n \in Nat /\ idx \in 0 .. Len(Steps) - 1
  BY TypedFacts
<1>1. /\ rs' = rs /\ cache' = cache /\ replicas' = n
      /\ rec'.rs = l /\ rec'.missed = cache.missed
      /\ \/ pc' = "sync" /\ IsScalingEvent(l, n)
         \/ pc' \in {"step", "create"} /\ rec'.todo = <<>>
         \/ New \in DOMAIN l /\ pc' = stage.pc /\ rec'.todo = stage.todo
  BY Starts
<1>2. /\ ListedWithin(rs, l, n) /\ WithinAll(l, n) /\ WithinStart(l, n)
  BY DEF Unscaled, ListedWithin
<1>3. ~IsScalingEvent(l, n)
  BY <1>2 DEF WithinAll, IsScalingEvent, Active
<1>4. WithinSurge(rs, n) /\ WithinSurge(l, n) /\ NoOldGrows(rs, l)
  BY <1>1 DEF Surges
<1>. HIDE DEF l, n
<1>5. rec'.todo # <<>> => PatchSurges(pc', l, Head(rec'.todo), n)
  <2>1. CASE New \in DOMAIN l /\ pc' = stage.pc /\ rec'.todo = stage.todo
    <3>1. l[New].size <= n
      BY <1>2, <2>1 DEF WithinAll
    <3>2. stage.todo # <<>> => PatchSurges(stage.pc, l, Head(stage.todo), n)
      BY <1>0, <1>2, <2>1, <3>1, StagePlannedWithin
    <3>. HIDE DEF stage
    <3>. QED
      BY <2>1, <3>2
  <2>. QED
    BY <1>1, <1>3, <2>1
<1>. HIDE DEF stage
<1>. QED
  BY <1>1, <1>4, <1>5 DEF Surges, l, n

(* A list that lacks no patch of ours lacks no ReplicaSet, so the new one  *)
(* is created on what was listed.                                          *)
LEMMA SurgeCreates ==
  ASSUME TypeInductive, GrowthInductive, Unscaled, Surges, RoomToStart, ~rec.missed,
         CreateNew \/ FindCreated \/ CreateFails
  PROVE  Surges'
<1>. DEFINE n == replicas
            l == rec.rs
<1>0. pc = "create" /\ Goes /\ (Finds \/ \E q : Creates(q))
  BY Creating
<1>1. /\ IsList(rs) /\ IsList(l) /\ IsList(cache.rs) /\ n \in Nat /\ idx \in 0 .. Len(Steps) - 1
      /\ New \notin DOMAIN l
  BY <1>0, TypedFacts
<1>2. /\ rec.replicas = n /\ replicas' = n
      /\ WithinAll(rs, n) /\ WithinAll(l, n) /\ Olds \subseteq DOMAIN rs /\ Olds \subseteq DOMAIN l
  BY <1>0 DEF Goes, Unscaled, SizesWithin, ListedWithin, OnlyNewGrows
<1>3. /\ WithinSurge(rs, n) /\ WithinSurge(cache.rs, n) /\ WithinSurge(l, n)
      /\ NoOldGrows(rs, l) /\ (~cache.missed => NoOldGrows(rs, cache.rs))
  BY <1>0 DEF Surges
<1>4. New \notin DOMAIN rs
  BY <1>0, <1>1 DEF GrowthInductive, Listed
<1>5. CASE Finds
  <2>1. /\ rs' = rs /\ cache' = cache /\ rec'.rs = l /\ rec'.todo = <<>>
    BY <1>4, <1>5 DEF Finds, GivesUp
  <2>. QED
    BY <1>2, <1>3, <2>1 DEF Surges
<1>6. ASSUME NEW q, Creates(q) PROVE Surges'
  <2>. DEFINE t == WithNew(rs, q)
              u == WithNew(l, q)
              stage == UpgradeStage(u, n, idx)
  <2>1. /\ IsFresh(q) /\ rs' = t
        /\ cache' = Copied(t, failures') \/ (cache'.rs = cache.rs /\ cache'.missed = TRUE)
        /\ \/ rec'.rs = u /\ rec'.todo = stage.todo /\ pc' = stage.pc
           \/ rec'.rs = l /\ rec'.todo = <<>>
    BY <1>2, <1>6 DEF Creates, GoesOnWith, GivesUp, Missable
  <2>2. FreshWithin(q, n, idx)
    <3>1. Total(l, Olds) = n
      BY <1>1, <1>2 DEF WithinAll
    <3>. QED
      BY <1>0, <1>2, <2>1, <3>1, FreshIsWithin
  <2>3. q \in SetType
    BY <2>2 DEF FreshWithin
  <2>4. ASSUME NEW s, IsList(s), New \notin DOMAIN s, WithinAll(s, n)
        PROVE  /\ IsList(WithNew(s, q)) /\ WithNew(s, q)[New] = q
               /\ DOMAIN WithNew(s, q) = DOMAIN s \cup {New}
               /\ \A r \in DOMAIN s : WithNew(s, q)[r] = s[r]
               /\ WithinAll(WithNew(s, q), n) /\ WithinStart(WithNew(s, q), n)
               /\ WithinSurge(WithNew(s, q), n)
    <3>. HIDE DEF n
    <3>1. /\ IsList(WithNew(s, q))
          /\ WithinAll(WithNew(s, q), n) /\ WithinStart(WithNew(s, q), n)
          /\ WithinSurge(WithNew(s, q), n)
      BY <1>1, <2>2, <2>4, FreshKeepsWithin
    <3>2. /\ DOMAIN WithNew(s, q) = DOMAIN s \cup {New} /\ WithNew(s, q)[New] = q
          /\ \A r \in DOMAIN s : WithNew(s, q)[r] = s[r]
      BY <2>3, <2>4, WithNewType
    <3>. QED
      BY <3>1, <3>2
  <2>. HIDE DEF n, l
  <2>5. /\ IsList(t) /\ DOMAIN t = DOMAIN rs \cup {New} /\ t[New] = q
        /\ \A r \in DOMAIN rs : t[r] = rs[r]
        /\ WithinSurge(t, n)
    BY <1>1, <1>2, <1>4, <2>4
  <2>6. /\ IsList(u) /\ DOMAIN u = DOMAIN l \cup {New} /\ u[New] = q
        /\ \A r \in DOMAIN l : u[r] = l[r]
        /\ WithinAll(u, n) /\ WithinStart(u, n) /\ WithinSurge(u, n)
    BY <1>1, <1>2, <2>4
  <2>. HIDE DEF t, u
  <2>7. \A x \in Olds : t[x].size <= l[x].size /\ t[x].size <= u[x].size
    <3>1. \A x \in Olds : t[x] = rs[x] /\ u[x] = l[x] /\ rs[x].size <= l[x].size
      BY <1>2, <1>3, <2>5, <2>6 DEF NoOldGrows
    <3>. QED
      BY <3>1
  <2>8. NoOldGrows(t, l) /\ NoOldGrows(t, u)
    BY <1>1, <2>5, <2>6, <2>7 DEF NoOldGrows
  <2>9. stage.todo # <<>> => PatchSurges(stage.pc, u, Head(stage.todo), n)
    <3>1. New \in DOMAIN u /\ u[New].size <= n
      BY <2>6 DEF WithinAll
    <3>. QED
      BY <1>1, <2>6, <3>1, StagePlannedWithin
  <2>. HIDE DEF stage
  <2>10. /\ WithinSurge(rec'.rs, n) /\ NoOldGrows(t, rec'.rs)
         /\ rec'.todo # <<>> => PatchSurges(pc', rec'.rs, Head(rec'.todo), n)
    BY <1>3, <2>1, <2>6, <2>8, <2>9
  <2>11. WithinSurge(cache'.rs, n) /\ (~cache'.missed => NoOldGrows(t, cache'.rs))
    <3>1. CASE cache' = Copied(t, failures')
      <4>1. cache'.rs = t
        BY <3>1 DEF Copied
      <4>2. Olds \subseteq DOMAIN t
        BY <1>2, <2>5
      <4>3. NoOldGrows(t, t)
        BY <2>5, <4>2, NoOldSelf
      <4>. QED
        BY <2>5, <4>1, <4>3
    <3>2. CASE cache'.rs = cache.rs /\ cache'.missed = TRUE
      BY <1>3, <3>2
    <3>. QED
      BY <2>1, <3>1, <3>2
  <2>. QED
    BY <1>2, <2>1, <2>5, <2>10, <2>11 DEF Surges
<1>. QED
  BY <1>0, <1>5, <1>6

LEMMA SurgePatches ==
  ASSUME TypeInductive, PlanInductive, Unscaled, Surges, PatchNext
  PROVE  Surges'
<1>. DEFINE n == replicas
            l == rec.rs
            todo == rec.todo
            p == Head(todo)
            t == Patched(rs, p, n)
            u == Patched(l, p, n)
<1>0. /\ todo # <<>> /\ p.size \in Nat /\ rs[p.rs] = l[p.rs] /\ pc # "idle"
      /\ rec.replicas = n
      /\ SizesWithin(rs, n, idx) /\ ListedWithin(rs, l, n) /\ ListedWithin(rs, cache.rs, n)
      /\ PlannedWithin(pc, l, todo, n, idx)
  <2>1. todo # <<>> /\ p.size \in Nat /\ rs[p.rs] = l[p.rs] /\ pc # "idle"
    BY Patches
  <2>. QED
    BY <2>1 DEF Unscaled
<1>1. /\ pc \in {"new", "up", "down"}
      /\ pc \in {"new", "up"} => todo = <<p>> /\ PatchWithin(pc, l, p, n, idx)
  BY <1>0 DEF PlannedWithin
<1>2. /\ IsList(rs) /\ IsList(l) /\ IsList(cache.rs) /\ n \in Nat /\ idx \in 0 .. Len(Steps) - 1
  BY TypedFacts
<1>3. New \in DOMAIN l
  <2>1. LocalsTyped
    BY TypeParts
  <2>. QED
    BY <1>0, <1>1, <2>1 DEF LocalsTyped
<1>4. /\ rs' = t /\ rec'.rs = u /\ rec'.todo = Tail(todo) /\ pc' = pc /\ replicas' = n
      /\ cache' = Copied(t, failures') \/ (cache'.rs = cache.rs /\ cache'.missed = TRUE)
  <2>1. /\ rs' = Patched(rs, p, rec.replicas) /\ rec'.rs = Patched(l, p, rec.replicas)
        /\ rec'.todo = Tail(todo) /\ pc' = pc /\ Goes /\ Missable
    BY Patches
  <2>2. rs' = t /\ rec'.rs = u
    BY <1>0, <2>1
  <2>. QED
    BY <2>1, <2>2 DEF Missable, Goes
<1>5. /\ WithinSurge(rs, n) /\ WithinSurge(cache.rs, n) /\ WithinSurge(l, n)
      /\ NoOldGrows(rs, l) /\ PatchSurges(pc, l, p, n)
  BY <1>0 DEF Surges
<1>. HIDE DEF l, todo, p, n
<1>6. PatchWithin(pc, l, p, n, idx)
  <2>1. CASE pc = "down"
    <3>1. OnlyOlds(l, todo) /\ Shrinks(l, todo)
      BY <2>1 DEF PlanInductive, l, todo
    <3>2. p \in Pending(todo)
      <4>1. todo \in Seq(Range(todo))
        BY <3>1 DEF OnlyOlds
      <4>. QED
        BY <1>0, <4>1, HeadAndTail DEF Pending, p
    <3>3. /\ p.rs \in Olds /\ p.rs \in DOMAIN l
          /\ l[p.rs].size > p.size /\ l[p.rs].size > 0
      BY <1>2, <3>1, <3>2, PendingShrinks
    <3>4. p.rs \in Active(l, Olds)
      BY <3>3 DEF Active
    <3>5. p.size < l[p.rs].size
      <4>1. l[p.rs].size \in Nat
        BY <1>2, <3>3, ListTyped
      <4>. QED
        BY <1>0, <3>3, <4>1
    <3>. QED
      BY <2>1, <3>4, <3>5 DEF PatchWithin
  <2>. QED
    BY <1>1, <2>1
<1>7. p.rs \in DOMAIN l
  BY <1>3, <1>6 DEF PatchWithin, Active
<1>8. Patchable(rs, l, p, n)
  BY <1>0, <1>2, <1>3, <1>7 DEF Patchable, SizesWithin, ListedWithin
<1>9. Patchable(l, l, p, n) /\ NoOldGrows(l, l)
  BY <1>2, <1>8, PatchableSelf, NoOldSelf DEF Patchable, OnlyNewGrows
<1>10. WithinSurge(t, n) /\ WithinSurge(u, n)
  BY <1>5, <1>6, <1>8, <1>9, PatchKeepsSurge
<1>11. NoOldGrows(t, u)
  BY <1>5, <1>6, <1>8, PatchKeepsNoOld
<1>12. IsList(t) /\ Olds \subseteq DOMAIN t
  <2>1. IsList(t) /\ DOMAIN t = DOMAIN rs
    BY <1>0, <1>2, PatchedIs
  <2>. HIDE DEF t
  <2>. QED
    BY <1>8, <2>1 DEF Patchable, OnlyNewGrows
<1>. HIDE DEF t, u
<1>13. NoOldGrows(t, t)
  BY <1>12, NoOldSelf
<1>14. Tail(todo) # <<>> => PatchSurges(pc, u, Head(Tail(todo)), n)
  <2>1. CASE pc \in {"new", "up"}
    <3>1. todo = <<p>>
      BY <1>1, <2>1
    <3>2. \A x : Tail(<<x>>) = <<>>
      OBVIOUS
    <3>. QED
      BY <3>1, <3>2
  <2>2. CASE pc = "down"
    BY <2>2 DEF PatchSurges
  <2>. QED
    BY <1>1, <2>1, <2>2
<1>15. WithinSurge(cache'.rs, n) /\ (~cache'.missed => NoOldGrows(t, cache'.rs))
  <2>1. CASE cache' = Copied(t, failures')
    <3>1. cache'.rs = t
      BY <2>1 DEF Copied
    <3>. QED
      BY <1>10, <1>13, <3>1
  <2>2. CASE cache'.rs = cache.rs /\ cache'.missed = TRUE
    BY <1>5, <2>2
  <2>. QED
    BY <1>4, <2>1, <2>2
<1>. QED
  BY <1>4, <1>10, <1>11, <1>14, <1>15 DEF Surges

LEMMA SurgeFails ==
  ASSUME TypeInductive, Surges, PatchFails
  PROVE  Surges'
<1>1. /\ rs' = rs /\ cache' = cache /\ rec'.rs = rec.rs /\ rec'.todo = <<>>
      /\ pc # "idle" /\ replicas' = replicas
  BY Fails DEF Goes
<1>. QED
  BY <1>1 DEF Surges

LEMMA SurgeEnds ==
  ASSUME Surges, EndSync \/ EndUpgrade \/ EndStep
  PROVE  Surges'
<1>1. rs' = rs /\ cache' = cache /\ replicas' = replicas /\ pc' = "idle"
  BY DEF EndSync, EndUpgrade, EndStep, EndReconcile, world
<1>. QED
  BY <1>1 DEF Surges

LEMMA SurgeCluster ==
  ASSUME TypeInductive, GrowthInductive, Unscaled, Surges, RoomToStart,
         Cluster \/ UNCHANGED vars, scales' = scales
  PROVE  Surges'
<1>. DEFINE n == replicas
<1>0. /\ IsList(rs) /\ IsList(rec.rs) /\ IsList(cache.rs) /\ n \in Nat
  BY TypedFacts
<1>1. WithinAll(rs, n) /\ WithinStart(rs, n) /\ WithinSurge(rs, n)
  BY DEF Unscaled, SizesWithin, Surges
<1>2. Moves(rs', rs, n) /\ replicas' = n
  BY <1>1, ClusterMoves
<1>3. IsList(rs') /\ DOMAIN rs' = DOMAIN rs /\ pc' = pc /\ rec' = rec
  BY <1>2, ClusterKeepsRec DEF Moves
<1>4. /\ WithinSurge(rs', n)
      /\ \A q \in Olds \cap DOMAIN rs : rs'[q].size <= rs[q].size
      /\ New \in DOMAIN rs /\ Active(rs', Olds) # {} =>
           rs'[New].size = rs[New].size /\ Active(rs, Olds) # {}
  BY <1>0, <1>1, <1>2, MovesKeepSurge
<1>5. ASSUME NEW l, IsList(l), DOMAIN l \subseteq DOMAIN rs, Olds \subseteq DOMAIN l,
             NoOldGrows(rs, l)
      PROVE  NoOldGrows(rs', l)
  BY <1>0, <1>3, <1>4, <1>5, NoOldTransitive
<1>6. /\ DOMAIN cache.rs \subseteq DOMAIN rs /\ Olds \subseteq DOMAIN cache.rs
      /\ pc # "idle" => DOMAIN rec.rs \subseteq DOMAIN rs /\ Olds \subseteq DOMAIN rec.rs
      /\ Olds \subseteq DOMAIN rs
  BY DEF GrowthInductive, Listed
<1>7. WithinSurge(cache'.rs, n) /\ (~cache'.missed => NoOldGrows(rs', cache'.rs))
  <2>1. CASE cache' = Copied(rs', failures')
    <3>1. cache'.rs = rs'
      BY <2>1 DEF Copied
    <3>2. NoOldGrows(rs', rs')
      BY <1>3, <1>6, NoOldSelf
    <3>. QED
      BY <1>4, <3>1, <3>2
  <2>2. CASE cache'.rs = cache.rs /\ cache'.missed = cache.missed
    <3>1. WithinSurge(cache.rs, n) /\ (~cache.missed => NoOldGrows(rs, cache.rs))
      BY DEF Surges
    <3>. QED
      BY <1>0, <1>5, <1>6, <2>2, <3>1
  <2>. QED
    BY <2>1, <2>2, ClusterCopies
<1>8. pc # "idle" => NoOldGrows(rs', rec.rs)
  BY <1>0, <1>5, <1>6 DEF Surges
<1>. QED
  BY <1>2, <1>3, <1>4, <1>7, <1>8 DEF Surges

LEMMA SurgeNext ==
  ASSUME RoomToStart, TypeInductive, GrowthInductive, PlanInductive, UnscaledInductive,
         SurgeInductive, [Next]_vars, ~rec.missed, ~rec'.missed
  PROVE  SurgeInductive'
<1>. SUFFICES ASSUME scales' = 0 PROVE Surges'
  BY DEF SurgeInductive
<1>1. scales' = scales /\ Unscaled /\ Surges
  BY ScalesKept DEF UnscaledInductive, SurgeInductive
<1>2. CASE Reconcile
  BY <1>1, <1>2, ReconcileIs, SurgeStarts, SurgeCreates, SurgePatches, SurgeFails, SurgeEnds
<1>3. CASE Cluster \/ UNCHANGED vars
  BY <1>1, <1>3, SurgeCluster
<1>. QED
  BY <1>2, <1>3, NextIs

LEMMA SurgeBoundHolds ==
  ASSUME TypeInductive, SurgeInductive
  PROVE  scales = 0 => SurgeBound
<1>. SUFFICES ASSUME scales = 0 PROVE Total(rs, Sets) <= replicas + Greater(MaxSurge(replicas), 1)
  BY DEF SurgeBound
<1>. DEFINE old == Total(rs, Olds)
            top == Greater(MaxSurge(replicas), 1)
<1>1. IsList(rs) /\ replicas \in Nat /\ WithinSurge(rs, replicas)
  BY TypedFacts DEF SurgeInductive, Surges
<1>2. old \in Nat /\ top \in Nat
  <2>1. old \in Nat /\ MaxSurge(replicas) \in Nat
    BY <1>1, SumsType, SurgeType
  <2>. QED
    BY <2>1 DEF Greater
<1>3. CASE New \in DOMAIN rs
  <2>1. Total(rs, Sets) = old + rs[New].size
    BY <1>1, <1>3, OldsAndNew
  <2>2. old + rs[New].size <= replicas + top
    BY <1>1, <1>3 DEF WithinSurge
  <2>. QED
    BY <2>1, <2>2
<1>4. CASE New \notin DOMAIN rs
  <2>1. Total(rs, Sets) = old /\ old <= replicas
    BY <1>1, <1>4, OldsAndNew DEF WithinSurge
  <2>. HIDE DEF old, top
  <2>2. Total(rs, Sets) <= replicas + top
    BY <1>1, <1>2, <2>1
  <2>. QED
    BY <2>2 DEF top
<1>. QED
  BY <1>3, <1>4

(***************************************************************************)
(* Before a user scales the Deployment                                     *)
(***************************************************************************)
LEMMA UnscaledWithinStep ==
  ASSUME RisingPlan, UnscaledInductive
  PROVE  scales = 0 => NewWithinStep
BY DEF UnscaledInductive, Unscaled, SizesWithin, WithinStep, NewWithinStep, LowerBound

LEMMA NewBeforeOldStep ==
  ASSUME RoomToStart, MaxScales = 0, TypeInductive, UnscaledInductive, ScalesDownOld
  PROVE  rs[New].size > 0
<1>1. pc = "down" /\ rec.todo # <<>> /\ Unscaled
  BY TypeParts DEF CountersTyped, ScalesDownOld, UnscaledInductive
<1>2. IsList(rs) /\ IsList(rec.rs) /\ New \in DOMAIN rec.rs
  BY <1>1, TypedFacts
<1>3. rec.rs[New].size > 0
  BY <1>1 DEF Unscaled, PlannedWithin, PatchStarts
<1>4. New \in DOMAIN rs /\ rs[New].size >= rec.rs[New].size
  BY <1>1, <1>2 DEF Unscaled, ListedWithin, OnlyNewGrows
<1>5. rs[New].size \in Nat /\ rec.rs[New].size \in Nat
  BY <1>2, <1>4, ListTyped
<1>. QED
  BY <1>3, <1>4, <1>5

(* Of all that writes the state, only the end of an upgrade whose batch is *)
(* ready turns it to Blocking.                                             *)
LEMMA BecomesBlocking ==
  ASSUME TypeInductive, [Next]_vars, state # "Blocking", state' = "Blocking"
  PROVE  pc # "idle" /\ IsBatchReady /\ New \in DOMAIN rec.rs
<1>1. CASE StartSync \/ StartUpgrade \/ StartStep \/ CreateNew \/ FindCreated \/ CreateFails
              \/ PatchNext \/ PatchFails
  BY <1>1 DEF StartSync, StartUpgrade, StartStep, StartReconcile, CreateNew, FindCreated,
    CreateFails, PatchNext, PatchFails, release
<1>2. CASE EndSync
  BY <1>2 DEF EndSync, EndReconcile
<1>3. CASE EndStep
  BY <1>3 DEF EndStep, EndReconcile
<1>4. CASE EndUpgrade
  <2>1. pc \in {"new", "up", "down"} /\ IsBatchReady /\ (rec.failed => pc = "down")
    BY <1>4 DEF EndUpgrade, EndReconcile
  <2>2. LocalsTyped
    BY TypeParts
  <2>. QED
    BY <2>1, <2>2 DEF LocalsTyped
<1>5. CASE Cluster \/ UNCHANGED vars
  BY <1>5, ClusterKeepsRelease DEF release, UserContinues
<1>. QED
  BY <1>1, <1>2, <1>3, <1>4, <1>5, NextIs, ReconcileIs

LEMMA ReportedReadyStep ==
  ASSUME MaxScales = 0, TypeInductive, GrowthInductive, ReportsInductive, [Next]_vars,
         state # "Blocking", state' = "Blocking", rec.deStatus.observed
  PROVE  rs[New].size >= Limit(idx, rec.replicas)
<1>. DEFINE limit == Limit(idx, rec.replicas)
            reported == rec.deStatus.updated
            w == rs[New].size
<1>1. pc # "idle" /\ New \in DOMAIN rec.rs /\ reported >= limit
  BY BecomesBlocking DEF IsBatchReady
<1>2. New \in DOMAIN rs
  BY <1>1 DEF GrowthInductive, Listed
<1>3. limit \in Nat /\ w \in Nat /\ reported \in Nat
  <2>1. limit \in 0 .. rec.replicas /\ rec.replicas \in Nat
    BY TypedFacts, LimitType
  <2>2. w \in Nat
    BY <1>2, TypedFacts, ListTyped
  <2>. QED
    BY <2>1, <2>2, StatusTyped DEF StatusType
<1>4. ReportedWithin(rs, rec.deStatus)
  BY <1>1, TypeParts DEF CountersTyped, ReportsInductive, Reports
<1>5. reported > 0 => reported <= w
  BY <1>4 DEF ReportedWithin
<1>. HIDE DEF limit, reported, w
<1>6. w >= limit
  BY <1>1, <1>3, <1>5
<1>. QED
  BY <1>6 DEF limit, w

(* Until a user scales the Deployment, the new ReplicaSet has no more than *)
(* the partition of the current step while old pods are left, if no step   *)
(* asks for less than the one before: the batches hold the release back.   *)
THEOREM StepIsKept ==
  ASSUME Reallocates, RisingPlan
  PROVE  Spec => [](scales = 0 => NewWithinStep)
<1>1. TypeInductive /\ GrowthInductive /\ PlanInductive /\ [Next]_vars => PlanInductive'
  BY PlanNext
<1>2. UnscaledInductive => (scales = 0 => NewWithinStep)
  BY UnscaledWithinStep
<1>. QED
  BY <1>1, <1>2, TypeInit, TypeNext, GrowthInit, GrowthNext, PlanInit, UnscaledInit, UnscaledNext, PTL DEF Spec

(* Until a user scales the Deployment, there is never more than the surge, *)
(* or one pod, on top of spec.replicas, although the Deployment controller *)
(* scales a paused Deployment while the executor patches it: unless some   *)
(* reconcile works with a list that lacks a patch of an earlier one.       *)
THEOREM SurgeIsKept ==
  ASSUME Reallocates, RoomToStart
  PROVE  Spec => ([](~rec.missed) => [](scales = 0 => SurgeBound))
<1>1. TypeInductive /\ GrowthInductive /\ PlanInductive /\ [Next]_vars => PlanInductive'
  BY PlanNext
<1>2. Init /\ TypeInductive /\ UnscaledInductive => SurgeInductive
  BY SurgeInit
<1>3. /\ TypeInductive /\ GrowthInductive /\ PlanInductive /\ UnscaledInductive
      /\ SurgeInductive /\ [Next]_vars /\ ~rec.missed /\ (~rec.missed)'
      => SurgeInductive'
  BY SurgeNext
<1>4. TypeInductive /\ SurgeInductive => (scales = 0 => SurgeBound)
  BY SurgeBoundHolds
<1>. QED
  BY <1>1, <1>2, <1>3, <1>4, TypeInit, TypeNext, GrowthInit, GrowthNext, PlanInit,
    UnscaledInit, UnscaledNext, PTL DEF Spec

(* No patch of reconcileOldReplicaSets is sent while the new ReplicaSet is *)
(* empty, if nobody scales the Deployment and surge leaves a new version   *)
(* that was released before room to start.                                 *)
THEOREM NewComesFirst ==
  ASSUME Reallocates, RoomToStart, MaxScales = 0
  PROVE  Spec => NewBeforeOld
<1>1. TypeInductive /\ GrowthInductive /\ PlanInductive /\ [Next]_vars => PlanInductive'
  BY PlanNext
<1>2. TypeInductive /\ UnscaledInductive => [ScalesDownOld => rs[New].size > 0]_rs
  BY NewBeforeOldStep
<1>. QED
  BY <1>1, <1>2, TypeInit, TypeNext, GrowthInit, GrowthNext, PlanInit, UnscaledInit, UnscaledNext, PTL
  DEF Spec, NewBeforeOld

(* A step becomes Blocking only with as many replicas of the new version   *)
(* as its partition asks for, however old the report IsBatchReady judges   *)
(* by, if it is of this version and nobody scales the Deployment.          *)
THEOREM ReportsAreTrue ==
  ASSUME Reallocates, MaxScales = 0
  PROVE  Spec => ReportedReady
<1>1. TypeInductive /\ GrowthInductive /\ PlanInductive /\ [Next]_vars => PlanInductive'
  BY PlanNext
<1>2. TypeInductive /\ GrowthInductive /\ ReportsInductive /\ [Next]_vars =>
        [state # "Blocking" /\ state' = "Blocking" /\ rec.deStatus.observed =>
           rs[New].size >= Limit(idx, rec.replicas)]_state
  BY ReportedReadyStep
<1>. QED
  BY <1>1, <1>2, TypeInit, TypeNext, GrowthInit, GrowthNext, PlanInit, UnscaledInit, UnscaledNext, ReportsInit,
    ReportsNext, PTL DEF Spec, ReportedReady

=============================================================================
