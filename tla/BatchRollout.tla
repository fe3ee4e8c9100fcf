---------------------------- MODULE BatchRollout ----------------------------
(***************************************************************************)
(* How the batches of one release move pods: Executor.rollingUpdate and    *)
(* what it calls (internal/controller/partition/executor.go), against the  *)
(* ReplicaSets of one Deployment that is paused and already holds the      *)
(* template being released.  The phases around it are ReleaseLifecycle's.  *)
(*                                                                         *)
(* A reconcile lists the ReplicaSets once and decides everything from that *)
(* list.  The list comes from the informer's cache, which may not show yet *)
(* what has happened, the patches of the reconcile before included.  It    *)
(* then patches one ReplicaSet after another; a patch is refused (409) if  *)
(* its ReplicaSet is not the one listed.  Meanwhile pods start, become     *)
(* ready and fail, the ReplicaSet controller reports them, users scale the *)
(* Deployment and continue steps, and the Deployment controller still      *)
(* scales and reports a paused Deployment.                                 *)
(*                                                                         *)
(* Abstracted: pods are available as soon as they are ready                *)
(* (minReadySeconds = 0); revision and control-info annotations; the       *)
(* Progressing condition, and the Deployment status the executor patches   *)
(* in vain; a ReplicaSet equal to its listed copy counts as unchanged.     *)
(***************************************************************************)
EXTENDS ReplicaMath, Sequences, SequencesExt, FiniteSets, Functions, TLC

CONSTANTS
  Olds,        \* ReplicaSets of older versions (at least one)
  New,         \* the ReplicaSet of the version being released
  Created,     \* creation time of each of them, all different
  Revision,    \* revision of each old one, all different
  NewExists,   \* was the new version released before (a rollback)?
  Surge,       \* BatchRelease.Status.MaxSurge
  Unavailable, \* BatchRelease.Status.MaxUnavailable
  Steps,       \* the partition of each step
  Replicas,    \* the sizes the Deployment starts with
  Targets,     \* the sizes users scale it to
  MaxBehind,   \* bound on the changes the informer has not delivered yet
  MaxScales,   \* bound on users' changes of spec.replicas
  MaxFailures, \* bound on pods that fail
  MaxFaults    \* bound on API calls that fail for no reason of ours

Sets == Olds \cup {New}

ASSUME SetsAssumption  == New \notin Olds /\ Olds # {} /\ IsFiniteSet(Olds)
ASSUME OrderAssumption == /\ Created \in [Sets -> Nat] /\ IsInjective(Created)
                          /\ Revision \in [Olds -> Nat] /\ IsInjective(Revision)
ASSUME PlanAssumption  == /\ {Surge, Unavailable} \subseteq IntOrString
                          /\ Steps \in Seq(IntOrString) /\ Steps # <<>>
ASSUME SizeAssumption  == /\ Replicas \cup Targets \subseteq Nat
                          /\ NewExists \in BOOLEAN
                          /\ {MaxBehind, MaxScales, MaxFailures, MaxFaults} \subseteq Nat

VARIABLES
  rs,       \* the ReplicaSets there are, on the API server
  cache,    \* the informer's copy of them: rs, failures (as they were then),
            \* behind (changes since), missed (is one of them a patch of ours?)
  replicas, \* Deployment.Spec.Replicas
  deStatus, \* what the Deployment controller has reported of them
  idx,      \* Status.CurrentStepIndex
  state,    \* Status.CurrentStepState; "Finalizing" once the batches are done
  updated,  \* Status.UpdatedReadyReplicas
  queued,   \* is a request for the BatchRelease in the work queue?
  pc,       \* what the reconcile in progress is patching
  rec,      \* its locals: rs (its copies), replicas, deStatus, todo (patches
            \* to come), scaled (did it resize any?), failed (did one fail?);
            \* history: missed (does the list lack a patch of ours?), surplus
            \* (its ready pods beyond what their ReplicaSets want)
  scales, failures, faults, \* what the bounds count
  lost      \* history: pods that failed since the list was made

vars == <<rs, cache, replicas, deStatus, idx, state, updated, queued, pc, rec,
          scales, failures, faults, lost>>
world    == <<rs, replicas, deStatus>>
release  == <<idx, state, updated>>
counters == <<scales, failures, faults, lost>>

MaxSurge(n)       == ResolveFenceposts(Surge, Unavailable, n).surge
MaxUnavailable(n) == Lesser(ResolveFenceposts(Surge, Unavailable, n).unavailable, n)
MinAvailable(n)   == n - MaxUnavailable(n)

(* Status.CurrentStepIndex counts from 0.                                  *)
Partition(i) == Steps[i + 1]
Limit(i, n)  == NewRSReplicasLimit(Partition(i), n)

(***************************************************************************)
(* Lists of ReplicaSets: s maps those there are to what they are.          *)
(***************************************************************************)
Total(s, S)     == SumFunctionOnSet([r \in DOMAIN s |-> s[r].size], S \cap DOMAIN s)
Pods(s, S)      == SumFunctionOnSet([r \in DOMAIN s |-> s[r].pods], S \cap DOMAIN s)
Available(s, S) == SumFunctionOnSet([r \in DOMAIN s |-> s[r].ready], S \cap DOMAIN s)

Active(s, S) == {r \in S \cap DOMAIN s : s[r].size > 0}

(* Mutant: the smallest revision comes first.                              *)
MutantBySmallerRevision(a, b) == Revision[a] < Revision[b]

(* The sort orders: by creation, by revision (the larger first), by size   *)
(* (the larger first) with the older or the newer first among equals.      *)
ByCreation(a, b)         == Created[a] < Created[b]
BySmallerRevision(a, b) == Revision[a] > Revision[b]
BySizeOlder(s, a, b) ==
  s[a].size > s[b].size \/ (s[a].size = s[b].size /\ Created[a] < Created[b])
BySizeNewer(s, a, b) ==
  s[a].size > s[b].size \/ (s[a].size = s[b].size /\ Created[a] > Created[b])

(* sort.Sort: SetToSortSeq of the community modules, for the provers, who  *)
(* know nothing of SortSeq and of SelectSeq.  Those of a list at the       *)
(* places in keep, in their order.                                         *)
Sorted(S, before(_, _)) ==
  CHOOSE f \in [1 .. Cardinality(S) -> S] :
    IsInjective(f) /\ \A i, j \in DOMAIN f : i < j => before(f[i], f[j])

Selected(list, keep) ==
  LET place == Sorted(keep, LAMBDA i, j : i < j)
  IN [k \in DOMAIN place |-> list[place[k]]]

(* scaleReplicaSet's patch of a ReplicaSet: size and both annotations.     *)
Resized(q, size, n) ==
  [q EXCEPT !.size = size, !.desired = n, !.max = n + MaxSurge(n)]

(* A planned patch.  The one with a negative size stands for the error     *)
(* "got invalid request to scale down".                                    *)
Patch(r, size)        == [rs |-> r, size |-> size]
InvalidRequest        == -1

(* scaleReplicaSetAndRecordEvent leaves out what has its size already.     *)
(* Of one patch or of a list of them.                                      *)
IfResized(s, patches) ==
  Selected(patches, {i \in DOMAIN patches : s[patches[i].rs].size # patches[i].size})
PatchIfResized(s, p)  == IF s[p.rs].size = p.size THEN <<>> ELSE <<p>>

Patched(s, p, n)      == [s EXCEPT ![p.rs] = Resized(@, p.size, n)]

(* After a list of patches of different ReplicaSets.                       *)
Apply(s, patches, n) ==
  [r \in DOMAIN s |->
     IF \E i \in DOMAIN patches : patches[i].rs = r
       THEN Resized(s[r], (CHOOSE p \in Range(patches) : p.rs = r).size, n)
       ELSE s[r]]

(* Take up to "most" replicas in all from the ReplicaSets of a list, in    *)
(* its order, and at most share[r] from each.  A negative share is an      *)
(* invalid request, and the loop ends there.                               *)
TakeAway(s, list, most, share) ==
  LET taken[i \in 0 .. Len(list)] ==
        IF i = 0 THEN 0
        ELSE taken[i - 1] + Greater(Lesser(most - taken[i - 1], share[list[i]]), 0)
      invalid(i) == share[list[i]] < 0 /\ taken[i - 1] < most
      count(i)   == taken[i] - taken[i - 1]
  IN IfResized(s, [i \in 1 .. Len(list) |->
       Patch(list[i], IF invalid(i) THEN InvalidRequest ELSE s[list[i]].size - count(i))])

(* Mutant: healthy replicas are cleaned up with the unhealthy ones.        *)
MutantCleanupUnhealthyReplicas(s, S, most) ==
  TakeAway(s, Sorted(S, ByCreation), most, [r \in S |-> s[r].size])

(* cleanupUnhealthyReplicas of the old ReplicaSets S.  One that reports    *)
(* more available pods than it wants is an invalid request.                *)
CleanupUnhealthyReplicas(s, S, most) ==
  TakeAway(s, Sorted(S, ByCreation), most,
           [r \in S |-> IF s[r].size = 0 THEN 0 ELSE s[r].size - s[r].ready])

(***************************************************************************)
(* scale: what a change of spec.replicas does to the ReplicaSets.          *)
(***************************************************************************)
IsScalingEvent(s, n) == \E r \in Active(s, Sets) : s[r].desired # n

Newest(S) == CHOOSE r \in S : \A q \in S : Created[q] <= Created[r]

(* FindActiveOrLatest, as the set of its answer: empty for nil.            *)
FindActiveOrLatest(s) ==
  CASE Cardinality(Active(s, Sets)) = 0 -> {IF New \in DOMAIN s THEN New ELSE Newest(DOMAIN s)}
    [] Cardinality(Active(s, Sets)) = 1 -> Active(s, Sets)
    [] OTHER                            -> {}

IsSaturated(s, n) ==
  /\ New \in DOMAIN s
  /\ s[New].size = n /\ s[New].desired = n /\ s[New].ready = n

(* Every ReplicaSet of the list gets its share, in proportion to its size; *)
(* the first one also gets what rounding leaves over.                      *)
Proportional(s, n, list, toAdd) ==
  LET fraction(r) ==
        GetReplicaSetFraction(s[r].size, n, n + MaxSurge(n), s[r].max)
      added[i \in 0 .. Len(list)] ==
        IF i = 0 THEN 0
        ELSE added[i - 1] +
               GetProportion(s[list[i]].size, fraction(list[i]), toAdd, added[i - 1])
      leftover == IF toAdd = 0 THEN 0 ELSE toAdd - added[Len(list)]
      size(i)  == s[list[i]].size + added[i] - added[i - 1]
  IN [i \in 1 .. Len(list) |->
       Patch(list[i], IF i = 1 THEN Greater(size(i) + leftover, 0) ELSE size(i))]

(* scaleReplicaSet patches what has another size or other annotations.     *)
NeedsPatch(q, p, n) ==
  q.size # p.size \/ q.desired # n \/ q.max # n + MaxSurge(n)

ScaleProportionally(s, n) ==
  LET surplus == Total(s, Sets) - n
      cleanup == IF surplus > 0
                   THEN CleanupUnhealthyReplicas(s, Olds \cap DOMAIN s, surplus)
                   ELSE <<>>
      cleaned == Apply(s, cleanup, n)
      toAdd   == n - Total(cleaned, Sets)
      list    == Sorted(Active(cleaned, Sets), LAMBDA a, b :
                   CASE toAdd > 0 -> BySizeNewer(cleaned, a, b)
                     [] toAdd < 0 -> BySizeOlder(cleaned, a, b)
                     [] toAdd = 0 -> a # New /\ (b = New \/ (surplus > 0) = ByCreation(a, b)))
      shares  == Proportional(cleaned, n, list, toAdd)
  IN IF \E i \in DOMAIN cleanup : cleanup[i].size = InvalidRequest THEN cleanup
     ELSE cleanup \o Selected(shares,
                              {i \in DOMAIN shares : NeedsPatch(cleaned[shares[i].rs], shares[i], n)})

Scale(s, n) ==
  LET only == FindActiveOrLatest(s)
  IN IF only # {}
       THEN PatchIfResized(s, Patch(CHOOSE r \in only : TRUE, n))
     ELSE IF IsSaturated(s, n)
       THEN LET olds == Reverse(Sorted(Active(s, Olds), ByCreation))
            IN [i \in DOMAIN olds |-> Patch(olds[i], 0)]
     ELSE ScaleProportionally(s, n)

(***************************************************************************)
(* stepByStep, Upgrade: the new ReplicaSet first, then the old ones.       *)
(***************************************************************************)
(* Mutant: a step aims at all replicas instead of those of its partition.  *)
MutantNewSize(s, n, i) ==
  NewRSNewReplicas(n, MaxSurge(n), n, Total(s, Sets), s[New].size)

NewSize(s, n, i) ==
  NewRSNewReplicas(n, MaxSurge(n), Limit(i, n), Total(s, Sets), s[New].size)

(* Mutant: the new ReplicaSet is brought to the limit of the step, which   *)
(* may be below what it has.                                               *)
MutantReconcileNew(s, n, i) ==
  PatchIfResized(s, Patch(New, IF s[New].size >= n THEN n
                               ELSE Lesser(NewSize(s, n, i), Limit(i, n))))

(* reconcileNewReplicaSet                                                  *)
ReconcileNew(s, n, i) ==
  PatchIfResized(s, Patch(New, IF s[New].size >= n THEN n ELSE NewSize(s, n, i)))

(* Mutant: the old ReplicaSets may lose whatever availability permits.     *)
MutantOldLimit(s, n, i, S) == Total(s, S)

(* The limit of the partition for a list of old ReplicaSets.               *)
OldLimit(s, n, i, S) ==
  ScaleDownLimitForOld(Total(s, S), s[New].size, Limit(i, n), n)

(* scaleUpOldReplicaSets: the biggest one, or the older.                   *)
ScaleUpOld(s, n, i) ==
  LET olds   == Active(s, Olds)
      target == Sorted(olds, LAMBDA a, b : BySizeOlder(s, a, b))[1]
  IN PatchIfResized(s, Patch(target, s[target].size - OldLimit(s, n, i, olds)))

(* A list of k that append has built grows in place, and is then sorted    *)
(* with what was appended, unless its capacity is k.                       *)
AppendReallocates(k) == k \in {1, 2, 4, 8, 16}

(* The list scaleDownOldReplicaSetsForRollingUpdate iterates over, after   *)
(* FindNewReplicaSet has sorted allRSs, which may share its array.         *)
ScaleDownList(olds) ==
  IF AppendReallocates(Cardinality(olds))
    THEN Sorted(olds, BySmallerRevision)
    ELSE SubSeq(Sorted(olds \cup {New}, ByCreation), 1, Cardinality(olds))

ScaleDownOld(s, n, i, olds) ==
  LET list == ScaleDownList(olds)
      most == Lesser(Available(s, olds \cup {New}) - MinAvailable(n),
                     OldLimit(s, n, i, ToSet(list)))
  IN IF Available(s, olds \cup {New}) <= MinAvailable(n) THEN <<>>
     ELSE TakeAway(s, list, most, [r \in ToSet(list) |-> s[r].size])

(* The rest of reconcileOldReplicaSets, of old ReplicaSets with pods.      *)
ReconcileOld(s, n, i) ==
  LET olds    == Active(s, Olds)
      most    == Lesser(OldLimit(s, n, i, olds),
                        Total(s, Sets) - MinAvailable(n) - (s[New].size - s[New].ready))
      cleanup == CleanupUnhealthyReplicas(s, olds, most)
  IN IF most <= 0 THEN <<>>
     ELSE IF \E j \in DOMAIN cleanup : cleanup[j].size = InvalidRequest THEN cleanup
     ELSE cleanup \o ScaleDownOld(Apply(s, cleanup, n), n, i, olds)

(* reconcileOldReplicaSets: which patches, and whether its caller is told  *)
(* of their failure ("up") or not ("down").                                *)
OldStage(s, n, i) ==
  LET olds == Active(s, Olds)
  IN CASE olds = {} -> [pc |-> "up", todo |-> <<>>]
       [] olds # {} /\ OldLimit(s, n, i, olds) <= 0 -> [pc |-> "up", todo |-> ScaleUpOld(s, n, i)]
       [] OTHER -> [pc |-> "down", todo |-> ReconcileOld(s, n, i)]

UpgradeStage(s, n, i) ==
  IF ReconcileNew(s, n, i) # <<>>
    THEN [pc |-> "new", todo |-> ReconcileNew(s, n, i)]
    ELSE OldStage(s, n, i)

(***************************************************************************)
(* The reconcile                                                           *)
(***************************************************************************)
NoLocals == [rs |-> <<>>, replicas |-> 0,
             deStatus |-> [replicas |-> 0, updated |-> 0, observed |-> FALSE],
             todo |-> <<>>, scaled |-> FALSE, failed |-> FALSE,
             missed |-> FALSE, surplus |-> 0]

(* What the informer has once it has delivered everything.                 *)
Copied(s, k) == [rs |-> s, failures |-> k, behind |-> 0, missed |-> FALSE]

Init ==
  /\ replicas \in Replicas
  /\ \E size \in [IF NewExists THEN Sets ELSE Olds -> 0 .. replicas] :
       /\ SumFunction(size) = replicas
       /\ rs = [r \in DOMAIN size |->
                  [size |-> size[r], pods |-> size[r], ready |-> size[r],
                   desired |-> replicas, max |-> replicas + MaxSurge(replicas)]]
       /\ cache = Copied(rs, 0)
  /\ \E r \in Sets :  \* the Deployment controller last saw another version
       deStatus = [replicas |-> replicas, updated |-> Pods(rs, {r}), observed |-> FALSE]
  /\ idx = 0
  /\ state = ""
  /\ updated = 0
  /\ queued = TRUE
  /\ pc = "idle"
  /\ rec = NoLocals
  /\ scales = 0 /\ failures = 0 /\ faults = 0 /\ lost = 0

(* The informer delivers a change of the ReplicaSets at once, or later.    *)
Watch(ours) ==
  \/ cache' = Copied(rs', failures')
  \/ /\ cache.behind < MaxBehind
     /\ cache' = [cache EXCEPT !.behind = @ + 1, !.missed = @ \/ ours]

(* The ready pods a list has beyond what its ReplicaSets want: the         *)
(* ReplicaSet controller is about to delete them.                          *)
Surplus(s) == SumFunction([r \in DOMAIN s |-> Greater(s[r].ready - s[r].size, 0)])

(* Reconcile and rollingUpdate read the Deployment, and the ReplicaSets    *)
(* from the cache; "then" is where it goes on, with which patches.         *)
StartReconcile(then) ==
  /\ pc = "idle"
  /\ queued
  /\ state # "Finalizing"
  /\ queued' = FALSE
  /\ pc' = then.pc
  /\ rec' = [rs |-> cache.rs, replicas |-> replicas, deStatus |-> deStatus,
             todo |-> then.todo, scaled |-> FALSE, failed |-> FALSE,
             missed |-> cache.missed, surplus |-> Surplus(cache.rs)]
  /\ lost' = failures - cache.failures
  /\ UNCHANGED <<world, cache, release, scales, failures, faults>>

StartSync ==
  /\ IsScalingEvent(cache.rs, replicas)
  /\ StartReconcile([pc |-> "sync", todo |-> Scale(cache.rs, replicas)])

StartUpgrade ==
  /\ ~IsScalingEvent(cache.rs, replicas)
  /\ state = "Upgrade"
  /\ StartReconcile(IF New \in DOMAIN cache.rs THEN UpgradeStage(cache.rs, replicas, idx)
                                               ELSE [pc |-> "create", todo |-> <<>>])

(* The other step states touch no ReplicaSet.                              *)
StartStep ==
  /\ ~IsScalingEvent(cache.rs, replicas)
  /\ state # "Upgrade"
  /\ StartReconcile([pc |-> "step", todo |-> <<>>])

(* A list with one more ReplicaSet, unless it has it already.              *)
WithNew(s, q) == [r \in DOMAIN s \cup {New} |-> IF r \in DOMAIN s THEN s[r] ELSE q]

(* getNewReplicaSet goes on with the new ReplicaSet q on the list.         *)
GoOnWith(q) ==
  LET then == UpgradeStage(WithNew(rec.rs, q), rec.replicas, idx)
  IN /\ rec' = [rec EXCEPT !.rs = WithNew(@, q), !.todo = then.todo]
     /\ pc' = then.pc

(* getNewReplicaSet returns an error.                                      *)
CreateErrs ==
  /\ faults < MaxFaults
  /\ faults' = faults + 1
  /\ rec' = [rec EXCEPT !.failed = TRUE]
  /\ pc' = "new"

(* getNewReplicaSet creates the ReplicaSet the list does not have.  The    *)
(* Deployment's status is written after that, which may fail.              *)
CreateNew ==
  /\ pc = "create"
  /\ New \notin DOMAIN rs
  /\ LET n       == rec.replicas
         fresh(k) == [size |-> k, pods |-> 0, ready |-> 0, desired |-> n,
                      max |-> n + MaxSurge(n)]
         size    == Greater(NewSize(WithNew(rec.rs, fresh(0)), n, idx),
                            NewRSReplicasLowerBound(n, MaxSurge(n)))
     IN /\ rs' = WithNew(rs, fresh(size))
        /\ \/ GoOnWith(fresh(size)) /\ UNCHANGED faults
           \/ CreateErrs
  /\ UNCHANGED <<replicas, deStatus, release, queued, scales, failures, lost>>
  /\ Watch(TRUE)

(* The name is taken, by the ReplicaSet the list does not show: it is      *)
(* fetched from the cache, which may have it by now.                       *)
FindCreated ==
  /\ pc = "create"
  /\ New \in DOMAIN rs
  /\ IF New \in DOMAIN cache.rs
       THEN GoOnWith(cache.rs[New])
       ELSE rec' = [rec EXCEPT !.failed = TRUE] /\ pc' = "new"
  /\ UNCHANGED <<world, cache, release, queued, counters>>

CreateFails ==
  /\ pc = "create"
  /\ CreateErrs
  /\ UNCHANGED <<world, cache, release, queued, scales, failures, lost>>

(* A patch counts only if the ReplicaSet is what the reconcile has listed. *)
PatchNext ==
  /\ rec.todo # <<>>
  /\ LET p == Head(rec.todo)
     IN /\ p.size \in Nat
        /\ rs[p.rs] = rec.rs[p.rs]
        /\ rs' = Patched(rs, p, rec.replicas)
        /\ rec' = [rec EXCEPT !.rs = Patched(@, p, rec.replicas), !.todo = Tail(@),
                              !.scaled = @ \/ rec.rs[p.rs].size # p.size]
  /\ UNCHANGED <<replicas, deStatus, release, queued, pc, counters>>
  /\ Watch(TRUE)

(* The first failure ends the patching: a conflict, an invalid request, or *)
(* a fault.                                                                *)
PatchFails ==
  /\ rec.todo # <<>>
  /\ LET p == Head(rec.todo)
     IN \/ (p.size \notin Nat \/ rs[p.rs] # rec.rs[p.rs]) /\ UNCHANGED faults
        \/ faults < MaxFaults /\ faults' = faults + 1
  /\ rec' = [rec EXCEPT !.todo = <<>>, !.failed = TRUE]
  /\ UNCHANGED <<world, cache, release, queued, pc, scales, failures, lost>>

(* Mutant: the pods that are updated need not be counted.                  *)
MutantIsBatchReady ==
  LET limit == Limit(idx, rec.replicas)
      ready == rec.rs[New].ready
  IN /\ AllowedUnavailable(Unavailable, rec.deStatus.updated) + ready >= limit
     /\ limit > 0 => ready > 0

(* Mutant: the step is ready with more pods than it asks for only.         *)
MutantReadyWithMore ==
  LET limit == Limit(idx, rec.replicas)
      ready == rec.rs[New].ready
  IN /\ rec.deStatus.updated > limit
     /\ AllowedUnavailable(Unavailable, rec.deStatus.updated) + ready >= limit
     /\ limit > 0 => ready > 0

(* IsBatchReady judges by the Deployment status the reconcile has read.    *)
IsBatchReady ==
  LET limit == Limit(idx, rec.replicas)
      ready == rec.rs[New].ready
  IN /\ rec.deStatus.updated >= limit
     /\ AllowedUnavailable(Unavailable, rec.deStatus.updated) + ready >= limit
     /\ limit > 0 => ready > 0

(* DeploymentRolloutSatisfied, of the step the reconcile leaves behind.    *)
RolloutSatisfied(i) ==
  /\ rec.deStatus.observed
  /\ rec.deStatus.replicas = rec.replicas
  /\ rec.deStatus.updated >= Limit(i, rec.replicas)

(* The end of every reconcile: the status is written, which is an event if *)
(* it changes; an error, or a rollout found wanting, requeues.             *)
EndReconcile(newState, newIdx, newUpdated, err) ==
  /\ rec.todo = <<>>
  /\ pc' = "idle"
  /\ state' = newState
  /\ idx' = newIdx
  /\ updated' = newUpdated
  /\ queued' = (queued \/ err \/ release' # release
                  \/ (newState # "Finalizing" /\ ~RolloutSatisfied(newIdx)))
  /\ rec' = NoLocals
  /\ UNCHANGED <<world, cache, counters>>

EndSync ==
  /\ pc = "sync"
  /\ EndReconcile(IF rec.failed THEN state ELSE "Initial", idx, updated, rec.failed)

(* The caller is told: an error is returned, and so is the fact that       *)
(* something was scaled.  It is not told that a scale-down failed.         *)
Told == rec.scaled /\ ~rec.failed

EndUpgrade ==
  \/ /\ pc \in {"new", "up"}
     /\ rec.failed
     /\ EndReconcile(state, idx, updated, TRUE)
  \/ /\ pc \in {"new", "up", "down"}
     /\ Told
     /\ EndReconcile(state, idx, rec.rs[New].ready, FALSE)
  \/ /\ pc \in {"new", "up", "down"}
     /\ ~Told
     /\ rec.failed => pc = "down"
     /\ EndReconcile(IF IsBatchReady THEN "Blocking" ELSE state, idx,
                     rec.rs[New].ready, ~IsBatchReady)

(* Mutant: one step more than there is.                                    *)
MutantLastStep == idx = Len(Steps)

LastStep == idx = Len(Steps) - 1

(* Mutant: the last step ends without having been Completed.               *)
MutantEndStep ==
  /\ pc = "step"
  /\ CASE state = "Blocking"  ->
            EndReconcile(IF LastStep THEN "Finalizing" ELSE state, idx, updated, FALSE)
       [] state = "Completed" -> EndReconcile("Initial", idx + 1, updated, FALSE)
       [] OTHER               -> EndReconcile("Upgrade", idx, updated, FALSE)

(* Mutant: a completed step is begun again.                                *)
MutantSameStep ==
  /\ pc = "step"
  /\ CASE state = "Blocking"  ->
            EndReconcile(IF LastStep THEN "Completed" ELSE state, idx, updated, FALSE)
       [] state = "Completed" ->
            IF LastStep THEN EndReconcile("Finalizing", idx, updated, FALSE)
                        ELSE EndReconcile("Initial", idx, updated, FALSE)
       [] OTHER               -> EndReconcile("Upgrade", idx, updated, FALSE)

EndStep ==
  /\ pc = "step"
  /\ CASE state = "Blocking"  ->
            EndReconcile(IF LastStep THEN "Completed" ELSE state, idx, updated, FALSE)
       [] state = "Completed" ->
            IF LastStep THEN EndReconcile("Finalizing", idx, updated, FALSE)
                        ELSE EndReconcile("Initial", idx + 1, updated, FALSE)
       [] OTHER               -> EndReconcile("Upgrade", idx, updated, FALSE)

Reconcile ==
  \/ StartSync \/ StartUpgrade \/ StartStep
  \/ CreateNew \/ FindCreated \/ CreateFails \/ PatchNext \/ PatchFails
  \/ EndSync \/ EndUpgrade \/ EndStep

(***************************************************************************)
(* The rest of the cluster (external)                                      *)
(***************************************************************************)
(* The ReplicaSet controller creates or deletes pods, not-ready ones first.*)
ReplicaSetControllerActs(r) ==
  /\ rs[r].pods # rs[r].size
  /\ rs' = [rs EXCEPT ![r] = [rs[r] EXCEPT !.pods = rs[r].size,
                                           !.ready = Lesser(rs[r].ready, rs[r].size)]]
  /\ UNCHANGED <<replicas, deStatus, release, queued, pc, rec, counters>>
  /\ Watch(FALSE)

PodBecomesReady(r) ==
  /\ rs[r].ready < rs[r].pods
  /\ rs' = [rs EXCEPT ![r] = [rs[r] EXCEPT !.ready = rs[r].ready + 1]]
  /\ UNCHANGED <<replicas, deStatus, release, queued, pc, rec, counters>>
  /\ Watch(FALSE)

PodFails(r) ==
  /\ failures < MaxFailures
  /\ rs[r].ready > 0
  /\ rs' = [rs EXCEPT ![r] = [rs[r] EXCEPT !.ready = rs[r].ready - 1]]
  /\ failures' = failures + 1
  /\ lost' = lost + 1
  /\ UNCHANGED <<replicas, deStatus, release, queued, pc, rec, scales, faults>>
  /\ Watch(FALSE)

(* The Deployment controller syncs a paused Deployment: it scales the only *)
(* active ReplicaSet, or the old ones once the new one is saturated.  The  *)
(* strategy is Recreate meanwhile, so it neither surges nor shares out.    *)
NativeResizes(r, size) ==
  /\ rs[r].size # size
  /\ rs' = [rs EXCEPT ![r] = [rs[r] EXCEPT !.size = size, !.desired = replicas,
                                           !.max = replicas]]
  /\ UNCHANGED <<replicas, deStatus, release, queued, pc, rec, counters>>
  /\ Watch(FALSE)

NativeScales ==
  LET only == FindActiveOrLatest(rs)
  IN \/ \E r \in only : NativeResizes(r, replicas)
     \/ /\ only = {}
        /\ IsSaturated(rs, replicas)
        /\ \E r \in Active(rs, Olds) : NativeResizes(r, 0)

NativeReports ==
  LET report == [replicas |-> Pods(rs, Sets), updated |-> Pods(rs, {New}), observed |-> TRUE]
  IN /\ deStatus # report
     /\ deStatus' = report
     /\ UNCHANGED <<rs, cache, replicas, release, queued, pc, rec, counters>>

(* A user scales the Deployment: its generation moves on, and the handler  *)
(* of Deployment events enqueues the BatchRelease.                         *)
UserScales(n) ==
  /\ scales < MaxScales
  /\ state # "Finalizing"
  /\ n # replicas
  /\ replicas' = n
  /\ scales' = scales + 1
  /\ deStatus' = [deStatus EXCEPT !.observed = FALSE]
  /\ queued' = TRUE
  /\ UNCHANGED <<rs, cache, release, pc, rec, failures, faults, lost>>

(* A user continues a step.  What a status write can do to that at the     *)
(* same time is ReleaseLifecycle's subject: here it comes in between.      *)
UserContinues ==
  /\ pc = "idle"
  /\ state = "Blocking"
  /\ state' = "Completed"
  /\ queued' = TRUE
  /\ UNCHANGED <<world, cache, idx, updated, pc, rec, counters>>

(* The informer catches up.                                                *)
Deliver ==
  /\ cache.behind > 0
  /\ cache' = Copied(rs, failures)
  /\ UNCHANGED <<world, release, queued, pc, rec, counters>>

Pod == \E r \in DOMAIN rs :
         ReplicaSetControllerActs(r) \/ PodBecomesReady(r)

Next ==
  \/ Reconcile
  \/ Pod
  \/ \E r \in DOMAIN rs : PodFails(r)
  \/ NativeScales
  \/ NativeReports
  \/ Deliver
  \/ \E n \in Targets : UserScales(n)
  \/ UserContinues

(* The worker makes progress whenever it is enabled.  This is weak         *)
(* fairness of Reconcile: Busy is when it is enabled, and a step of it is  *)
(* what changes pc or rec.                                                 *)
Busy == pc # "idle" \/ (queued /\ state # "Finalizing")
WorkerFairness == []<>~Busy \/ []<><<TRUE>>_<<pc, rec>>

(* So do the pods, the Deployment controller and the informer, and blocked *)
(* steps are continued.                                                    *)
Fairness ==
  /\ WorkerFairness
  /\ WF_vars(Pod)
  /\ WF_vars(NativeScales)
  /\ WF_vars(NativeReports)
  /\ WF_vars(Deliver)
  /\ SF_vars(UserContinues)

Spec == Init /\ [][Next]_vars /\ Fairness

(***************************************************************************)
(* Properties                                                              *)
(***************************************************************************)
Scaling == IsScalingEvent(rs, replicas)

SetType == [size : Nat, pods : Nat, ready : Nat, desired : Nat, max : Nat]
(* Every variable has its type: no size is negative, although each is the  *)
(* result of a subtraction, and CurrentStepIndex names a step.             *)
TypeOK ==
  /\ DOMAIN rs \subseteq Sets
  /\ \A r \in DOMAIN rs : rs[r] \in SetType /\ rs[r].ready <= rs[r].pods
  /\ replicas \in Nat
  /\ deStatus \in [replicas : Nat, updated : Nat, observed : BOOLEAN]
  /\ idx \in 0 .. Len(Steps) - 1
  /\ state \in {"", "Initial", "Upgrade", "Blocking", "Completed", "Finalizing"}
  /\ updated \in Nat
  /\ queued \in BOOLEAN
  /\ pc \in {"idle", "sync", "step", "create", "new", "up", "down"}
  /\ scales \in 0 .. MaxScales
  /\ failures \in 0 .. MaxFailures
  /\ faults \in 0 .. MaxFaults
  /\ lost \in 0 .. failures
  /\ cache \in [rs : {cache.rs}, failures : 0 .. failures,
                behind : 0 .. MaxBehind, missed : BOOLEAN]

(* Between scaling events there is never more than the surge on top of     *)
(* spec.replicas: NewRSNewReplicas counts all ReplicaSets, and whatever    *)
(* scale and scaleUpOldReplicaSets add stays below.  One pod is always     *)
(* possible: a new ReplicaSet is created with one if there is no surge.    *)
(* Once users scale, that takes lists which show the patches of the        *)
(* reconciles before.                                                      *)
SurgeBound ==
  ~Scaling => Total(rs, Sets) <= replicas + Greater(MaxSurge(replicas), 1)

(* While old pods are left, the new ReplicaSet has no more replicas than   *)
(* the partition of the current step (newRSNewReplicas, and the lower      *)
(* bound of a new ReplicaSet), unless the Deployment is scaled, a step asks*)
(* for less than the one before, or a rollback finds more to begin with.   *)
NewWithinStep ==
  New \in DOMAIN rs /\ ~Scaling /\ Active(rs, Olds) # {} =>
    rs[New].size <= Greater(Limit(idx, replicas),
                            NewRSReplicasLowerBound(replicas, MaxSurge(replicas)))

(* The ready pods that their ReplicaSets keep.                             *)
Kept(s) == SumFunction([r \in DOMAIN s |-> Lesser(s[r].size, s[r].ready)])

(* A patch of reconcileOldReplicaSets.                                     *)
ScalesDownOld ==
  /\ pc = "down"
  /\ rec.todo # <<>>
  /\ rec'.rs # rec.rs
  /\ rec'.todo = Tail(rec.todo)

(* No patch of reconcileOldReplicaSets, the second and third of the same   *)
(* list included, takes ready pods away below spec.replicas -              *)
(* maxUnavailable, but for the pods that failed after the list was made    *)
(* and those it counts beyond what their ReplicaSets want: the ReplicaSet  *)
(* controller is about to delete them, and the code does not know.  That   *)
(* holds for every list that shows the patches of earlier reconciles, how- *)
(* ever old its pods are.                                                  *)
AvailabilityKept ==
  [][ScalesDownOld /\ ~rec.missed /\ Kept(rs') < Kept(rs) =>
       Kept(rs') + lost + rec.surplus >= MinAvailable(rec.replicas)]_rs

(* Nor does one, from such a list, leave the old ReplicaSets fewer replicas*)
(* than the current step's partition does (ScaleDownLimitForOld, applied   *)
(* twice: before and after the unhealthy replicas are cleaned up).         *)
OldShareKept ==
  [][ScalesDownOld /\ ~rec.missed =>
       Total(rs', Olds) >= rec.replicas - Greater(Limit(idx, rec.replicas), rs[New].size)]_rs

(* Nor does one shrink the new ReplicaSet: the list it iterates over has   *)
(* only old ones, although FindNewReplicaSet may sort the array under it.  *)
NewNeverShrinks ==
  [][ScalesDownOld => rs'[New].size >= rs[New].size]_rs

(* "Do not scale down due to partition settings": a step that asks for     *)
(* fewer replicas than there are, with pods missing or not, takes none     *)
(* away from the new ReplicaSet (newRSNewReplicas), unless there are more  *)
(* than the Deployment has.                                                *)
PartitionNeverShrinks ==
  [][pc = "new" /\ rec.todo # <<>> /\ rec'.rs # rec.rs /\ rec.rs[New].size <= rec.replicas =>
       rs'[New].size >= rs[New].size]_rs

(* Old ReplicaSets whose pods are all ready give theirs up in the order    *)
(* scaleDownOldReplicaSetsForRollingUpdate sorts them: the patch of one    *)
(* takes nothing from it as long as one with a larger revision has any, so *)
(* that the stable version goes last.                                      *)
SmallerRevisionLast ==
  [][ScalesDownOld =>
       \A r, q \in Olds \cap DOMAIN rs :
         rs'[r].size < rs[r].size /\ rs[r].ready = rs[r].size
           /\ Revision[q] > Revision[r] => rs[q].size = 0]_rs

(* Old ReplicaSets only give up replicas when the new one has some, so     *)
(* that the Deployment controller never finds a single active ReplicaSet   *)
(* and scales it back (the lower bound of getNewReplicaSet).               *)
NewBeforeOld ==
  [][ScalesDownOld => rs[New].size > 0]_rs

(* A step that becomes Blocking has as many replicas of the new version as *)
(* its partition asks for, if the Deployment status IsBatchReady judges by *)
(* is one of this version: it may be any number of reports old.            *)
ReportedReady ==
  [][state # "Blocking" /\ state' = "Blocking" /\ rec.deStatus.observed =>
       rs[New].size >= Limit(idx, rec.replicas)]_state

(* Seen from outside, the reconciles of the batches (stepByStep, sync) are *)
(* steps of ReleaseProtocol's step machine: a step is left only completed, *)
(* and a scaling event may set it back but never forward.  Each of them is *)
(* the same promise ReleaseLifecycle keeps with batches abstracted.        *)
Protocol == INSTANCE ReleaseProtocol WITH
              phase <- IF state = "Finalizing" THEN "Finalizing" ELSE "RollingUpdate",
              state <- IF state = "Finalizing" THEN "Completed" ELSE state,
              held  <- TRUE

StepsKeepProtocol == [][Protocol!StepMachine]_<<idx, state>>

(* A reconcile that leaves a batch unfinished is followed by another: no   *)
(* pod or status event wakes the BatchRelease, so a request has to be      *)
(* queued until the step waits for a user (Reconcile's last lines).  What   *)
(* becomes of a scaling event is ScalingSettles' question.                 *)
WorkQueued ==
  pc = "idle" /\ ~Scaling /\ state \notin {"Blocking", "Finalizing"} => queued

(* Every release whose steps are continued gets to the end of its batches, *)
(* whatever lists are stale and patches refused, unless a reconcile leaves *)
(* a batch with no request to follow it (which WorkQueued says, and the    *)
(* code does not keep).                                                    *)
BatchesEnd == []<>WorkQueued => <>(state = "Finalizing")

(* Every change of spec.replicas is worked off: isScalingEvent does not    *)
(* stay true, whatever fails on the way.                                   *)
ScalingSettles == []<>~Scaling

(***************************************************************************)
(* Inductive invariants                                                    *)
(***************************************************************************)
StatusType == [replicas : Nat, updated : Nat, observed : BOOLEAN]
IsList(s)  == DOMAIN s \subseteq Sets /\ s \in [DOMAIN s -> SetType]

(* Why sizes and counts stay natural numbers: what a reconcile works on is *)
(* a list of typed ReplicaSets, with the new one among them once it goes   *)
(* on after getNewReplicaSet.  What it has yet to patch needs no type: a   *)
(* patch with a negative size is refused.                                  *)
LocalsTyped ==
  /\ rec \in [rs : {rec.rs}, replicas : Nat, deStatus : StatusType,
              todo : {rec.todo}, scaled : BOOLEAN, failed : BOOLEAN,
              missed : BOOLEAN, surplus : Nat]
  /\ IsList(rec.rs)
  /\ pc = "idle" => rec.todo = <<>>
  /\ pc = "create" => New \notin DOMAIN rec.rs /\ rec.todo = <<>>
  /\ pc \in {"new", "up", "down"} =>
       New \in DOMAIN rec.rs \/ (pc = "new" /\ rec.failed /\ rec.todo = <<>>)

TypeInductive == TypeOK /\ IsList(rs) /\ IsList(cache.rs) /\ LocalsTyped

(* Why reconciles are steps of the protocol: each was begun for the step   *)
(* state it ends in, and nobody else moves the step while it runs.         *)
ProtocolInductive ==
  /\ pc # "idle" => state # "Finalizing"
  /\ pc \in {"create", "new", "up", "down"} => state = "Upgrade"
  /\ pc = "step" => state # "Upgrade"

(* Why a partition never shrinks the new ReplicaSet: what was listed is    *)
(* still there, reconcileNewReplicaSet plans one patch at most, and it is  *)
(* not for less than was listed.  A list that lacks no patch of ours lacks *)
(* no ReplicaSet, and old ones are on every list.                          *)
NewGrows(p) ==
  /\ p.rs = New
  /\ rec.rs[New].size <= rec.replicas => p.size >= rec.rs[New].size

Listed ==
  /\ Olds \subseteq DOMAIN cache.rs /\ DOMAIN cache.rs \subseteq DOMAIN rs
  /\ ~cache.missed => DOMAIN cache.rs = DOMAIN rs
  /\ DOMAIN rec.rs \subseteq DOMAIN rs
  /\ pc # "idle" => Olds \subseteq DOMAIN rec.rs
  /\ pc \in {"create", "down"} /\ ~rec.missed => DOMAIN rec.rs = DOMAIN rs

GrowthInductive ==
  /\ Listed
  /\ pc = "new" /\ rec.todo # <<>> =>
       rec.todo = <<Head(rec.todo)>> /\ NewGrows(Head(rec.todo))
=============================================================================
