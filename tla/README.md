# A TLA+ model of batch-release

batch-release is a Kubernetes controller. A `BatchRelease` object names a
Deployment, a new pod template and a list of steps; the controller pauses the
Deployment, moves its pods to the new template step by step, waits at the end of
each step until a user continues it, and finally gives the Deployment back. It
can also roll back to the version that was stable before.

This directory models that controller in TLA+, checks it with TLC on small
instances and proves part of it with TLAPS. Source paths below are relative to
the repository; `executor.go` is `internal/controller/partition/executor.go`.

## The system

### Components

| Component | Where | State it keeps | What it does |
|---|---|---|---|
| Reconciler | `batchrelease_controller.go` | none; the work queue holds its requests | reads the BatchRelease and the Deployment, runs the executor, overwrites the status, decides whether to come back |
| Phase machine | `executor.go` 57-183, 281-313, 1437-1476 | `status.phase`, fenceposts, observed revision, the four stable-version annotations, the rollback mark | take over the Deployment, roll out or back, finalize, record the stable version |
| Step machine | `executor.go` 207-279, 333-358 | `status.currentStepIndex/State` | Initial, Upgrade, Blocking, Completed; judges whether a batch is ready |
| Moving replicas | `executor.go` 185-205, 315-331, 360-759, 1008-1072 | ReplicaSet sizes and their two replica annotations | works off a change of `spec.replicas`; grows the new ReplicaSet and shrinks the old ones within surge, availability and partition |
| New ReplicaSet | `executor.go` 1074-1304, 1331-1399 | the new ReplicaSet, revision annotations, collision count | find or create it |
| Deployment status | `executor.go` 761-1007 | Deployment conditions (in vain), `status.updatedReadyReplicas` | computes a status the API server does not take from this call |
| Arithmetic, helpers | `pkg/util/deployment/deployment.go` | none | fenceposts, limits, sort orders, hashes |
| Event handlers | `batchrelease_event_handller.go` | none; they fill the work queue | which Deployment and ReplicaSet events wake which BatchRelease |
| API types | `api/v1alpha1/batchrelease_types.go` | the object | spec, status, annotations |
| Wiring, manifests, label and JSON utilities | `cmd`, `config`, `pkg/util` | none | not modelled |

### How they interact

Everything goes through the API server. A reconcile reads from the informer's
cache, which may be behind; it writes with `UpdateObj`/`UpdateObjStatus` (read,
change, write, retried on conflict) or with a patch that is refused if the
object has changed. Three others write to the same objects at any time: users
(template, plan, rollback mark, `spec.replicas`, and the status, when they
continue a step), the native Deployment controller (which still scales and
reports a *paused* Deployment) and the ReplicaSet controller with the pods. A
reconcile is woken by BatchRelease events, by Deployment events that change
`spec.replicas`, by an error, or two seconds after it found the rollout wanting.
ReplicaSet events look for a namespace in the control info, which `init` writes
as an owner reference without one, so they wake nobody.

### What is hard, and what has to hold

* *The phase machine* is spread over many reconciles, with a crash, a failed
  call or a user between any two API calls. The Deployment must be paused
  whenever batches roll; a rollback must find a version, one the Deployment has
  had; nobody may pass a step that was not continued; a completed release must
  have given the Deployment back and recorded what it released; and a release
  whose users have become quiet must complete.
* *The status write* replaces what others have written meanwhile.
* *Moving replicas* works on one list, patch by patch, while the ReplicaSets
  change. Surge, availability, the partition and the order of the ReplicaSets
  must hold at each patch, and each reconcile that leaves work must be followed
  by another.
* *Go slices* made by `append` share arrays that helpers sort in place.
* *Readiness* is judged by a status someone else writes.
* *The new ReplicaSet* is created under a name that may be taken, from a list
  that may not show it: creating has to be idempotent, a collision must not be
  counted where there is none, and its revision is written by two controllers.
* *Who is woken* depends on one annotation of the Deployment, on one kind of
  event, and on two caches; two BatchReleases may name one Deployment. The one
  that has it must hear of each scaling, and the one that waits must begin once
  it is free.

`PROJECT.json` lists these hazards at their lines with the properties for each.

## Modules

| Module | Models | |
|---|---|---|
| `ReleaseProtocol` | what a release promises: phases, steps, who holds the Deployment | abstract specification |
| `ReleaseLifecycle` | reconciler, phase and step machine | replicas reduced to "ready" and "scaling"; implements `ReleaseProtocol` |
| `ReplicaMath` | the pure arithmetic | used by `BatchRollout` |
| `BatchRollout` | `rollingUpdate` and everything below it | phases reduced to "rolling" and "Finalizing"; its steps are `ReleaseProtocol`'s |
| `NewReplicaSet` | `getAllReplicaSetsAndSyncRevision`, `getNewReplicaSet` | sizes and pods left out |
| `ReleaseOwnership` | event handlers, work queue, several BatchReleases | batches reduced to choices |
| `MCReleaseLifecycle`, `MCBatchRollout`, `MCNewReplicaSet`, `MCReleaseOwnership` | instances for TLC | |
| `ReleaseLifecycleProofs`, `ReleaseOutcomeProofs`, `ReleaseProtocolProofs` | theorems about `ReleaseLifecycle` | types, pausing; how a release ends; the refinement |
| `ReplicaMathProofs`, `SumLemmas`, `BatchRolloutProofs` | theorems about `ReplicaMath`, sums and `BatchRollout` | the inductive invariants of the last are in `BatchInvariants` |
| `NewReplicaSetProofs`, `ReleaseOwnershipProofs` | theorems about `NewReplicaSet` and `ReleaseOwnership` | |

Each model has one kind of race in detail and the rest reduced: `ReleaseLifecycle`
those around the *object*, `BatchRollout` those around the *sizes* of the
ReplicaSets, `NewReplicaSet` those around their *existence*, `ReleaseOwnership`
those around *events* and several releases. They are not multiplied; what ties
the first two together is `ReleaseProtocol`, which both implement.

### ReleaseProtocol

Four variables: the phase, the step index, the step state, and whether the
Deployment is `held`. An action is what an observer may see next: `Prepare`,
`Reset`, `Hold` and `Begin` take the Deployment, `Start` ... `Finish` are the step
machine, `GiveBack` and `Complete` end it. Nothing of caches, calls and crashes is
in it. In `ReleaseLifecycle` the refinement mapping is `held <- de.paused /\
de.owned` (`KeepsProtocol`), where a reconcile of many steps is one step of the
protocol and stutters; in `BatchRollout` the Deployment is always held and the
mapping is of the step machine alone (`StepsKeepProtocol`).

Two weaknesses of the code are part of the promise, or the code would not keep
it: a continuation may be forgotten (`Forgotten`: the status write of
`lifecycle_lost_approval`), and a release may start over at any time (`Prepare`,
`Reset`: a new template, or a take-over that failed after the counters were reset).

### ReleaseLifecycle

`spec`, `anno`, `status` are the BatchRelease on the API server, `cache` the
informer's copy, `de` what matters of the Deployment (template, paused, its
fenceposts, control info). `pc` and `rec` are the reconcile in progress: `old`
is Reconcile's `br`, `br` the executor's `Br`, `de` the Deployment it read.
Each case of `Do` is an action named after its handler and how it ends
(`PhaseInitial`, `RollbackWhileRolling`, `StepUpgrade`, `FinalizeRecord`, ...);
`SyncStatus` is the status write, `EndReconcile` the requeue decision. Every
API call is a step and may fail (`Fail`), and the process may `Crash` between
any two.

Abstractions, by name:

* `ready`/`scaling` stand for the ReplicaSets; a plan is its length.
* `Hash` is any function of templates: it need not be injective.
* The check of `resourceVersion` is equality with the current value
  (`CacheFresh`), and `UpdateObj`'s few retries are folded into one outcome.
* `StaleReads` chooses whether a reconcile may *begin* with an old cached
  BatchRelease. The Deployment is read as it is.
* A sync that returns no error may leave the scaling event as it was
  (`SyncScaling`), and a reconcile that leaves work may find the Deployment's
  status satisfied and be followed by none (`EndReconcile`). Both are what the code
  does, in detail in `BatchRollout`; here they are choices.
* `Patient` users let the controller observe a template before they ask for
  anything else; impatient ones do not.
* An informer may skip versions. Its periodic resync is left out, here and in
  `BatchRollout`: nothing may depend on it.

### ReplicaMath

One operator per Go function. `IntOrString` is an integer, a percentage, or a
string that is neither (which `GetScaledValueFromIntOrPercent` turns into 0 with
an error the callers drop). Float rounding is integer rounding half away from
zero. Integers are unbounded.

### BatchRollout

`rs` maps the ReplicaSets that exist to size, pods, ready pods and the two
annotations; `cache` is the informer's copy of them. A change of `rs`, by
whomever, reaches the copy at once or stays out of it (`Watch`), up to `MaxBehind`
changes, until the informer catches up with all of them (`Deliver`). A
reconcile lists the copy once (`StartSync`, `StartUpgrade`, `StartStep`), computes its patches from the list (`Scale`, `UpgradeStage`), and
applies them one by one (`PatchNext`); a patch on a ReplicaSet that is no longer
the listed one, an invalid request or a fault ends the patching (`PatchFails`).
`pc` says who is told of that: `sync`, `new` and `up` return the error, `down`
swallows it, as `reconcileOldReplicaSets` does. `getNewReplicaSet` creates a
ReplicaSet that the list does not show (`CreateNew`, `CreateFails`), or finds that
it is there (`FindCreated`), and fails if the status of the Deployment cannot be
written after that (`CreateErrs`). `EndReconcile` writes the status
and decides whether to come back.

`ScaleDownList` has the effect of Go's `append`: a list of `k` old ReplicaSets
shares its array with `append(oldRSs, newRS)` unless its capacity is `k`
(`AppendReallocates`), and `FindNewReplicaSet` sorts that array by creation.

Abstractions: pods are available as soon as ready (`minReadySeconds` 0); equal
value counts as equal `resourceVersion`; nobody else creates the new ReplicaSet
(`NewReplicaSet` has that); conditions, revisions and the ineffective patch of
the Deployment status are left out. Whether a list lacks a patch of an earlier
reconcile (`rec.missed`), and how many ready pods it shows beyond what their
ReplicaSets want (`rec.surplus`), are history, for the properties.

### NewReplicaSet

`sets` maps times of creation to ReplicaSets, each with name, template, owner,
deletion mark, revision and revision history; `de` the
Deployment's template, collision count, revision and Progressing reason.
`setCache` and `deCache` are the informers' copies, delivered independently. A
reconcile reads both once (`StartReconcile`) and calls `getNewReplicaSet` for the
scaling check, then for the sync or the upgrade, on the *same* list (`rec.call`).
The paths of that function are actions: `PatchExisting`, `FollowExisting`,
`FindNone`, `CreateNew`, then `NameTaken` if the name was, then `Revise`. Each
write is refused if the object is not the one read. The Deployment controller
numbers revisions with the same operators (`NativeAnnotates`), reports
(`NativeReports`) and cleans up (`NativeCleansUp`, and `Removed`, the garbage
collector).

Abstractions: `Hash` is a constant function of template and collision count;
`gen` counts take-overs so that a template that comes back is a new Deployment;
a history has room for a number of revisions instead of 2000 characters;
`PromptCache` chooses whether the ReplicaSet informer has caught up when a
release begins.

### ReleaseOwnership

`br` has the status of each BatchRelease, `de`/`deCache` the Deployments
(size, control info, whether they have a RollingUpdate strategy), `sized` the
`spec.replicas` the ReplicaSets were last brought in line with, `queue` the
requests, `run` the reconcile in progress with the Deployment it read. `Start`
is the two `Get`s at the head of `Reconcile`; `Handle` has one action per phase
and ending; `Woken` and `DeliverDeployment` are `enqueueRequestForDeployment`,
`ReplicaSetEvent` is `handleReplicaSet`, whose requests lack the namespace.
Users create, delete and scale Deployments, and edit BatchReleases.

Abstractions: a BatchRelease is read and written in the step that handles it;
whether a batch is ready, and whether a quiet reconcile is repeated, are choices;
rollback and the reconcile that records the stable version are left out.

## Runs

All runs but `new_replicaset` have `CHECK_DEADLOCK FALSE`: a completed release, or
one whose user never comes, really stops, and the counters of users and faults run
out. In `new_replicaset` a user may always continue, and deadlock is checked.

### Runs that pass

| Run | Question | Instance |
|---|---|---|
| `lifecycle_patient` | Is the life of a release safe under crashes, failed calls, scaling and rollback? | 2 templates, plans of 1 or 2 steps, 2 edits, 1 scaling, 1 fault; 1.2 million states; also refinement of `ReleaseProtocol` |
| `lifecycle_impatient` | Does a rollback find a version when users edit at any moment and reconciles begin with old versions? | 2 edits, no scaling, 1 fault; 3.2 million states |
| `lifecycle_live` | Does it complete? | 1 edit, 1 scaling, 1 fault |
| `rollout_scaled` | The surge and the steps, with a scaling | 3 ReplicaSets, 3 pods scaled to 2-4, surge 1, unavailable 1, current lists; 1.8 million states |
| `rollout_forward` | A new version without surge, by a plan that makes no sense: readiness, new before old, nothing taken back, termination | 3 ReplicaSets, steps of 150%, no number, 1, 100%, unavailable 1, lists 1 change behind, 1 fault |
| `rollout_back` | A rollback to the oldest ReplicaSet: partition, surge, availability, the old share, order, termination | 3 ReplicaSets, surge 1, lists 1 change behind, 1 failing pod |
| `new_replicaset` | Is the ReplicaSet created once, numbered without loss, and in the end? | 2 templates forth and back, 1 foreign ReplicaSet on the first new name, 1 clean-up, 1 scaling, 1 fault |
| `ownership` | Who hears of what, with two releases on one Deployment? | 2 BatchReleases, 1 Deployment, 2 sizes, 2 events |

*Bounds.* Two templates are enough to tell "the one asked for" from "the one
deployed" and "the stable one"; two steps have a first, a last and one to pass;
two edits let a user change his mind, or edit and roll back, within one release;
one fault can fall between any two API calls. Two old ReplicaSets and three pods
let the old ones share what is taken away, with percentages that do not divide.
150% of three is capped to the two that 50% gives, so that the odd plan loses no
case of an ordinary one. A list that is one change behind misses a patch of the
reconcile before, a failed pod, a pod that became ready, or pods that were
deleted; what it shows beyond that is as old as the change it misses.
Three old ones are needed only for the array sharing, and have a run of their
own. Two take-overs go to another template and back, so that a ReplicaSet is
created, collides, is adopted and is found again; a foreign ReplicaSet holds the
first new name, so that the count moves; `MaxRevision` 3 ends the ping-pong in
which native controller and executor number on from lists of different age. Two
sizes and two events let a scaling fall before, during and after a take-over, or
a Deployment vanish between two of them. No symmetry is used: templates have
hashes, ReplicaSets have ages, and fairness names the BatchReleases.

*Properties.* Each is stated in its module with the code it is about.
`PausedWhileRolling`, `ReleasedWhenCompleted`: who owns the Deployment and when.
`StableWasDeployed`, `StableIsReleased`, `RollbackHasTarget`: what a rollback
goes to. `StepsApproved`: no step is passed that was not continued.
`ScalesOwnRelease`: replicas move only for the template asked for.
`EventuallyReleased`, `BatchesEnd`: it completes, if whenever a reconcile leaves
work some request follows in the end (`WorkQueued`), and, for the first, if scaling
events end: the code promises neither, as `rollout_lost_wakeup` and
`rollout_sticky_scaling` show, so both are premises. `SurgeBound`,
`AvailabilityKept`, `OldShareKept`, `NewWithinStep`: limits that hold patch by
patch; the second and third are about lists that show the patches of the reconciles
before, because with others the code does not keep them (*Also observed*), and
availability does not count ready pods in surplus, which the code does.
`NewBeforeOld`, `SmallerRevisionLast`: order. `NewNeverShrinks`: direction, where it
fails. `PartitionNeverShrinks`: what a plan may not do. `ReportedReady`:
readiness, given a report on this version. `OneSetPerTemplate`,
`CollisionIsReal`: creating is idempotent and counts only real collisions.
`RevisionsRecorded`: no revision is lost, whoever writes it. `NewSetAppears`: the
ReplicaSet is there in the end. `OwnerIsWoken`, `ScalingArrives`: each scaling is
heard of and worked off by the release that has the Deployment.
`BeginsWhenAvailable`: a waiting release begins. `KeepsProtocol`,
`StepsKeepProtocol`: both machines keep the abstract promise.

*Fairness.* `WF(Reconcile)`: the controller's worker takes what is queued (one
worker, the default). `WF` of the watch, of pods becoming ready, of the
Deployment controller's scaling and reporting: each retries until it succeeds.
`WF(Deliver)`: the informer catches up.
`WF`/`SF(UserApprove, UserContinues)`: the premise "whoever runs the release
continues blocked steps"; strong where a reconcile may take the step out of
Blocking in between. In `BatchRollout` weak fairness of `Reconcile` is written
out as `WorkerFairness` (`Busy` is its enabling condition), which TLC evaluates
much faster. In `NewReplicaSet`, `WF(Removed)` is the garbage collector. In
`ReleaseOwnership`, `SF(Start(Request(b)))` says that the work queue, which is
first in first out, serves each request in turn although the worker is busy with
another in between; requests without a namespace have no fairness. Faults, crashes, failing pods and edits have none and are bounded.

### Runs that show a disagreement

Each checks one thing a comment or message of the code says, and TLC finds a
behaviour of the code against it. `PROJECT.json` quotes the lines.

| Run | What happens |
|---|---|
| `lifecycle_lost_approval` | a status write that began earlier takes a continued step back to Blocking |
| `rollout_shared_array` | with three old ReplicaSets, the new one is scaled down as if it were old |
| `rollout_lost_wakeup` | a reconcile that still scales down ends satisfied, with nothing queued: Deployment status updates are ignored, and ReplicaSet events, which could help, ask for a BatchRelease without a namespace |
| `rollout_sticky_scaling` | an old annotation on a ReplicaSet of the right size is never patched: the scaling event does not end |

### Also observed

Instances that were checked, and behaviours met while modelling, that are not
kept as runs:

* With `StaleReads`, `PausedWhileRolling`, `ReleasedWhenCompleted`,
  `StepsApproved` and `ScalesOwnRelease` fail: a reconcile that begins with a
  version from before its own last write repeats or undoes a phase.
  `StableWasDeployed` holds with patient users, `RollbackHasTarget` with all.
* With impatient users and fresh reads, `StableWasDeployed`,
  `ReleasedWhenCompleted`, `StepsApproved` and `ScalesOwnRelease` fail and
  `PausedWhileRolling` holds (it is proved). `StableWasDeployed` needs two edits:
  a template changed while the phase is Finalizing, and the rollback mark, which
  keeps `handlePodTemplateUpdate` from noticing it; `finalize` then records a
  version that never was deployed.
* `NewWithinStep` fails once the Deployment is scaled within a step (the instance
  of `rollout_sticky_scaling`): proportional scaling does not look at the
  partition. It also fails in a step that asks for less than the one before, since
  nothing is taken back, and in a rollback that finds more of its version than the
  first step asks for. `ReportedReady` fails then too: the report is about this version but
  older than the scaling.
* Without its premise `OldShareKept` fails: three replicas, a step of limit 2, a new
  ReplicaSet of two and two old ones, o1 and o2, of one each. A reconcile lists them,
  a pod of o1 fails, and the reconcile patches o2 to 0. The next one's list
  (`executor.go` 1287 reads the informer's copy) has the failure but not that patch:
  it cleans up o1, which is what it was listed as, and the old ReplicaSets are left
  with 0 although the step reserves 1 for them.
* `SurgeBound` fails with `MaxBehind` 1 in the instance of `rollout_scaled`, for the
  same reason: after a scaling from 3 to 2 two reconciles in a row use the same
  numbers. Up to the first list that misses a patch it holds there (5.1 million
  states), and without a scaling it holds with any list (`rollout_back`; and the
  instance of `rollout_scaled` without the scaling, with a failing pod and a fault,
  7.5 million states).
* Ready pods of a ReplicaSet that is about to lose them count as available in
  `scaleDownOldReplicaSetsForRollingUpdate`: without `rec.surplus`,
  `AvailabilityKept` fails. Nothing in the executor waits until they are gone. In
  `cleanupUnhealthyReplicas` they make the unhealthy count negative: the scaling
  down is given up with an error that nobody is told of.
* `OldShareKept` fails once the Deployment may be scaled to 0:
  a scaling to 0 that is given up half-way leaves the new ReplicaSet with size and
  annotation 0; in a later step without surge, a second scaling to 0 makes it
  saturated, and the native controller takes an old ReplicaSet away between the
  list and the patch of another (a rollback of 4 pods, steps of no number and 50%,
  unavailable 2, three scalings).
* `getReplicaSetFraction` may divide by 0, which its comment excludes (`executor.go`
  547-549). With no surge, or one in percent, a scaling to 0 annotates a maximum
  of 0; if it takes the unhealthy pods of an old ReplicaSet, fails at the next patch
  and the user scales up before the retry, that ReplicaSet is active with that
  annotation, and the `+Inf` becomes whatever the platform makes of it as an
  `int32`. TLC reaches it in 9 states (3 pods, 25% surge, sizes 0 and 4, one failing
  pod, one fault). The instances of the runs are not scaled to 0, and there the
  annotation is positive.
* `SurgeBound` needs surge in a rollback, or a new ReplicaSet that is created. In
  a rollback without (the instance of `rollout_back` with surge 0, unavailable 2
  and 4 replicas) the native controller scales the only active old ReplicaSet back between the list and the
  patch of the new one.
* `SmallerRevisionLast` fails with three old ReplicaSets and a new one created
  last (otherwise the instance of `rollout_shared_array`): the sort by creation
  puts the stable version first.
* `BatchesEnd` fails in a rollback without surge (the native controller scales
  the old ReplicaSet back whenever it is the only active one) and with three old
  ReplicaSets (the loop of `rollout_shared_array`).
* Without the premise of `BatchesEnd`, the batches of `rollout_forward` and
  `rollout_back` end if lists are current, and need not if they are behind: the last
  reconcile scales something, finds the status satisfied, and none follows. With
  current lists that happens too with surge *and* unavailability, or when the
  first step is no number: a step of limit 0 finds every status satisfied.
* A step can become Blocking on a Deployment status of the previous version,
  after a conflict that `reconcileOldReplicaSets` swallows (`executor.go` 337-338,
  616): `ReportedReady` has the premise that the status is of this version.
* A new ReplicaSet that exists with size 0 gets no lower bound (`executor.go`
  1176-1181 has one for a created one only): `NewBeforeOld` fails in a rollback
  without surge.
* `OneSetPerTemplate` fails without `PromptCache` and with three take-overs: the
  ReplicaSet informer is a whole release behind, the collision count has moved on
  meanwhile, and the template that comes back gets a second ReplicaSet. Own
  ReplicaSets whose hashes collide are not in the instance.
* The ReplicaSet that holds the name is adopted without a look at its deletion
  timestamp (`executor.go` 1195-1210). The new one appears all the same, after the
  garbage collector has been there. A second call of `getNewReplicaSet` in one
  reconcile conflicts with the first one's patch, since the list is not refreshed;
  the retry succeeds.
* Two BatchReleases on one Deployment: `init` of the second fails, RollingUpdate
  being gone, until the first finalizes; but if it had captured the fenceposts
  before, it takes the Deployment over. The loser goes on, is never woken by a
  scaling, and its `finalize` releases the Deployment of the winner, since nobody
  looks whose it is.
* A BatchRelease that is deleted in the middle leaves its Deployment paused (there
  is no finalizer), and one created anew cannot begin on it: the fenceposts are
  lost. A Deployment that is deleted and created anew in the middle is not taken
  over again while the phase is RollingUpdate.

## Proofs

`ReleaseLifecycleProofs`, for all templates, hash functions, plans and bounds:

* `TypeCorrect` and `RollbackTarget` (`RollbackHasTarget`), with stale reads too.
  `TypeOK` alone is not inductive: `RewriteSpec` writes the template of an
  annotation, which might be absent. `RecordInductive` adds why it is not: no
  phase past Initial is reached, on the API server, in the cache or in a
  reconcile's copy, before both annotations are there (`Recorded`); what a cache
  or a copy has of them, the API server has (`StableRecorded`); and only a
  reconcile that saw Finalizing records at the end (`RecordsLast`).
* `Paused` (`PausedWhileRolling`), if `StaleReads` is FALSE. `PausedInductive`
  adds that nobody else writes the phase while a reconcile runs, so that the
  phase it read is the phase there is, and that it carries a rolling phase
  towards the status write only once the Deployment is taken over.

Each is `Init => IInv`, `IInv /\ [Next]_vars => IInv'`, with one lemma or step
per action, and `PTL`. The assumptions are those of the module
(`HashAssumption`, `NoneAssumption`, ...), which TLC evaluates in the runs.

`ReleaseOutcomeProofs`: `NoStepSkipped` (`StepsApproved`), `ScalesWhatItHolds`
(`ScalesOwnRelease`), `GivesTheDeploymentBack` (`ReleasedWhenCompleted`),
`RecordsWhatItReleased` (`StableIsReleased`) and `StableVersionsRan`
(`StableWasDeployed`), if `StaleReads` is FALSE and `Patient` is TRUE; without
either the first three fail (see *Also observed*).
`OutcomeInductive` is why:

* `Consistent` is what an object promises, on the API server and as a reconcile
  first saw it: a hash is observed from the first take-over on (`Observes`); while a
  template is rolled out it is the Deployment's (`HoldsObserved`), and a rollback
  under way was asked for after it had been (`RollbackObserved`); the steps that
  were left, and a completed one, have been continued (`Continued`); and a
  completed release has given the Deployment back and recorded it (`Released`).
* `OnlyUsersActed` is what may have happened to the object since a reconcile read
  it, and `Writes` what the status it is about to write promises: it is as
  consistent as the one it replaces, although the user may meanwhile have released
  another template, because then it restarts the release.

One lemma per handler shows that what it leaves to be written is consistent
(`DoOutcome`), and one per action of the others that they do not disturb it.
`StableVersionsRan` has one assumption more, that no two templates have the same
hash. It is needed: TLC finds, with two templates of one hash, a user who releases
A, then B, then A' that has the hash of A; the controller sees a template it has
observed, deploys nothing, and `finalize` records A', which never ran.

`ReleaseProtocolProofs`: `KeepsTheProtocol` (`KeepsProtocol`), if `StaleReads` is
FALSE: every behaviour of `ReleaseLifecycle` is one of `ReleaseProtocol`. The proof
is that of a refinement: initial states map to initial states (`InitProtocol`),
and each step maps to a step or a stutter (`NextProtocol`) in a state that
satisfies `PausedInductive` and `ProtocolInductive`. The latter says what a
reconcile knows: until it writes, the status is the one it began with, but that
users may have continued the step (`MayBe`); what the executor makes of it is one
of seven things (`Handled`), the last of which needs the Deployment given back;
and a release that Finalizes has its last step completed (`Ends`). One lemma per
handler establishes `Handled` (`DoProtocol`), and one reads off which protocol
step the status write is (`WriteProtocol`).

`ReleaseOwnershipProofs`, for any number of BatchReleases, Deployments and sizes:
`TypeCorrect`, and `OwnerWoken` (`OwnerIsWoken`). `WakeInvariant` is why. An owner
targets the Deployment and had seen it (`OwnedIsTaken`), so that the event of a
scaling is not taken for one of a creation, which wakes nobody. The release in
charge is queued or at work while the cache differs from what the ReplicaSets are
sized for (`WokenOrAtWork`), whatever owner the cache shows. And a reconcile that works on an older size is queued again (`WokenAgain`), so that
its end does not leave the difference behind.

`ReplicaMathProofs`, for all sizes and partitions: `LimitBounds` (a partition's
limit is between 0 and the replicas, and leaves an old pod unless it is 100% or
a number), `NewSizeBounds` (the new ReplicaSet is never told to shrink, nor past
the limit, nor past the surge), `ProportionBounds` (proportional shares never
overshoot). They are the single-step facts behind `NewWithinStep` and `SurgeBound`.

`BatchRolloutProofs`, for any number of ReplicaSets, any plan, fenceposts and
bounds, with scalings, faults, failing pods and lists that are behind:

* `TypeCorrect`: sizes and counts stay natural numbers. `TypeInductive` adds that
  what a reconcile works on is a list of typed ReplicaSets, and that the new one is
  in it wherever the code dereferences it. Nothing is assumed of the patches still
  to be sent: the API server refuses a negative size.
* `StepsAreProtocol` (`StepsKeepProtocol`): the step machine is
  `ReleaseProtocol`'s. `ProtocolInductive` says that a reconcile ends in the step
  state it was begun for.
* `PartitionsNeverShrink` (`PartitionNeverShrinks`): a step that asks for less
  takes nothing from the new ReplicaSet. `GrowthInductive` says that
  `reconcileNewReplicaSet` plans one patch at most, for no less than was listed;
  that what was listed is still its size is the optimistic lock's doing.

* `OldKeepTheirShare` (`OldShareKept`), with at most two old ReplicaSets
  (`AppendReallocates`), and if nobody scales the Deployment to 0 in the meantime;
  and `PodsStayAvailable` (`AvailabilityKept`), under the same assumptions. Without
  them the first fails, see *Also observed*.
* `StableGoesLast` (`SmallerRevisionLast`), with at most two old ReplicaSets only:
  no patch takes ready pods from one while another of a larger revision has any.

These three are about the second and third patch of one list as well, when the
list is old, and was when it was made: it may be behind by any number of
changes that others have made. The first two do not say what a list does that misses
a patch of an earlier reconcile; the third does. Two invariants carry the limits. `PlanInductive` is about the list and what
is left to patch on it (`Pending`): those are different old ReplicaSets, each is
made smaller, and with all of them patched the old ones still have their share
(`LeavesOlds`), and the ready pods `minAvailable` (`LeavesAvailable`). That a loop
with a budget takes no more than its budget, whichever order the list has and
wherever an invalid request ends it, is a telescoping sum (`TakeAway`).
`SinceInductive` is about what has become of a list that misses no patch of ours,
in the informer (`CopiedSince`) and in a reconcile: nobody else has resized
anything but possibly the one ReplicaSet that is left to patch
(`OthersUnresized`); or the new one has all replicas, so that the native
controller takes the old ones away (`Saturated`); or the new one is the only
active one, and it is scaled alone (`Alone`). While the new one is created, what
the native controller can do is scale the single active old one
(`CreatesSince`). These cases are what `FindActiveOrLatest` and `IsSaturated` let
happen; a scaling to 0 is outside of them. The optimistic lock does the rest: a
patch only reaches a ReplicaSet that still is as it was listed.

The order needs another, `OrderInductive`. The clean-up of unhealthy replicas goes by
creation but leaves every ReplicaSet its ready pods; the loop after it goes by
revision and takes all of one before it takes anything of the next
(`TakeAwayDescends`). So whatever comes before a patch that takes ready pods has an
earlier patch to 0, of the clean-up or of the loop (`InTurn`), and is at 0 when that
patch is sent, as a patch that fails ends the list. It could have replicas again, or
have got the first since the list was made, only from the native controller, which
scales an old ReplicaSet up only if no other one has any (`FreshAlone`); then the
one to patch is no longer as it was listed, and the patch is refused.

What holds until a user scales the Deployment, with at most two old ReplicaSets:

* `SurgeIsKept` (`SurgeBound`), if a new version that was released before has surge
  to start with (`RoomToStart`; without surge a ReplicaSet that exists with size 0
  need not grow before the old ones shrink) and in behaviours in which no list misses
  a patch of an earlier reconcile. TLC finds no violation without the last either.
* `StepIsKept` (`NewWithinStep`), if no step asks for less than the one before and a
  rollback does not find more of its version than its first step allows
  (`RisingPlan`).
* `NewComesFirst` (`NewBeforeOld`), under `RoomToStart`, and `ReportsAreTrue`
  (`ReportedReady`), both if nobody scales the Deployment at all.

The other three are about lists of any age. The first two say `scales = 0 => ...`
of each state: they also hold, up to the first scaling, of a Deployment that is
scaled later. `RoomToStart` and `RisingPlan` are needed: TLC finds the behaviours
named under *Also observed* without them.

`UnscaledInductive`, and `SurgeInductive` for the surge, are why. Every ReplicaSet is annotated with `spec.replicas`, so
that no reconcile takes the Deployment for scaled; the old ones have all replicas
while there is no new one, or it is empty (`WithinAll`, `WithinStart`), and surge
is the most there is beyond (`WithinSurge`); and of what
was listed, the new one has only grown (`OnlyNewGrows`) and no old one has come back
(`NoOldGrows`, if the list misses no patch of ours). So each patch that is planned, which fits the list, fits the sizes
there are (`PatchWithin`, `PatchSurges`), one after another (`MovesKeepAll`,
`MovesKeepSurge`, `MovesKeepSince`): a failing patch leaves the others in what was
planned for. The native controller can do three things only (`Moves`,
`ClusterMoves`): nothing to sizes, give the single active ReplicaSet all
replicas, or take the old ones away once the new one has all. None of them breaks
a limit, given that an old one is single only while there is no new one
with replicas. `ReportsInductive` follows from that: the pods of the new version that
the Deployment status reports were asked for, and the new one never
shrinks, so that a report of any age is a lower bound of its size.

Sums over ReplicaSets are `SumFunctionOnSet` of the community modules, a fold
defined by recursion over subsets. `SumLemmas` shows that this recursion has a
solution and only one (level by level, `TableExists`, `TablesAgree`), and from it
that sums of natural numbers are natural numbers, and how they change with one
term or compare term by term. It also shows that a finite set can be listed in
the order of a key that tells its elements apart (`OrderExists`), which is what
`Sorted` chooses: the model states what `sort.Sort` and a filter return
(`Sorted`, `Selected`) instead of using `SetToSortSeq` and `SelectSeq`, about whose
recursion the provers know nothing.

`NewReplicaSetProofs`, for any templates, hashes, foreign ReplicaSets and lengths
of history. Each step is one of few kinds of change (a creation, an annotation, a
collision counted, a take-over, a list or a Deployment delivered, a restart, ...;
`EachStep`), and the proofs are about those:

* `TypeCorrect` (`TypeOK`), and `RevisionsAreRecorded` (`RevisionsRecorded`), from
  names being unique (`NamesInductive`): a write only reaches the very object that
  was read.
* `CollisionsAreReal` (`CollisionIsReal`), if no two pairs of template and count
  have the same name. The name a reconcile found taken is that of the Deployment
  it read, and the count is written on the one there is; the optimistic lock makes
  them the same.
* `CreatedOnce` (`OneSetPerTemplate`), under the same assumption and
  `PromptCache`. A list may not show a ReplicaSet that exists; then it is the one
  that would be created, so that its name is in the way and it is found after all
  (`UnseenInductive`). This takes that the count a copy of the Deployment has is
  behind only because the names in between are held by others
  (`CopiesInductive`). Without `PromptCache` it fails, see *Also observed*.

Each inductive invariant was checked by TLC on the runs' instances before it was
proved; `Inductive` of `BatchInvariants` is those of `BatchRollout`, for a TLC model
that extends `MCBatchRollout` and `BatchInvariants` (`SurgeInductive`, which needs
`RoomToStart` and lists that lack no patch, aside).

Only model-checked:

* liveness (`EventuallyReleased`, `BatchesEnd`, `NewSetAppears`, `ScalingArrives`,
  `BeginsWhenAvailable`), which under fairness is beyond the prover;
* `SurgeBound` of a Deployment that has been scaled, which `rollout_scaled` checks
  on its instance, and on a list that misses a patch, which `rollout_back` does.
  `NewWithinStep`, `NewBeforeOld` and `ReportedReady` are
  checked and proved of one that has not; the first and the last fail after a
  scaling, see *Also observed*.

## Not modelled, and why

* The Deployment status and the conditions `syncRolloutStatus` computes, with
  `DeploymentComplete`, `DeploymentProgressing`, `DeploymentTimedOut` and
  `requeueStuckDeployment`: the patch goes to the main resource, so the API server
  drops it, and the time `requeueStuckDeployment` computes is dropped by its caller.
  Nothing else reads them, so a model would have no effect to check. The conditions
  that `getNewReplicaSet` writes, through the status resource, are in `NewReplicaSet`.
* int32 overflow: needs 46341 replicas (the product of `getReplicaSetFraction`),
  which is beyond TLC's own integers as well.
* The formats of names, hashes, annotations and messages; label and JSON
  utilities; `status.message`, `observedGeneration`, `lastUpdateTime`.
* Leader election (one active worker is assumed), flags, metrics, manifests, RBAC,
  generated code: no state of the release.

## Plan

The order in which the modules were, and will be, written:

1. `ReleaseLifecycle` with its runs and first theorems (done).
2. `ReplicaMath`, `BatchRollout` with their runs and the arithmetic theorems (done).
3. `ReleaseProtocol`, its refinement by both, checked and, for `ReleaseLifecycle`,
   proved (done).
4. `NewReplicaSet`: find, adopt or create; collisions and revisions (done).
5. `ReleaseOwnership`: which events wake whom, several releases, and the proof of
   `OwnerIsWoken` (done).
6. The proofs of how a release ends (`ReleaseOutcomeProofs`), of `BatchRollout`'s
   types, protocol and partitions, and of `NewReplicaSet` (done).
7. What a list of patches does to old ReplicaSets: `OldShareKept`, `AvailabilityKept`, `SmallerRevisionLast` (done).
8. What holds until a user scales the Deployment: `SurgeBound`, `NewWithinStep`,
   `NewBeforeOld`, `ReportedReady` (done).
