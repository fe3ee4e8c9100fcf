-------------------------- MODULE ReleaseOwnership --------------------------
(***************************************************************************)
(* Which BatchRelease is woken by what happens to a Deployment: the event  *)
(* handlers (internal/controller/batchrelease_event_handller.go), the work *)
(* queue and the early returns of Reconcile, for several BatchReleases,    *)
(* and Deployments that come, go, and are scaled.                          *)
(*                                                                         *)
(* A Deployment's events are routed by its control info: the name of the   *)
(* BatchRelease that took it over last.  Nothing keeps two BatchReleases   *)
(* from naming one Deployment, except that a release cannot begin on one   *)
(* whose RollingUpdate strategy another release has removed.               *)
(*                                                                         *)
(* Abstracted: a BatchRelease is read and written with the rest of its     *)
(* reconcile in one step after the Deployment was read (ReleaseLifecycle   *)
(* has the steps in between); the step plan, the batches and their         *)
(* readiness are choices (BatchRollout computes them); of the ReplicaSets  *)
(* only the spec.replicas they were last brought in line with is kept, and *)
(* a reconcile that has to bring them in line does so; the step state      *)
(* Initial is one with Upgrade; rollbacks are left out.  All objects are   *)
(* in one namespace.                                                       *)
(***************************************************************************)
EXTENDS Naturals

CONSTANTS
  Releases,    \* names of BatchReleases
  Deployments, \* names of Deployments
  Target,      \* WorkloadRef: Releases -> Deployments
  None,        \* no BatchRelease
  Sizes,       \* values of spec.replicas
  MaxEvents    \* bound on scalings, deletions of Deployments, new templates,
               \* failed API calls and crashes, all together

ASSUME TargetAssumption == Target \in [Releases -> Deployments]
ASSUME NoneAssumption   == None \notin Releases
ASSUME SizeAssumption   == Sizes \subseteq Nat /\ Sizes # {}
ASSUME BoundAssumption  == MaxEvents \in Nat

VARIABLES
  br,      \* status of each BatchRelease: phase, state, captured (the status
           \* has maxSurge and maxUnavailable)
  de,      \* each Deployment on the API server: exists, replicas, owner
           \* (its control info), rolling (it has a RollingUpdate strategy)
  deCache, \* the informer's copy of the Deployments
  sized,   \* the spec.replicas the ReplicaSets of each were last sized for
  queue,   \* the work queue, a set of requests
  run,     \* the reconcile in progress: its request's name and its copy of
           \* the Deployment
  events   \* how many of the bounded events so far

vars == <<br, de, deCache, sized, queue, run, events>>

(* A request names a BatchRelease and a namespace, which may be missing.   *)
Requests   == [name : Releases, namespaced : BOOLEAN]
Request(b) == [name |-> b, namespaced |-> TRUE]

Phases         == {"Initial", "RollingUpdate", "Finalizing", "Completed"}
States         == {"Upgrade", "Blocking", "Completed"}
DeploymentType == [exists : BOOLEAN, replicas : Sizes, owner : Releases \cup {None},
                   rolling : BOOLEAN]
StatusType     == [phase : Phases, state : States, captured : BOOLEAN]

Absent  == [exists |-> FALSE, replicas |-> CHOOSE n \in Sizes : TRUE, owner |-> None,
            rolling |-> TRUE]
Fresh(n) == [exists |-> TRUE, replicas |-> n, owner |-> None, rolling |-> TRUE]
Idle    == [name |-> None, de |-> Absent]

Init ==
  /\ br = [b \in Releases |-> [phase |-> "Initial", state |-> "Upgrade",
                               captured |-> FALSE]]
  /\ de = [d \in Deployments |-> Absent]
  /\ deCache = de
  /\ sized = [d \in Deployments |-> Absent.replicas]
  /\ queue = {Request(b) : b \in Releases}
  /\ run = Idle
  /\ events = 0

Counted == events < MaxEvents /\ events' = events + 1

(***************************************************************************)
(* The worker: Reconcile and Do                                            *)
(***************************************************************************)
Ours == run.name
Its  == Target[Ours]

(* Both Gets.  A request without a namespace names no BatchRelease and is  *)
(* forgotten; a Deployment that is not there is an error, and tried again. *)
Start(request) ==
  /\ run = Idle
  /\ request \in queue
  /\ LET d == deCache[Target[request.name]]
     IN \/ /\ ~request.namespaced
           /\ queue' = queue \ {request}
           /\ UNCHANGED run
        \/ /\ request.namespaced
           /\ ~d.exists
           /\ UNCHANGED <<queue, run>>
        \/ /\ request.namespaced
           /\ d.exists
           /\ queue' = queue \ {request}
           /\ run' = [name |-> request.name, de |-> d]
  /\ UNCHANGED <<br, de, deCache, sized, events>>

Again == queue' = queue \cup {Request(Ours)}

(* An error, whatever it was: the request is added again after a while.    *)
Fails ==
  /\ run' = Idle
  /\ Again
  /\ UNCHANGED <<br, de, deCache, sized>>

(* A new status: its own event queues the BatchRelease.                    *)
SetStatus(s) ==
  /\ br' = [br EXCEPT ![Ours] = s]
  /\ run' = Idle
  /\ Again
  /\ UNCHANGED deCache

InPhase(phase) == run # Idle /\ br[Ours].phase = phase

(* UpdateObj reads the Deployment from the cache again; the write is       *)
(* refused if that is not what is there.                                   *)
Writable == deCache[Its] = de[Its] /\ de[Its].exists

(* Mutant: a Deployment without a RollingUpdate strategy is no error.      *)
MutantCapture ==
  /\ InPhase("Initial")
  /\ ~br[Ours].captured
  /\ IF run.de.rolling
       THEN SetStatus([br[Ours] EXCEPT !.captured = TRUE])
       ELSE run' = Idle /\ UNCHANGED <<br, deCache, queue>>
  /\ UNCHANGED <<de, sized, events>>

(* init, in two reconciles (the one that records the stable version in     *)
(* between is left out).                                                   *)
Capture ==
  /\ InPhase("Initial")
  /\ ~br[Ours].captured
  /\ IF run.de.rolling
       THEN SetStatus([br[Ours] EXCEPT !.captured = TRUE]) /\ UNCHANGED <<de, sized>>
       ELSE Fails
  /\ UNCHANGED events

TakeOver ==
  /\ InPhase("Initial")
  /\ br[Ours].captured
  /\ IF Writable
       THEN /\ de' = [de EXCEPT ![Its].owner = Ours, ![Its].rolling = FALSE]
            /\ SetStatus([br[Ours] EXCEPT !.phase = "RollingUpdate", !.state = "Upgrade"])
            /\ UNCHANGED sized
       ELSE Fails
  /\ UNCHANGED events

ScalingEvent == run.de.replicas # sized[Its]

(* rollingUpdate when isScalingEvent: the step begins again.               *)
Sync ==
  /\ InPhase("RollingUpdate")
  /\ ScalingEvent
  /\ sized' = [sized EXCEPT ![Its] = run.de.replicas]
  /\ SetStatus([br[Ours] EXCEPT !.state = "Upgrade"])
  /\ UNCHANGED <<de, events>>

(* A batch is not ready, or something was scaled: the reconcile is         *)
(* repeated, unless DeploymentRolloutSatisfied is content.                 *)
BatchNotReady ==
  /\ InPhase("RollingUpdate")
  /\ ~ScalingEvent
  /\ br[Ours].state = "Upgrade"
  /\ run' = Idle
  /\ Again \/ UNCHANGED queue
  /\ UNCHANGED <<br, de, deCache, sized, events>>

BatchReady ==
  /\ InPhase("RollingUpdate")
  /\ ~ScalingEvent
  /\ br[Ours].state = "Upgrade"
  /\ SetStatus([br[Ours] EXCEPT !.state = "Blocking"])
  /\ UNCHANGED <<de, sized, events>>

(* A blocking step waits, until DeploymentRolloutSatisfied is.  The last   *)
(* step does not block.                                                    *)
StepBlocks ==
  /\ InPhase("RollingUpdate")
  /\ ~ScalingEvent
  /\ br[Ours].state = "Blocking"
  /\ \/ SetStatus([br[Ours] EXCEPT !.state = "Completed"])
     \/ /\ UNCHANGED br
        /\ run' = Idle
        /\ Again \/ UNCHANGED queue
        /\ UNCHANGED deCache
  /\ UNCHANGED <<de, sized, events>>

StepCompleted ==
  /\ InPhase("RollingUpdate")
  /\ ~ScalingEvent
  /\ br[Ours].state = "Completed"
  /\ \/ SetStatus([br[Ours] EXCEPT !.state = "Upgrade"])
     \/ SetStatus([br[Ours] EXCEPT !.phase = "Finalizing"])
  /\ UNCHANGED <<de, sized, events>>

(* finalize: gives the Deployment back, whoever has it.                    *)
Finalize ==
  /\ InPhase("Finalizing")
  /\ IF Writable
       THEN /\ de' = [de EXCEPT ![Its].owner = None, ![Its].rolling = TRUE]
            /\ SetStatus([br[Ours] EXCEPT !.phase = "Completed"])
            /\ UNCHANGED sized
       ELSE Fails
  /\ UNCHANGED events

Completed ==
  /\ InPhase("Completed")
  /\ run' = Idle
  /\ Again \/ UNCHANGED queue
  /\ UNCHANGED <<br, de, deCache, sized, events>>

CallFails ==
  /\ run # Idle
  /\ Counted
  /\ Fails

(* A restart: the informers list everything, BatchReleases are queued.     *)
Crash ==
  /\ Counted
  /\ run' = Idle
  /\ deCache' = de
  /\ queue' = {Request(b) : b \in Releases}
  /\ UNCHANGED <<br, de, sized>>

Handle == \/ Capture \/ TakeOver \/ Sync \/ BatchNotReady \/ BatchReady
          \/ StepBlocks \/ StepCompleted \/ Finalize \/ Completed

(***************************************************************************)
(* Events                                                                  *)
(***************************************************************************)
(* enqueueRequestForDeployment: of the events of a Deployment only updates *)
(* count, of those only changes of spec.replicas, and they wake the        *)
(* BatchRelease that the new object's control info names.                  *)
Updated(old, new) == old.exists /\ new.exists /\ old.replicas # new.replicas

(* Mutant: the annotation may be missing.                                  *)
MutantAnnotated(old, new) == IF Updated(old, new) THEN {Request(new.owner)} ELSE {}

(* Mutant: the old object's control info is used.                          *)
MutantOldOwner(old, new) ==
  IF Updated(old, new) /\ old.owner # None THEN {Request(old.owner)} ELSE {}

(* Mutant: only scaling up counts.                                         *)
MutantScaledUp(old, new) ==
  IF Updated(old, new) /\ old.replicas < new.replicas /\ new.owner # None
    THEN {Request(new.owner)} ELSE {}

Woken(old, new) ==
  IF Updated(old, new) /\ new.owner # None THEN {Request(new.owner)} ELSE {}

DeliverDeployment(d) ==
  /\ deCache[d] # de[d]
  /\ deCache' = [deCache EXCEPT ![d] = de[d]]
  /\ queue' = queue \cup Woken(deCache[d], de[d])
  /\ UNCHANGED <<br, de, sized, run, events>>

(* handleReplicaSet: any event of a ReplicaSet with a control info, which  *)
(* the executor copied from the Deployment.  It takes the namespace from   *)
(* the control info, where init writes none.  (A control info left from an *)
(* earlier release makes the same request to no effect, and is left out.)  *)
ReplicaSetEvent(d) ==
  /\ de[d].exists
  /\ de[d].owner # None
  /\ queue' = queue \cup {[name |-> de[d].owner, namespaced |-> FALSE]}
  /\ UNCHANGED <<br, de, deCache, sized, run, events>>

(***************************************************************************)
(* Users, and the Deployment controller, which sizes the ReplicaSets of a  *)
(* Deployment that no release has paused.                                  *)
(***************************************************************************)
UserCreates(d) ==
  /\ ~de[d].exists
  /\ \E n \in Sizes : de' = [de EXCEPT ![d] = Fresh(n)]
  /\ UNCHANGED <<br, deCache, sized, queue, run, events>>

UserDeletes(d) ==
  /\ de[d].exists
  /\ Counted
  /\ de' = [de EXCEPT ![d] = Absent]
  /\ UNCHANGED <<br, deCache, sized, queue, run>>

UserScales(d) ==
  /\ de[d].exists
  /\ Counted
  /\ \E n \in Sizes \ {de[d].replicas} : de' = [de EXCEPT ![d].replicas = n]
  /\ UNCHANGED <<br, deCache, sized, queue, run>>

UserContinues(b) ==
  /\ br[b].phase = "RollingUpdate"
  /\ br[b].state = "Blocking"
  /\ run.name # b
  /\ br' = [br EXCEPT ![b].state = "Completed"]
  /\ queue' = queue \cup {Request(b)}
  /\ UNCHANGED <<de, deCache, sized, run, events>>

(* A new template, and the reconcile that notices it in whatever phase     *)
(* (handlePodTemplateUpdate), in one step.                                 *)
UserEdits(b) ==
  /\ br[b].phase # "Initial"
  /\ run.name # b
  /\ Counted
  /\ br' = [br EXCEPT ![b].phase = "Initial"]
  /\ queue' = queue \cup {Request(b)}
  /\ UNCHANGED <<de, deCache, sized, run>>

NativeScales(d) ==
  /\ de[d].exists
  /\ de[d].rolling
  /\ sized[d] # de[d].replicas
  /\ sized' = [sized EXCEPT ![d] = de[d].replicas]
  /\ UNCHANGED <<br, de, deCache, queue, run, events>>

Environment ==
  \/ \E d \in Deployments :
       \/ DeliverDeployment(d) \/ ReplicaSetEvent(d) \/ NativeScales(d)
       \/ UserCreates(d) \/ UserDeletes(d) \/ UserScales(d)
  \/ \E b \in Releases : UserContinues(b) \/ UserEdits(b)
  \/ CallFails
  \/ Crash

Next == (\E r \in Requests : Start(r)) \/ Handle \/ Environment

(* The worker goes on, the queue serves every request in turn, and the     *)
(* informer delivers.                                                      *)
Fairness ==
  /\ WF_vars(Handle)
  /\ \A b \in Releases : SF_vars(Start(Request(b)))
  /\ \A d \in Deployments : WF_vars(DeliverDeployment(d))

Spec == Init /\ [][Next]_vars /\ Fairness

(***************************************************************************)
(* Properties                                                              *)
(***************************************************************************)
TypeOK ==
  /\ br \in [Releases -> StatusType]
  /\ de \in [Deployments -> DeploymentType]
  /\ deCache \in [Deployments -> DeploymentType]
  /\ sized \in [Deployments -> Sizes]
  /\ queue \subseteq Requests
  /\ run \in {Idle} \cup [name : Releases, de : DeploymentType]
  /\ events \in 0 .. MaxEvents

(* No scaling is missed by the release in charge: whenever the informer    *)
(* shows a spec.replicas that the ReplicaSets are not sized for, the       *)
(* release that has the Deployment, if it is rolling, is queued or at work,*)
(* although only one kind of event is listened to.                         *)
OwnerIsWoken ==
  \A d \in Deployments : \A b \in Releases :
    de[d].owner = b /\ deCache[d].owner = b
      /\ br[b].phase = "RollingUpdate" /\ deCache[d].replicas # sized[d]
      => Request(b) \in queue \/ run.name = b

(***************************************************************************)
(* Inductive invariant behind OwnerIsWoken                                 *)
(***************************************************************************)
(* A Deployment with an owner was taken over by a release that targets it  *)
(* and that had seen it.                                                   *)
OwnedIsTaken ==
  \A d \in Deployments : \A b \in Releases :
    de[d].owner = b =>
      de[d].exists /\ ~de[d].rolling /\ deCache[d].exists /\ Target[b] = d

(* The release that has a Deployment is queued or at work when the cache   *)
(* differs from what the ReplicaSets are sized for,                        *)
Charge(b, d) == de[d].owner = b /\ br[b].phase = "RollingUpdate"
Waiting(b)   == Request(b) \in queue
WokenOrAtWork ==
  \A d \in Deployments : \A b \in Releases :
    Charge(b, d) /\ deCache[d].replicas # sized[d] => Waiting(b) \/ run.name = b

(* and queued, though it be at work, when the cache differs from what the  *)
(* reconcile in progress has read.                                         *)
WokenAgain ==
  run # Idle =>
    \A d \in Deployments : \A b \in Releases :
      Charge(b, d) /\ Its = d /\ deCache[d].replicas # run.de.replicas => Waiting(b)

WakeInvariant == OwnedIsTaken /\ WokenOrAtWork /\ WokenAgain

(* A release waits for its Deployment: if the Deployment is there for good *)
(* and no release holds it, the release begins, also when it was created   *)
(* after the BatchRelease and although no event tells of it.               *)
Available(b) == de[Target[b]].exists /\ de[Target[b]].rolling
BeginsWhenAvailable ==
  \A b \in Releases : <>[]Available(b) => []<>(br[b].phase # "Initial")

(* A scaling reaches the ReplicaSets, unless the release lets go first.    *)
InCharge(b) == de[Target[b]].owner = b /\ br[b].phase = "RollingUpdate"
InLine(d)   == sized[d] = de[d].replicas
ScalingArrives ==
  \A b \in Releases : InCharge(b) /\ ~InLine(Target[b]) ~> InLine(Target[b]) \/ ~InCharge(b)
=============================================================================
