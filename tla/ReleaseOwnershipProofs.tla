----------------------- MODULE ReleaseOwnershipProofs -----------------------
(***************************************************************************)
(* Theorems about ReleaseOwnership, for any number of BatchReleases and    *)
(* Deployments, any targets, sizes and bounds.                             *)
(***************************************************************************)
EXTENDS ReleaseOwnership, TLAPS

(* A Deployment that is not there, and one newly created, are Deployments. *)
LEMMA NewDeployments ==
  /\ Absent \in DeploymentType
  /\ Absent.owner = None
  /\ \A n \in Sizes : Fresh(n) \in DeploymentType /\ Fresh(n).owner = None
<1>1. (CHOOSE n \in Sizes : TRUE) \in Sizes
  BY SizeAssumption
<1>. QED
  BY <1>1 DEF Absent, Fresh, DeploymentType

(* What a reconcile works on.                                              *)
LEMMA AtWork ==
  ASSUME TypeOK, run # Idle
  PROVE  /\ run.name \in Releases
         /\ run.name # None
         /\ run.de \in DeploymentType
         /\ Its \in Deployments
         /\ br[Ours] \in StatusType
         /\ Request(Ours) \in Requests
  BY TargetAssumption, NoneAssumption DEF TypeOK, Its, Ours, Request, Requests

(* Any request that is added is one, and ends the reconcile typed.         *)
LEMMA EndType ==
  ASSUME TypeOK, run # Idle, run' = Idle, Again \/ UNCHANGED queue
  PROVE  queue' \subseteq Requests /\ run' \in {Idle} \cup [name : Releases, de : DeploymentType]
  BY AtWork DEF TypeOK, Again

(* One more bounded event stays within the bound.                          *)
LEMMA CountedType ==
  ASSUME TypeOK, Counted \/ UNCHANGED events
  PROVE  events' \in 0 .. MaxEvents
  BY BoundAssumption DEF TypeOK, Counted

(* A changed status is a status.                                           *)
LEMMA StatusChanges ==
  ASSUME NEW s \in StatusType
  PROVE  /\ \A p \in Phases : [s EXCEPT !.phase = p] \in StatusType
         /\ \A p \in States : [s EXCEPT !.state = p] \in StatusType
         /\ [s EXCEPT !.captured = TRUE] \in StatusType
         /\ [s EXCEPT !.phase = "RollingUpdate", !.state = "Upgrade"] \in StatusType
  BY DEF StatusType, Phases, States

(***************************************************************************)
(* Type correctness                                                        *)
(***************************************************************************)
(* A handler that writes a typed status keeps the types.                   *)
LEMMA SetStatusType ==
  ASSUME TypeOK, run # Idle, NEW s \in StatusType, SetStatus(s),
         de' \in [Deployments -> DeploymentType], sized' \in [Deployments -> Sizes],
         UNCHANGED events
  PROVE  TypeOK'
<1>1. br' \in [Releases -> StatusType]
  BY AtWork DEF TypeOK, SetStatus
<1>2. queue' \subseteq Requests /\ run' \in {Idle} \cup [name : Releases, de : DeploymentType]
  BY EndType DEF SetStatus
<1>3. deCache' \in [Deployments -> DeploymentType] /\ events' \in 0 .. MaxEvents
  BY DEF TypeOK, SetStatus
<1>. QED
  BY <1>1, <1>2, <1>3 DEF TypeOK

(* So does a reconcile that fails.                                         *)
LEMMA FailsType ==
  ASSUME TypeOK, run # Idle, Fails, Counted \/ UNCHANGED events
  PROVE  TypeOK'
<1>1. queue' \subseteq Requests /\ run' \in {Idle} \cup [name : Releases, de : DeploymentType]
  BY EndType DEF Fails
<1>. QED
  BY <1>1, CountedType DEF TypeOK, Fails

(* And one that ends without a change.                                     *)
LEMMA RestsType ==
  ASSUME TypeOK, run # Idle, run' = Idle, Again \/ UNCHANGED queue,
         UNCHANGED <<br, de, deCache, sized, events>>
  PROVE  TypeOK'
<1>1. queue' \subseteq Requests /\ run' \in {Idle} \cup [name : Releases, de : DeploymentType]
  BY EndType
<1>. QED
  BY <1>1 DEF TypeOK

(* The handlers keep the types.                                            *)
LEMMA HandleType == ASSUME TypeOK, Handle PROVE TypeOK'
<1>0. run # Idle
  BY DEF Handle, InPhase, Capture, TakeOver, Sync, BatchNotReady, BatchReady, StepBlocks,
         StepCompleted, Finalize, Completed
<1>. br[Ours] \in StatusType /\ Its \in Deployments
  BY <1>0, AtWork
<1>1. CASE Capture
  BY <1>0, <1>1, StatusChanges, SetStatusType, FailsType DEF Capture, TypeOK
<1>2. CASE TakeOver
  <2>1. CASE Writable
    <3>1. de' \in [Deployments -> DeploymentType]
      BY <1>2, <2>1, <1>0, AtWork DEF TakeOver, TypeOK, DeploymentType, Ours
    <3>2. sized' \in [Deployments -> Sizes]
      BY <1>2, <2>1 DEF TakeOver, TypeOK
    <3>. QED
      BY <1>0, <1>2, <2>1, <3>1, <3>2, StatusChanges, SetStatusType DEF TakeOver
  <2>2. CASE ~Writable
    BY <1>0, <1>2, <2>2, FailsType DEF TakeOver
  <2>. QED
    BY <2>1, <2>2
<1>3. CASE Sync
  <2>1. sized' \in [Deployments -> Sizes]
    BY <1>0, <1>3, AtWork DEF Sync, TypeOK, DeploymentType
  <2>2. [br[Ours] EXCEPT !.state = "Upgrade"] \in StatusType
    BY StatusChanges DEF States
  <2>. QED
    BY <1>0, <1>3, <2>1, <2>2, SetStatusType DEF Sync, TypeOK
<1>4. CASE BatchNotReady
  BY <1>0, <1>4, RestsType DEF BatchNotReady
<1>5. CASE BatchReady
  BY <1>0, <1>5, StatusChanges, SetStatusType DEF BatchReady, States, TypeOK
<1>6. CASE StepBlocks
  BY <1>0, <1>6, StatusChanges, SetStatusType, RestsType DEF StepBlocks, States, TypeOK
<1>7. CASE StepCompleted
  BY <1>0, <1>7, StatusChanges, SetStatusType DEF StepCompleted, States, Phases, TypeOK
<1>8. CASE Finalize
  <2>1. CASE Writable
    <3>1. de' \in [Deployments -> DeploymentType]
      BY <1>8, <2>1 DEF Finalize, TypeOK, DeploymentType
    <3>2. sized' \in [Deployments -> Sizes]
      BY <1>8, <2>1 DEF Finalize, TypeOK
    <3>. QED
      BY <1>0, <1>8, <2>1, <3>1, <3>2, StatusChanges, SetStatusType DEF Finalize, Phases
  <2>2. CASE ~Writable
    BY <1>0, <1>8, <2>2, FailsType DEF Finalize
  <2>. QED
    BY <2>1, <2>2
<1>9. CASE Completed
  BY <1>0, <1>9, RestsType DEF Completed
<1>. QED
  BY <1>1, <1>2, <1>3, <1>4, <1>5, <1>6, <1>7, <1>8, <1>9 DEF Handle

(* So does taking a request from the queue.                                *)
LEMMA StartType == ASSUME TypeOK, NEW r \in Requests, Start(r) PROVE TypeOK'
<1>1. queue' \subseteq Requests
  BY DEF Start, TypeOK
<1>2. run' \in {Idle} \cup [name : Releases, de : DeploymentType]
  BY TargetAssumption DEF Start, TypeOK, Requests
<1>. QED
  BY <1>1, <1>2 DEF Start, TypeOK

(* A request for a BatchRelease is a request.                              *)
LEMMA RequestType ==
  /\ \A b \in Releases : Request(b) \in Requests
  /\ {Request(b) : b \in Releases} \subseteq Requests
<1>1. \A b \in Releases : Request(b) \in Requests
  BY DEF Request, Requests
<1>. QED
  BY <1>1

(* And whatever the informer, users and the Deployment controller do.      *)
LEMMA EnvironmentType == ASSUME TypeOK, Environment PROVE TypeOK'
<1>1. ASSUME NEW d \in Deployments, DeliverDeployment(d)
      PROVE  TypeOK'
  <2>1. Woken(deCache[d], de[d]) \subseteq Requests
    BY RequestType DEF Woken, TypeOK, DeploymentType
  <2>2. deCache' \in [Deployments -> DeploymentType]
    BY <1>1 DEF DeliverDeployment, TypeOK
  <2>3. queue' \subseteq Requests
    BY <1>1, <2>1 DEF DeliverDeployment, TypeOK
  <2>. QED
    BY <1>1, <2>2, <2>3 DEF DeliverDeployment, TypeOK
<1>2. ASSUME NEW d \in Deployments, ReplicaSetEvent(d)
      PROVE  TypeOK'
  <2>0. de[d].owner \in Releases
    BY <1>2 DEF ReplicaSetEvent, TypeOK, DeploymentType
  <2>2. [name |-> de[d].owner, namespaced |-> FALSE] \in Requests
    BY <2>0 DEF Requests
  <2>1. queue' \subseteq Requests
    BY <1>2, <2>2 DEF ReplicaSetEvent, TypeOK
  <2>. QED
    BY <1>2, <2>1 DEF ReplicaSetEvent, TypeOK
<1>3. ASSUME NEW d \in Deployments, NativeScales(d)
      PROVE  TypeOK'
  <2>1. de[d].replicas \in Sizes
    BY DEF TypeOK, DeploymentType
  <2>2. sized' \in [Deployments -> Sizes]
    BY <1>3, <2>1 DEF NativeScales, TypeOK
  <2>. QED
    BY <1>3, <2>2 DEF NativeScales, TypeOK
<1>4. ASSUME NEW d \in Deployments, UserCreates(d)
      PROVE  TypeOK'
  BY <1>4, NewDeployments DEF UserCreates, TypeOK
<1>5. ASSUME NEW d \in Deployments, UserDeletes(d)
      PROVE  TypeOK'
  BY <1>5, NewDeployments, CountedType DEF UserDeletes, TypeOK
<1>6. ASSUME NEW d \in Deployments, UserScales(d)
      PROVE  TypeOK'
  <2>1. de' \in [Deployments -> DeploymentType]
    BY <1>6 DEF UserScales, TypeOK, DeploymentType
  <2>. QED
    BY <1>6, <2>1, CountedType DEF UserScales, TypeOK
<1>7. ASSUME NEW b \in Releases, UserContinues(b)
      PROVE  TypeOK'
  <2>1. [br[b] EXCEPT !.state = "Completed"] \in StatusType
    BY StatusChanges DEF States, TypeOK
  <2>2. br' \in [Releases -> StatusType]
    BY <1>7, <2>1 DEF UserContinues, TypeOK
  <2>3. queue' \subseteq Requests
    BY <1>7, RequestType DEF UserContinues, TypeOK
  <2>. QED
    BY <1>7, <2>2, <2>3 DEF UserContinues, TypeOK
<1>8. ASSUME NEW b \in Releases, UserEdits(b)
      PROVE  TypeOK'
  <2>1. [br[b] EXCEPT !.phase = "Initial"] \in StatusType
    BY StatusChanges DEF Phases, TypeOK
  <2>2. br' \in [Releases -> StatusType]
    BY <1>8, <2>1 DEF UserEdits, TypeOK
  <2>3. queue' \subseteq Requests
    BY <1>8, RequestType DEF UserEdits, TypeOK
  <2>4. events' \in 0 .. MaxEvents
    BY <1>8, CountedType DEF UserEdits
  <2>. QED
    BY <1>8, <2>2, <2>3, <2>4 DEF UserEdits, TypeOK
<1>9. CASE CallFails
  BY <1>9, FailsType DEF CallFails
<1>10. CASE Crash
  <2>1. queue' \subseteq Requests
    BY <1>10, RequestType DEF Crash
  <2>2. events' \in 0 .. MaxEvents
    BY <1>10, CountedType DEF Crash
  <2>. QED
    BY <1>10, <2>1, <2>2 DEF Crash, TypeOK
<1>. QED
  BY <1>1, <1>2, <1>3, <1>4, <1>5, <1>6, <1>7, <1>8, <1>9, <1>10 DEF Environment

(* Every step keeps the types.                                            *)
LEMMA NextType == ASSUME TypeOK, [Next]_vars PROVE TypeOK'
<1>1. CASE Next
  BY <1>1, HandleType, StartType, EnvironmentType DEF Next
<1>2. CASE UNCHANGED vars
  BY <1>2 DEF vars, TypeOK
<1>. QED
  BY <1>1, <1>2

(* The initial state is typed.                                             *)
LEMMA InitType == Init => TypeOK
<1>. SUFFICES ASSUME Init PROVE TypeOK
  OBVIOUS
<1>1. br \in [Releases -> StatusType]
  BY DEF Init, StatusType, Phases, States
<1>2. de \in [Deployments -> DeploymentType] /\ deCache \in [Deployments -> DeploymentType]
  BY NewDeployments DEF Init
<1>3. sized \in [Deployments -> Sizes]
  <2>1. Absent.replicas \in Sizes
    BY NewDeployments DEF DeploymentType
  <2>. QED
    BY <2>1 DEF Init
<1>4. queue \subseteq Requests
  BY RequestType DEF Init
<1>5. run = Idle /\ events \in 0 .. MaxEvents
  BY BoundAssumption DEF Init
<1>. QED
  BY <1>1, <1>2, <1>3, <1>4, <1>5 DEF TypeOK

(* Every behaviour keeps the types: requests name releases, reconciles     *)
(* work on Deployments there may be, and the counters stay bounded.        *)
THEOREM TypeCorrect == Spec => []TypeOK
<1>. QED
  BY InitType, NextType, PTL DEF Spec

(***************************************************************************)
(* The release in charge of a Deployment is woken                          *)
(***************************************************************************)
(* Whatever only adds requests, takes no Deployment from the reconcile in  *)
(* progress nor gives it to another release, and leaves the informer's     *)
(* copies and the sizes of owned Deployments alone, keeps the invariant.   *)
LEMMA QuietSteps ==
  ASSUME WakeInvariant, run' = run, queue \subseteq queue', deCache' = deCache,
         \A d \in Deployments : \A b \in Releases :
           de'[d].owner = b => /\ de'[d].exists /\ ~de'[d].rolling
                               /\ de[d].owner = b /\ sized'[d] = sized[d],
         \A b \in Releases : br'[b].phase = "RollingUpdate" => br[b].phase = "RollingUpdate"
  PROVE  WakeInvariant'
<1>1. OwnedIsTaken'
  BY DEF WakeInvariant, OwnedIsTaken
<1>2. \A d \in Deployments : \A b \in Releases :
        Charge(b, d)' => Charge(b, d) /\ sized'[d] = sized[d]
  BY DEF Charge
<1>3. \A b \in Releases : Waiting(b) => Waiting(b)'
  BY DEF Waiting
<1>4. WokenOrAtWork'
  BY <1>2, <1>3 DEF WakeInvariant, WokenOrAtWork
<1>5. WokenAgain'
  BY <1>2, <1>3 DEF WakeInvariant, WokenAgain, Its, Ours, Idle
<1>. QED
  BY <1>1, <1>4, <1>5 DEF WakeInvariant

(* A reconcile that ends keeps the invariant if its own request is queued, *)
(* or nothing is left to do, and if it leaves the others to theirs.        *)
LEMMA EndingSteps ==
  ASSUME WakeInvariant, run' = Idle, queue \subseteq queue', OwnedIsTaken',
         deCache' = deCache,
         \A d \in Deployments : \A b \in Releases :
           Charge(b, d)' /\ deCache[d].replicas # sized'[d] =>
             \/ Waiting(b)'
             \/ b # run.name /\ Charge(b, d) /\ deCache[d].replicas # sized[d]
  PROVE  WakeInvariant'
<1>1. \A b \in Releases : Waiting(b) => Waiting(b)'
  BY DEF Waiting
<1>2. WokenOrAtWork'
  BY <1>1 DEF WakeInvariant, WokenOrAtWork
<1>3. WokenAgain'
  BY DEF WokenAgain, Idle
<1>. QED
  BY <1>2, <1>3 DEF WakeInvariant

(* A reconcile that queues its request again and changes neither           *)
(* Deployments nor sizes nor the phases of others.                         *)
LEMMA RepeatingSteps ==
  ASSUME WakeInvariant, run' = Idle, Again, UNCHANGED <<de, deCache, sized>>,
         \A b \in Releases : b # run.name => br'[b] = br[b]
  PROVE  WakeInvariant'
<1>1. queue \subseteq queue'
  BY DEF Again
<1>2. OwnedIsTaken'
  BY DEF WakeInvariant, OwnedIsTaken
<1>3. \A d \in Deployments : \A b \in Releases :
        Charge(b, d)' => Waiting(b)' \/ (b # run.name /\ Charge(b, d))
  BY DEF Charge, Waiting, Again, Ours
<1>. QED
  BY <1>1, <1>2, <1>3, EndingSteps

(* A reconcile that ends without its request queued again had seen the     *)
(* spec.replicas that the ReplicaSets are sized for.                       *)
LEMMA RestingSteps ==
  ASSUME WakeInvariant, TypeOK, run # Idle, run' = Idle, Again \/ UNCHANGED queue,
         UNCHANGED <<br, de, deCache, sized>>,
         br[Ours].phase = "RollingUpdate" => ~ScalingEvent
  PROVE  WakeInvariant'
<1>1. queue \subseteq queue'
  BY DEF Again
<1>2. OwnedIsTaken'
  BY DEF WakeInvariant, OwnedIsTaken
<1>3. ASSUME NEW d \in Deployments, NEW b \in Releases,
             Charge(b, d)', deCache[d].replicas # sized'[d], b = run.name
      PROVE  Waiting(b)'
  <2>1. Charge(b, d) /\ d = Its /\ ~ScalingEvent
    BY <1>3 DEF Charge, WakeInvariant, OwnedIsTaken, Its, Ours
  <2>2. deCache[d].replicas # run.de.replicas
    BY <1>3, <2>1 DEF ScalingEvent
  <2>3. Waiting(b)
    BY <2>1, <2>2 DEF WakeInvariant, WokenAgain
  <2>. QED
    BY <1>1, <2>3 DEF Waiting
<1>4. \A d \in Deployments : \A b \in Releases :
        Charge(b, d)' /\ deCache[d].replicas # sized'[d] =>
          \/ Waiting(b)'
          \/ b # run.name /\ Charge(b, d) /\ deCache[d].replicas # sized[d]
  BY <1>3 DEF Charge
<1>. QED
  BY <1>1, <1>2, <1>4, EndingSteps

(* A status that is set is set for the release at work alone.              *)
LEMMA StatusSteps ==
  ASSUME WakeInvariant, NEW s, SetStatus(s), UNCHANGED <<de, sized>>
  PROVE  WakeInvariant'
<1>1. \A b \in Releases : b # run.name => br'[b] = br[b]
  BY DEF SetStatus, Ours
<1>. QED
  BY <1>1, RepeatingSteps DEF SetStatus

LEMMA FailingSteps == ASSUME WakeInvariant, Fails PROVE WakeInvariant'
  BY RepeatingSteps DEF Fails

(* The handlers of the worker keep the invariant.                          *)
LEMMA HandleWakes == ASSUME WakeInvariant, TypeOK, Handle PROVE WakeInvariant'
<1>0. run # Idle
  BY DEF Handle, InPhase, Capture, TakeOver, Sync, BatchNotReady, BatchReady, StepBlocks,
         StepCompleted, Finalize, Completed
<1>. run.name \in Releases /\ run.name # None /\ Its \in Deployments
  BY <1>0, AtWork
<1>1. CASE Capture
  BY <1>1, StatusSteps, FailingSteps DEF Capture
<1>2. CASE TakeOver /\ Writable
  <2>1. OwnedIsTaken'
    BY <1>2 DEF TakeOver, Writable, SetStatus, WakeInvariant, OwnedIsTaken, TypeOK, DeploymentType,
                Its, Ours
  <2>2. queue \subseteq queue' /\ deCache' = deCache /\ run' = Idle
    BY <1>2 DEF TakeOver, SetStatus, Again
  <2>3. ASSUME NEW d \in Deployments, NEW b \in Releases, Charge(b, d)'
        PROVE  Waiting(b)' \/ (b # run.name /\ Charge(b, d))
    <3>1. CASE b = run.name
      BY <1>2, <3>1 DEF TakeOver, SetStatus, Again, Waiting, Ours
    <3>2. CASE b # run.name
      <4>1. br'[b] = br[b]
        BY <1>2, <3>2 DEF TakeOver, SetStatus, Ours, TypeOK
      <4>2. de'[d].owner = de[d].owner
        BY <1>2, <2>3, <3>2 DEF TakeOver, Charge, Ours, TypeOK, DeploymentType
      <4>. QED
        BY <2>3, <3>2, <4>1, <4>2 DEF Charge
    <3>. QED
      BY <3>1, <3>2
  <2>4. sized' = sized
    BY <1>2 DEF TakeOver
  <2>. QED
    BY <2>1, <2>2, <2>3, <2>4, EndingSteps
<1>3. CASE TakeOver /\ ~Writable
  BY <1>3, FailingSteps DEF TakeOver
<1>4. CASE Sync
  <2>1. OwnedIsTaken'
    BY <1>4 DEF Sync, SetStatus, WakeInvariant, OwnedIsTaken
  <2>2. queue \subseteq queue' /\ deCache' = deCache /\ run' = Idle
    BY <1>4 DEF Sync, SetStatus, Again
  <2>3. ASSUME NEW d \in Deployments, NEW b \in Releases,
               Charge(b, d)', deCache[d].replicas # sized'[d]
        PROVE  Waiting(b)' \/ (/\ b # run.name /\ Charge(b, d)
                               /\ deCache[d].replicas # sized[d])
    <3>1. CASE b = run.name
      BY <1>4, <3>1 DEF Sync, SetStatus, Again, Waiting, Ours
    <3>2. CASE b # run.name
      <4>1. Charge(b, d)
        BY <1>4, <2>3, <3>2 DEF Sync, SetStatus, Charge, Ours
      <4>2. CASE d = Its
        <5>1. deCache[d].replicas # run.de.replicas
          BY <1>4, <2>3, <4>2 DEF Sync, TypeOK
        <5>2. Waiting(b)
          BY <1>0, <4>1, <4>2, <5>1 DEF WakeInvariant, WokenAgain
        <5>. QED
          BY <2>2, <5>2 DEF Waiting
      <4>3. CASE d # Its
        BY <1>4, <2>3, <3>2, <4>1, <4>3 DEF Sync, TypeOK
      <4>. QED
        BY <4>2, <4>3
    <3>. QED
      BY <3>1, <3>2
  <2>. QED
    BY <2>1, <2>2, <2>3, EndingSteps
<1>5. CASE BatchNotReady
  BY <1>0, <1>5, RestingSteps DEF BatchNotReady
<1>6. CASE BatchReady
  BY <1>6, StatusSteps DEF BatchReady
<1>7. CASE StepBlocks
  BY <1>0, <1>7, StatusSteps, RestingSteps DEF StepBlocks
<1>8. CASE StepCompleted
  BY <1>8, StatusSteps DEF StepCompleted
<1>9. CASE Finalize /\ Writable
  <2>1. OwnedIsTaken'
    BY <1>9, NoneAssumption
    DEF Finalize, SetStatus, WakeInvariant, OwnedIsTaken, TypeOK, DeploymentType
  <2>2. queue \subseteq queue' /\ deCache' = deCache /\ run' = Idle /\ sized' = sized
    BY <1>9 DEF Finalize, SetStatus, Again
  <2>3. ASSUME NEW d \in Deployments, NEW b \in Releases, Charge(b, d)'
        PROVE  Waiting(b)' \/ (b # run.name /\ Charge(b, d))
    <3>1. CASE b = run.name
      BY <1>9, <3>1 DEF Finalize, SetStatus, Again, Waiting, Ours
    <3>2. CASE b # run.name
      <4>1. br'[b] = br[b]
        BY <1>9, <3>2 DEF Finalize, SetStatus, Ours, TypeOK
      <4>2. de'[d].owner = de[d].owner
        BY <1>9, <2>3, <3>2, NoneAssumption DEF Finalize, Charge, Ours, TypeOK, DeploymentType
      <4>. QED
        BY <2>3, <3>2, <4>1, <4>2 DEF Charge
    <3>. QED
      BY <3>1, <3>2
  <2>. QED
    BY <2>1, <2>2, <2>3, EndingSteps
<1>10. CASE Finalize /\ ~Writable
  BY <1>10, FailingSteps DEF Finalize
<1>11. CASE Completed
  <2>1. br[Ours].phase # "RollingUpdate"
    BY <1>11 DEF Completed, InPhase
  <2>. QED
    BY <1>0, <1>11, <2>1, RestingSteps DEF Completed
<1>. QED
  BY <1>1, <1>2, <1>3, <1>4, <1>5, <1>6, <1>7, <1>8, <1>9, <1>10, <1>11 DEF Handle

(* A reconcile that starts has the informer's copy and takes its own       *)
(* request only.                                                           *)
LEMMA StartWakes == ASSUME WakeInvariant, NEW r \in Requests, Start(r) PROVE WakeInvariant'
<1>1. OwnedIsTaken'
  BY DEF Start, WakeInvariant, OwnedIsTaken
<1>2. \A b \in Releases : Waiting(b) => Waiting(b)' \/ (run'.name = b /\ run' # Idle)
  BY NoneAssumption DEF Start, Waiting, Request, Idle
<1>3. run = Idle
  BY DEF Start
<1>4. WokenOrAtWork'
  BY <1>2, <1>3, NoneAssumption DEF Start, WakeInvariant, WokenOrAtWork, Charge, Idle
<1>5. run' # Idle => run'.de = deCache[Target[run'.name]]
  BY <1>3 DEF Start
<1>6. WokenAgain'
  BY <1>5 DEF Start, WokenAgain, Its, Ours, Idle
<1>. QED
  BY <1>1, <1>4, <1>6 DEF WakeInvariant

(* The informer's delivery of a changed spec.replicas wakes the owner.     *)
LEMMA DeliveryWakes ==
  ASSUME WakeInvariant, TypeOK, NEW e \in Deployments, DeliverDeployment(e)
  PROVE  WakeInvariant'
<1>1. \A b \in Releases : Waiting(b) => Waiting(b)'
  BY DEF DeliverDeployment, Waiting
<1>2. \A d \in Deployments : \A b \in Releases : Charge(b, d)' <=> Charge(b, d)
  BY DEF DeliverDeployment, Charge
<1>3. \A d \in Deployments : d # e => deCache'[d] = deCache[d]
  BY DEF DeliverDeployment, TypeOK
<1>4. deCache'[e] = de[e]
  BY DEF DeliverDeployment, TypeOK
<1>5. ASSUME NEW b \in Releases, Charge(b, e), deCache'[e].replicas # deCache[e].replicas
      PROVE  Waiting(b)'
  <2>1. de[e].owner = b /\ de[e].exists /\ deCache[e].exists
    BY <1>5 DEF Charge, WakeInvariant, OwnedIsTaken
  <2>2. Woken(deCache[e], de[e]) = {Request(b)}
    BY <1>4, <1>5, <2>1, NoneAssumption DEF Woken, Updated
  <2>. QED
    BY <2>2 DEF DeliverDeployment, Waiting
<1>6. OwnedIsTaken'
  BY <1>3, <1>4 DEF DeliverDeployment, WakeInvariant, OwnedIsTaken
<1>7. WokenOrAtWork'
  <2>1. UNCHANGED <<sized, run>>
    BY DEF DeliverDeployment
  <2>. QED
    BY <1>1, <1>2, <1>3, <1>5, <2>1 DEF WakeInvariant, WokenOrAtWork
<1>8. WokenAgain'
  <2>1. run' = run
    BY DEF DeliverDeployment
  <2>. QED
    BY <1>1, <1>2, <1>3, <1>5, <2>1 DEF WakeInvariant, WokenAgain, Its, Ours, Idle
<1>. QED
  BY <1>6, <1>7, <1>8 DEF WakeInvariant

(* So does whatever else happens around the worker.                        *)
LEMMA EnvironmentWakes == ASSUME WakeInvariant, TypeOK, Environment PROVE WakeInvariant'
<1>1. ASSUME NEW d \in Deployments, DeliverDeployment(d)
      PROVE  WakeInvariant'
  BY <1>1, DeliveryWakes
<1>2. ASSUME NEW e \in Deployments, ReplicaSetEvent(e)
      PROVE  WakeInvariant'
  BY <1>2, QuietSteps DEF ReplicaSetEvent, WakeInvariant, OwnedIsTaken
<1>3. ASSUME NEW e \in Deployments, NativeScales(e)
      PROVE  WakeInvariant'
  <2>1. \A d \in Deployments : \A b \in Releases :
          de[d].owner = b => ~de[d].rolling /\ sized'[d] = sized[d]
    BY <1>3 DEF NativeScales, WakeInvariant, OwnedIsTaken, TypeOK
  <2>. QED
    BY <1>3, <2>1, QuietSteps DEF NativeScales, WakeInvariant, OwnedIsTaken
<1>4. ASSUME NEW e \in Deployments,
             \/ \E n \in Sizes : de' = [de EXCEPT ![e] = Fresh(n)]
             \/ de' = [de EXCEPT ![e] = Absent],
             UNCHANGED <<br, deCache, sized, queue, run>>
      PROVE  WakeInvariant'
  <2>1. de'[e].owner = None
    BY <1>4, NewDeployments DEF TypeOK
  <2>2. \A d \in Deployments : d # e => de'[d] = de[d]
    BY <1>4 DEF TypeOK
  <2>3. \A d \in Deployments : \A b \in Releases : de'[d].owner = b => de'[d] = de[d]
    BY <2>1, <2>2, NoneAssumption
  <2>. QED
    BY <1>4, <2>3, QuietSteps DEF WakeInvariant, OwnedIsTaken
<1>5. ASSUME NEW e \in Deployments, UserCreates(e)
      PROVE  WakeInvariant'
  BY <1>4, <1>5 DEF UserCreates
<1>6. ASSUME NEW e \in Deployments, UserDeletes(e)
      PROVE  WakeInvariant'
  BY <1>4, <1>6 DEF UserDeletes
<1>7. ASSUME NEW e \in Deployments, UserScales(e)
      PROVE  WakeInvariant'
  <2>1. \A d \in Deployments : /\ de'[d].owner = de[d].owner
                               /\ de'[d].exists = de[d].exists
                               /\ de'[d].rolling = de[d].rolling
    BY <1>7 DEF UserScales, TypeOK, DeploymentType
  <2>. QED
    BY <1>7, <2>1, QuietSteps DEF UserScales, WakeInvariant, OwnedIsTaken
<1>8. ASSUME NEW c \in Releases, UserContinues(c) \/ UserEdits(c)
      PROVE  WakeInvariant'
  <2>1. \A b \in Releases : br'[b].phase = "RollingUpdate" => br[b].phase = "RollingUpdate"
    BY <1>8 DEF UserContinues, UserEdits, TypeOK, StatusType
  <2>2. UNCHANGED <<de, deCache, sized, run>> /\ queue \subseteq queue'
    BY <1>8 DEF UserContinues, UserEdits
  <2>. QED
    BY <2>1, <2>2, QuietSteps DEF WakeInvariant, OwnedIsTaken
<1>9. CASE CallFails
  BY <1>9, FailingSteps DEF CallFails
<1>10. CASE Crash
  <2>1. \A b \in Releases : Waiting(b)'
    BY <1>10 DEF Crash, Waiting
  <2>2. OwnedIsTaken'
    BY <1>10 DEF Crash, WakeInvariant, OwnedIsTaken
  <2>. QED
    BY <2>1, <2>2 DEF WakeInvariant, WokenOrAtWork, WokenAgain
<1>. QED
  BY <1>1, <1>2, <1>3, <1>5, <1>6, <1>7, <1>8, <1>9, <1>10 DEF Environment

(* The invariant is inductive.                                             *)
LEMMA WakeInductive == ASSUME TypeOK, WakeInvariant, [Next]_vars PROVE WakeInvariant'
<1>1. CASE Next
  BY <1>1, HandleWakes, StartWakes, EnvironmentWakes DEF Next
<1>2. CASE UNCHANGED vars
  BY <1>2 DEF vars, WakeInvariant, OwnedIsTaken, WokenOrAtWork, WokenAgain, Charge,
              Waiting, Its, Ours
<1>. QED
  BY <1>1, <1>2

(* No Deployment has an owner at first.                                    *)
LEMMA WakeInit == Init => WakeInvariant
<1>1. Init => OwnedIsTaken /\ \A d \in Deployments : \A b \in Releases : ~Charge(b, d)
  BY NewDeployments, NoneAssumption DEF Init, OwnedIsTaken, Charge
<1>. QED
  BY <1>1 DEF WakeInvariant, WokenOrAtWork, WokenAgain

(* However many BatchReleases name a Deployment, and whatever is lost to   *)
(* crashes, failed calls and events that are not listened to: the one that *)
(* has it is queued or at work while the informer shows a spec.replicas    *)
(* that the ReplicaSets are not sized for.                                 *)
THEOREM OwnerWoken == Spec => []OwnerIsWoken
<1>1. WakeInvariant => OwnerIsWoken
  BY DEF WakeInvariant, WokenOrAtWork, OwnerIsWoken, Charge, Waiting
<1>. QED
  BY <1>1, InitType, NextType, WakeInit, WakeInductive, PTL DEF Spec
=============================================================================
