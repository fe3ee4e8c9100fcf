-------------------------- MODULE ReleaseLifecycle --------------------------
(***************************************************************************)
(* The life of one BatchRelease object: the phase and step machine of      *)
(* Executor.Do (internal/controller/partition/executor.go), driven by      *)
(* BatchReleaseReconciler.Reconcile, against an API server that users and  *)
(* other controllers write to at the same time.                            *)
(*                                                                         *)
(* A reconcile is not atomic.  It works on a copy of the object taken from *)
(* the informer cache, which may be behind the API server, calls the API   *)
(* server several times, and writes the whole status at the end.  Every    *)
(* API call is a step of its own, may fail, and may be the last thing the  *)
(* process does before it crashes.                                         *)
(*                                                                         *)
(* ReplicaSets, pods and batch sizes are abstracted to two facts: "ready"  *)
(* (IsBatchReady answers nil and nothing is left to scale for the current  *)
(* step) and "scaling" (isScalingEvent answers true).  A step plan is      *)
(* abstracted to its length.                                               *)
(***************************************************************************)
EXTENDS Naturals

CONSTANTS
  Templates,      \* pod templates
  None,           \* an annotation or hash that is not there ("")
  Hash,           \* ComputeHash: Templates -> hash values
  YamlRoundTrip,  \* yaml.Unmarshal after yaml.Marshal: Templates -> Templates
  Fences,         \* values of the Deployment's maxUnavailable/maxSurge pair
  NoFence,        \* RollingUpdate == nil (Deployment) or not captured (status)
  PlanLengths,    \* lengths of the step plans users write
  StaleReads,     \* can a reconcile begin with a version that is behind?
  Patient,        \* do users let the controller take up one request first?
  MaxEdits,       \* bound on what users change in the BatchRelease
  MaxScales,      \* bound on users' changes of the Deployment's spec.replicas
  MaxFaults       \* bound on failed API calls and controller crashes

(* The step plan that preRollback writes has two steps, 1 and 100%.        *)
RollbackPlan == 2

(* A hash collision is one hash for two templates: Hash need not be injective.  *)
Hashes == {Hash[t] : t \in Templates}

ASSUME HashAssumption  == Hash \in [Templates -> Hashes]
ASSUME YamlAssumption  == YamlRoundTrip \in [Templates -> Templates]
ASSUME NoneAssumption  == /\ None \notin Templates
                          /\ \A t \in Templates : Hash[t] # None
ASSUME FenceAssumption == NoFence \notin Fences
ASSUME PlanAssumption  == PlanLengths \subseteq Nat \ {0}
ASSUME BoundAssumption == /\ Patient \in BOOLEAN
                          /\ StaleReads \in BOOLEAN
                          /\ MaxEdits \in Nat
                          /\ MaxScales \in Nat
                          /\ MaxFaults \in Nat

VARIABLES
  spec,      \* BatchRelease.Spec on the API server
  anno,      \* its annotations: the rollback mark and the stable versions
  status,    \* BatchRelease.Status on the API server
  de,        \* the Deployment on the API server
  cache,     \* the informer's copy of the BatchRelease
  queued,    \* is a request for the BatchRelease in the work queue?
  pc,        \* where the reconcile in progress is
  rec,       \* its locals: old (Reconcile's br), br (the executor's Br), de;
             \* err: will it return an error
  ready,     \* is the current batch ready?
  scaling,   \* do the ReplicaSets still carry another spec.replicas?
  edits,     \* how many user changes of the BatchRelease so far
  scales,    \* how many changes of spec.replicas so far
  faults,    \* how many failed calls and crashes so far
  approved,  \* history: steps users have continued since the last init
  deployed   \* history: templates the Deployment has had

api  == <<spec, anno, status, de>>
env  == <<ready, scaling, edits, scales, faults>>
hist == <<approved, deployed>>
vars == <<spec, anno, status, de, cache, queued, pc, rec,
          ready, scaling, edits, scales, faults, approved, deployed>>

Phases     == {"", "Initial", "RollingUpdate", "RollingBack", "Finalizing", "Completed"}
StepStates == {"", "Initial", "Upgrade", "Blocking", "Completed"}

SpecType   == [template : Templates, steps : Nat \ {0}]
AnnoType   == [rollback : BOOLEAN, cur : Templates \cup {None}, last : Templates \cup {None}]
StatusType == [phase : Phases, idx : Nat, state : StepStates,
               reason : {"", "StepBlocking"}, observed : Hashes \cup {None},
               fence : Fences \cup {NoFence}]
ReleaseType    == [spec : SpecType, anno : AnnoType, status : StatusType]
DeploymentType == [template : Templates, paused : BOOLEAN,
                   fence : Fences \cup {NoFence}, owned : BOOLEAN]

LocalsType     == [old : ReleaseType, br : ReleaseType, de : DeploymentType,
                   err : BOOLEAN]

(* The BatchRelease the API server holds now.                              *)
Current == [spec |-> spec, anno |-> anno, status |-> status]

(* Locals of a reconcile over the cached object b and the Deployment d.    *)
(* NewExecutor copies both; Do first clears the status reason.             *)
Locals(b, d) ==
  [old |-> b, br |-> [b EXCEPT !.status.reason = ""], de |-> d,
   err |-> FALSE]

Init ==
  /\ spec \in [template : Templates, steps : PlanLengths]
  /\ anno = [rollback |-> FALSE, cur |-> None, last |-> None]
  /\ status = [phase |-> "", idx |-> 0, state |-> "", reason |-> "",
               observed |-> None, fence |-> NoFence]
  /\ de \in [template : Templates, paused : {FALSE}, fence : Fences, owned : {FALSE}]
  /\ cache = Current
  /\ queued = TRUE
  /\ pc = "idle"
  /\ rec = Locals(cache, de)
  /\ ready = FALSE
  /\ scaling = FALSE
  /\ edits = 0
  /\ scales = 0
  /\ faults = 0
  /\ approved = {}
  /\ deployed = {de.template}

(* UpdateObj and UpdateObjStatus read the BatchRelease from the cache again *)
(* and write it back: the API server refuses what is based on an old        *)
(* version, and after a few conflicts the error is returned.                *)
CacheFresh == cache = Current

(***************************************************************************)
(* Reconcile: read the object from the cache and run the executor.  A      *)
(* reconcile that has ended leaves canonical locals behind.                *)
(***************************************************************************)
StartReconcile ==
  /\ pc = "idle"
  /\ queued
  /\ CacheFresh \/ StaleReads
  /\ queued' = FALSE
  /\ rec' = Locals(cache, de)
  /\ pc' = "do"
  /\ UNCHANGED <<api, cache, env, hist>>

(* A failed API call: the error is returned, the status is still written.  *)
Fail(b) ==
  /\ faults < MaxFaults
  /\ faults' = faults + 1
  /\ rec' = [rec EXCEPT !.br = b, !.err = TRUE]
  /\ pc' = "status"
  /\ UNCHANGED <<api, cache, queued, ready, scaling, edits, scales, hist>>

(* The executor returns without an error, its working copy being b.        *)
Return(b) ==
  /\ rec' = [rec EXCEPT !.br = b]
  /\ pc' = "status"

(* Mutant: a new template is noticed only once the last one is released.   *)
MutantTemplateChanged(b) ==
  /\ b.status.observed # None
  /\ b.status.observed # Hash[b.spec.template]
  /\ ~b.anno.rollback
  /\ b.status.phase = "Completed"

(* handlePodTemplateUpdate, and its guard.                                 *)
TemplateChanged(b) ==
  /\ b.status.observed # None
  /\ b.status.observed # Hash[b.spec.template]
  /\ ~b.anno.rollback

HandlePodTemplateUpdate ==
  /\ pc = "do"
  /\ TemplateChanged(rec.br)
  /\ Return([rec.br EXCEPT !.status.observed = Hash[rec.br.spec.template],
                           !.status.phase = "Initial"])
  /\ UNCHANGED <<api, cache, queued, env, hist>>

(* Do reaches the switch with the phase in S.                              *)
InPhase(S) ==
  /\ pc = "do"
  /\ ~TemplateChanged(rec.br)
  /\ rec.br.status.phase \in S

(***************************************************************************)
(* Executor.init, called in phase Initial (and "", which Do turns into     *)
(* Initial first) and by preRollback; on success the caller sets the phase *)
(* to "target".  It takes three reconciles the first time: one captures    *)
(* the fenceposts, one records the stable version, one takes over the      *)
(* Deployment.  The step counters are reset before the Deployment is       *)
(* updated, so a failed update still persists them.                        *)
(***************************************************************************)
CaptureFence(b) ==
  /\ b.status.fence = NoFence
  /\ IF rec.de.fence = NoFence
       THEN /\ rec' = [rec EXCEPT !.br = b, !.err = TRUE]
            /\ pc' = "status"
       ELSE Return([b EXCEPT !.status.fence = rec.de.fence])
  /\ UNCHANGED <<api, cache, queued, env, hist>>

(* recordStableVersion(t) on the annotations a the executor has read; the  *)
(* patch is applied to the annotations the API server holds.               *)
(* Mutant: only the first stable version is recorded.                      *)
MutantNeedsRecord(a, t) == a.cur = None

NeedsRecord(a, t) == a.cur = None \/ Hash[a.cur] # Hash[t]

(* Mutant: the case of the first version is forgotten.                     *)
MutantRecordStableVersion(a, t) == anno' = [anno EXCEPT !.cur = t, !.last = a.cur]

RecordStableVersion(a, t) ==
  anno' = [anno EXCEPT !.cur = t, !.last = IF a.cur = None THEN t ELSE a.cur]

(* Mutant: the first stable version is taken from the BatchRelease.        *)
MutantRecordInitial(b) ==
  /\ b.status.fence # NoFence
  /\ b.anno.cur = None
  /\ CacheFresh
  /\ RecordStableVersion(b.anno, b.spec.template)
  /\ Return(b)
  /\ UNCHANGED <<spec, status, de, cache, queued, env, hist>>

RecordInitial(b) ==
  /\ b.status.fence # NoFence
  /\ b.anno.cur = None
  /\ \/ /\ CacheFresh
        /\ RecordStableVersion(b.anno, rec.de.template)
        /\ Return(b)
        /\ UNCHANGED <<spec, status, de, cache, queued, env, hist>>
     \/ Fail(b)

(* Mutant: the step index is not reset.                                    *)
MutantRestarted(b) ==
  [b EXCEPT !.status.state = "", !.status.observed = Hash[b.spec.template]]

(* Mutant: the template itself is kept as the observed revision.           *)
MutantObserved(b) ==
  [b EXCEPT !.status.idx = 0, !.status.state = "",
            !.status.observed = b.spec.template]

Restarted(b) ==
  [b EXCEPT !.status.idx = 0, !.status.state = "",
            !.status.observed = Hash[b.spec.template]]

(* Mutant: the phase is set before the Deployment is updated.              *)
MutantTakeOver(b, target) ==
  /\ b.status.fence # NoFence
  /\ b.anno.cur # None
  /\ \/ /\ de' = [template |-> b.spec.template, paused |-> TRUE,
                  fence |-> NoFence, owned |-> TRUE]
        /\ Return([Restarted(b) EXCEPT !.status.phase = target])
        /\ ready' = FALSE
        /\ deployed' = deployed \cup {b.spec.template}
        /\ UNCHANGED <<spec, anno, status, cache, queued, scaling, edits, scales, faults, approved>>
     \/ Fail([Restarted(b) EXCEPT !.status.phase = target])

TakeOver(b, target) ==
  /\ b.status.fence # NoFence
  /\ b.anno.cur # None
  /\ \/ /\ de' = [template |-> b.spec.template, paused |-> TRUE,
                  fence |-> NoFence, owned |-> TRUE]
        /\ Return([Restarted(b) EXCEPT !.status.phase = target])
        /\ ready' = FALSE
        /\ deployed' = deployed \cup {b.spec.template}
        /\ UNCHANGED <<spec, anno, status, cache, queued, scaling, edits, scales, faults, approved>>
     \/ Fail(Restarted(b))

InitRelease(b, target) ==
  CaptureFence(b) \/ RecordInitial(b) \/ TakeOver(b, target)

PhaseInitial ==
  /\ InPhase({"", "Initial"})
  /\ InitRelease([rec.br EXCEPT !.status.phase = "Initial"], "RollingUpdate")

(***************************************************************************)
(* preRollback to the stable version v: first rewrite the spec, and once   *)
(* the spec has that version (the hash of its template is v's) restart.    *)
(***************************************************************************)
RewriteSpec(b, v) ==
  /\ Hash[v] # Hash[b.spec.template]
  /\ \/ /\ CacheFresh
        /\ spec' = [template |-> YamlRoundTrip[v], steps |-> RollbackPlan]
        /\ Return(b)
        /\ UNCHANGED <<anno, status, de, cache, queued, env, hist>>
     \/ Fail(b)

PreRollback(b, v) ==
  \/ RewriteSpec(b, v)
  \/ Hash[v] = Hash[b.spec.template] /\ InitRelease(b, "RollingBack")

RollbackWhileRolling ==
  /\ InPhase({"RollingUpdate"})
  /\ rec.br.anno.rollback
  /\ PreRollback(rec.br, rec.br.anno.cur)

RollbackAfterCompletion ==
  /\ InPhase({"Completed"})
  /\ rec.br.anno.rollback
  /\ PreRollback(rec.br, rec.br.anno.last)

(* Mutant: the mark is left in place.                                      *)
MutantRemoveRollbackMark ==
  /\ InPhase({"RollingBack"})
  /\ rec.br.anno.rollback
  /\ Return(rec.br)
  /\ UNCHANGED <<api, cache, queued, env, hist>>

(* removeRollbackMark passes the executor's own Br to UpdateObj, which     *)
(* overwrites it: with the object the API server answers, or, when the     *)
(* update fails after the read, with the cached object it had patched.     *)
RemoveRollbackMark ==
  /\ InPhase({"RollingBack"})
  /\ rec.br.anno.rollback
  /\ \/ /\ CacheFresh
        /\ anno' = [anno EXCEPT !.rollback = FALSE]
        /\ Return([Current EXCEPT !.anno.rollback = FALSE])
        /\ UNCHANGED <<spec, status, de, cache, queued, env, hist>>
     \/ Fail(rec.br)
     \/ Fail([cache EXCEPT !.anno.rollback = FALSE])

NothingToDo ==
  /\ InPhase({"Completed"})
  /\ ~rec.br.anno.rollback
  /\ Return(rec.br)
  /\ UNCHANGED <<api, cache, queued, env, hist>>

(***************************************************************************)
(* rollingUpdate: a scaling event is synced first and restarts the step;   *)
(* otherwise stepByStep.                                                   *)
(***************************************************************************)
Rolling ==
  \/ InPhase({"RollingUpdate"}) /\ ~rec.br.anno.rollback
  \/ InPhase({"RollingBack"}) /\ ~rec.br.anno.rollback

(* A sync that returns no error need not have ended the scaling event: it  *)
(* may have left the annotations isScalingEvent compares as they were, or  *)
(* worked on a list that is behind.  Before it, listing the ReplicaSets or *)
(* their revisions may fail, whether there is a scaling event or not.      *)
SyncScaling ==
  /\ Rolling
  /\ \/ /\ scaling
        /\ scaling' \in BOOLEAN
        /\ Return([rec.br EXCEPT !.status.state = "Initial"])
        /\ UNCHANGED <<api, cache, queued, ready, edits, scales, faults, hist>>
     \/ Fail(rec.br)

InStep(S) == Rolling /\ ~scaling /\ rec.br.status.state \in S

LastStep(b)   == b.status.idx = b.spec.steps - 1
PastLastStep(b) == b.status.idx >= b.spec.steps

StepInitial ==
  /\ InStep({"", "Initial"})
  /\ Return([rec.br EXCEPT !.status.state = "Upgrade"])
  /\ ready' = FALSE
  /\ UNCHANGED <<api, cache, queued, scaling, edits, scales, faults, hist>>

(* A batch that is not ready: the reconcile scales a ReplicaSet and returns *)
(* without an error, or has nothing to scale and returns IsBatchReady's.   *)
StepUpgrade ==
  /\ InStep({"Upgrade"})
  /\ ~PastLastStep(rec.br)
  /\ \/ ready  /\ Return([rec.br EXCEPT !.status.state = "Blocking"])
     \/ ~ready /\ rec' = [rec EXCEPT !.err = TRUE] /\ pc' = "status"
     \/ ~ready /\ Return(rec.br)
  /\ UNCHANGED <<api, cache, queued, env, hist>>

(* Steps[CurrentStepIndex] is out of range: controller-runtime recovers    *)
(* the panic and requeues; the status is not written.                      *)
StepUpgradePanics ==
  /\ InStep({"Upgrade"})
  /\ PastLastStep(rec.br)
  /\ pc' = "idle"
  /\ queued' = TRUE
  /\ rec' = Locals(cache, de)
  /\ UNCHANGED <<api, cache, env, hist>>

StepBlocking ==
  /\ InStep({"Blocking"})
  /\ Return(IF LastStep(rec.br)
              THEN [rec.br EXCEPT !.status.state = "Completed"]
              ELSE [rec.br EXCEPT !.status.reason = "StepBlocking"])
  /\ UNCHANGED <<api, cache, queued, env, hist>>

(* Mutant: the next step starts out as completed as the last one.          *)
MutantStepCompleted ==
  /\ InStep({"Completed"})
  /\ Return(IF LastStep(rec.br)
              THEN [rec.br EXCEPT !.status.phase = "Finalizing"]
              ELSE [rec.br EXCEPT !.status.idx = @ + 1])
  /\ UNCHANGED <<api, cache, queued, env, hist>>

StepCompleted ==
  /\ InStep({"Completed"})
  /\ Return(IF LastStep(rec.br)
              THEN [rec.br EXCEPT !.status.phase = "Finalizing"]
              ELSE [rec.br EXCEPT !.status.idx = @ + 1, !.status.state = "Initial"])
  /\ UNCHANGED <<api, cache, queued, env, hist>>

(***************************************************************************)
(* finalize: give the Deployment back, then record the stable version.     *)
(***************************************************************************)
(* Mutant: a Deployment that could not be given back counts as released.   *)
MutantFinalizeDeployment ==
  /\ InPhase({"Finalizing"})
  /\ \/ /\ de' = [de EXCEPT !.paused = FALSE, !.fence = rec.br.status.fence, !.owned = FALSE]
        /\ pc' = "record"
        /\ scaling' = FALSE
        /\ UNCHANGED <<spec, anno, status, cache, queued, rec, ready, edits, scales, faults, hist>>
     \/ Fail([rec.br EXCEPT !.status.phase = "Completed"])

FinalizeDeployment ==
  /\ InPhase({"Finalizing"})
  /\ \/ /\ de' = [de EXCEPT !.paused = FALSE, !.fence = rec.br.status.fence, !.owned = FALSE]
        /\ pc' = "record"
        /\ scaling' = FALSE
        /\ UNCHANGED <<spec, anno, status, cache, queued, rec, ready, edits, scales, faults, hist>>
     \/ Fail(rec.br)

FinalizeRecord ==
  /\ pc = "record"
  /\ \/ /\ IF NeedsRecord(rec.br.anno, rec.br.spec.template)
             THEN CacheFresh /\ RecordStableVersion(rec.br.anno, rec.br.spec.template)
             ELSE UNCHANGED anno
        /\ Return([rec.br EXCEPT !.status.phase = "Completed"])
        /\ UNCHANGED <<spec, status, de, cache, queued, env, hist>>
     \/ Fail(rec.br)

Do ==
  \/ HandlePodTemplateUpdate
  \/ PhaseInitial
  \/ RollbackWhileRolling
  \/ RollbackAfterCompletion
  \/ RemoveRollbackMark
  \/ NothingToDo
  \/ SyncScaling
  \/ StepInitial
  \/ StepUpgrade
  \/ StepUpgradePanics
  \/ StepBlocking
  \/ StepCompleted
  \/ FinalizeDeployment
  \/ FinalizeRecord

(***************************************************************************)
(* syncBatchReleaseStatus: the whole status the executor computed replaces *)
(* the one the API server holds by now.  The write is checked against the  *)
(* version UpdateObjStatus has just read, not the one Reconcile began with.*)
(***************************************************************************)
SyncStatus ==
  /\ pc = "status"
  /\ \/ /\ rec.br.status = rec.old.status
        /\ pc' = "end"
        /\ UNCHANGED <<api, cache, queued, rec, env, hist>>
     \/ /\ rec.br.status # rec.old.status
        /\ CacheFresh
        /\ status' = rec.br.status
        /\ approved' = IF status'.state = "" THEN {} ELSE approved
        /\ pc' = "end"
        /\ UNCHANGED <<spec, anno, de, cache, queued, rec, env, deployed>>
     \/ /\ rec.br.status # rec.old.status
        /\ faults < MaxFaults
        /\ faults' = faults + 1
        /\ rec' = [rec EXCEPT !.err = TRUE]
        /\ pc' = "end"
        /\ UNCHANGED <<api, cache, queued, ready, scaling, edits, scales, hist>>

(* An error requeues, and so does the panic of DesiredPartition.  Without  *)
(* either, a rollout DeploymentRolloutSatisfied finds wanting is due again *)
(* two seconds later; it judges the Deployment Reconcile began with, whose *)
(* status may look satisfied although ReplicaSets had to be scaled.        *)
EndReconcile ==
  /\ pc = "end"
  /\ pc' = "idle"
  /\ rec' = Locals(cache, de)
  /\ IF rec.err \/ PastLastStep(rec.br)
       THEN queued' = TRUE
       ELSE queued' \in {queued, TRUE}
  /\ UNCHANGED <<api, cache, env, hist>>

Reconcile == StartReconcile \/ Do \/ SyncStatus \/ EndReconcile

(***************************************************************************)
(* The rest of the control plane: the informer, the process, the pods, the *)
(* Deployment controller (external).                                       *)
(***************************************************************************)
(* The watch on BatchReleases delivers a version; it may skip versions.    *)
DeliverBatchRelease ==
  /\ ~CacheFresh
  /\ cache' = Current
  /\ queued' = TRUE
  /\ UNCHANGED <<api, pc, rec, env, hist>>

(* The controller process dies and a new one lists the objects again.      *)
Crash ==
  /\ pc # "idle"
  /\ faults < MaxFaults
  /\ faults' = faults + 1
  /\ pc' = "idle"
  /\ cache' = Current
  /\ queued' = TRUE
  /\ rec' = Locals(Current, de)
  /\ UNCHANGED <<api, ready, scaling, edits, scales, hist>>

(* The pods of the current batch become ready.                             *)
PodsReady ==
  /\ ~ready
  /\ ready' = TRUE
  /\ UNCHANGED <<api, cache, queued, pc, rec, scaling, edits, scales, faults, hist>>

(* The Deployment controller scales a paused Deployment's ReplicaSets too. *)
DeploymentControllerScales ==
  /\ scaling
  /\ scaling' = FALSE
  /\ UNCHANGED <<api, cache, queued, pc, rec, ready, edits, scales, faults, hist>>

(***************************************************************************)
(* Users.  A patient one lets the controller observe one template before   *)
(* asking for anything else; an impatient one does not.                    *)
(***************************************************************************)
Observed == status.observed = Hash[spec.template]

(* A user continues a blocked step.                                        *)
UserApprove ==
  /\ status.state = "Blocking"
  /\ status' = [status EXCEPT !.state = "Completed"]
  /\ approved' = approved \cup {status.idx}
  /\ UNCHANGED <<spec, anno, de, cache, queued, pc, rec, env, deployed>>

UserEdits ==
  /\ edits < MaxEdits
  /\ edits' = edits + 1

UserReleases(t, n) ==
  /\ UserEdits
  /\ Hash[t] # Hash[spec.template]
  /\ Patient => ~anno.rollback /\ (status.observed = None \/ Observed)
  /\ spec' = [template |-> t, steps |-> n]
  /\ UNCHANGED <<anno, status, de, cache, queued, pc, rec, ready, scaling, scales, faults, hist>>

UserReplans(n) ==
  /\ UserEdits
  /\ ~Patient
  /\ n # spec.steps
  /\ spec' = [spec EXCEPT !.steps = n]
  /\ UNCHANGED <<anno, status, de, cache, queued, pc, rec, ready, scaling, scales, faults, hist>>

UserRollsBack ==
  /\ UserEdits
  /\ ~anno.rollback
  /\ Patient => Observed
  /\ anno' = [anno EXCEPT !.rollback = TRUE]
  /\ UNCHANGED <<spec, status, de, cache, queued, pc, rec, ready, scaling, scales, faults, hist>>

UserCancelsRollback ==
  /\ UserEdits
  /\ ~Patient
  /\ anno.rollback
  /\ anno' = [anno EXCEPT !.rollback = FALSE]
  /\ UNCHANGED <<spec, status, de, cache, queued, pc, rec, ready, scaling, scales, faults, hist>>

(* A user changes spec.replicas of a Deployment under release: the handler *)
(* of Deployment events enqueues its BatchRelease.                         *)
UserScales ==
  /\ scales < MaxScales
  /\ scales' = scales + 1
  /\ de.owned
  /\ scaling' = TRUE
  /\ ready' = FALSE
  /\ queued' = TRUE
  /\ UNCHANGED <<api, cache, pc, rec, edits, faults, hist>>

User ==
  \/ UserApprove
  \/ \E t \in Templates, n \in PlanLengths : UserReleases(t, n)
  \/ \E n \in PlanLengths : UserReplans(n)
  \/ UserRollsBack
  \/ UserCancelsRollback
  \/ UserScales

Next ==
  \/ Reconcile
  \/ DeliverBatchRelease
  \/ Crash
  \/ PodsReady
  \/ DeploymentControllerScales
  \/ User

(* The worker keeps reconciling what is queued, the watch delivers, pods   *)
(* become ready, and whoever runs the release continues blocked steps.     *)
Fairness ==
  /\ WF_vars(Reconcile)
  /\ WF_vars(DeliverBatchRelease)
  /\ WF_vars(PodsReady)
  /\ WF_vars(UserApprove)

Spec == Init /\ [][Next]_vars /\ Fairness

(***************************************************************************)
(* Properties                                                              *)
(***************************************************************************)
(* Every variable has its type: Reconcile and its users only ever store    *)
(* phases, step states, hashes and templates the API types allow.          *)
TypeOK ==
  /\ spec \in SpecType
  /\ anno \in AnnoType
  /\ status \in StatusType
  /\ de \in DeploymentType
  /\ cache \in ReleaseType
  /\ queued \in BOOLEAN
  /\ pc \in {"idle", "do", "record", "status", "end"}
  /\ rec \in LocalsType
  /\ ready \in BOOLEAN
  /\ scaling \in BOOLEAN
  /\ edits \in 0 .. MaxEdits
  /\ scales \in 0 .. MaxScales
  /\ faults \in 0 .. MaxFaults
  /\ approved \subseteq Nat
  /\ deployed \subseteq Templates

RollingPhases == {"RollingUpdate", "RollingBack"}
EarlyPhases   == {"", "Initial"}

(* Whenever Do acts on a rollback mark, both stable versions are there: it *)
(* never rolls back to the empty template an absent annotation would give  *)
(* (preRollback, recordStableVersion).                                     *)
RollbackHasTarget ==
  status.phase \notin EarlyPhases => anno.cur # None /\ anno.last # None

(* While the persisted phase is RollingUpdate or RollingBack the           *)
(* Deployment is paused and carries the control info, so the Deployment    *)
(* controller does not roll it out and a change of spec.replicas wakes the *)
(* BatchRelease (init, finalize).                                          *)
PausedWhileRolling ==
  status.phase \in RollingPhases => de.paused /\ de.owned

(* The stable versions recordStableVersion keeps are templates the         *)
(* Deployment has really had: a rollback never goes to one it never ran.   *)
StableWasDeployed == {anno.cur, anno.last} \ {None} \subseteq deployed

(* Once a release is Completed and no rollback is asked for, the           *)
(* Deployment is the Deployment controller's again, with the fenceposts    *)
(* init captured (finalize).                                               *)
ReleasedWhenCompleted ==
  status.phase = "Completed" /\ ~anno.rollback /\ pc = "idle" /\ CacheFresh =>
    ~de.paused /\ ~de.owned /\ de.fence = status.fence

(* What a completed release leaves behind as the current stable version is *)
(* the version it released, so the next rollback returns to that one       *)
(* (finalize, recordStableVersion).                                        *)
StableIsReleased ==
  status.phase = "Completed" /\ ~anno.rollback /\ pc = "idle" /\ CacheFresh =>
    anno.cur # None /\ Hash[anno.cur] = status.observed

(* No step is left before it has been continued by hand: the index only    *)
(* passes steps users have continued since the release (re)started         *)
(* (stepByStep; the last step continues by itself).                        *)
StepsApproved ==
  status.phase \in RollingPhases \cup {"Finalizing"} =>
    0 .. status.idx - 1 \subseteq approved

(* A reconcile that moves replicas (rollingUpdate) finds the Deployment    *)
(* taken over by this release and holding the template being released, so  *)
(* the new ReplicaSet it scales is the one the user asked for.             *)
ScalesOwnRelease ==
  Rolling => de.paused /\ de.owned /\ Hash[de.template] = Hash[rec.br.spec.template]

(* A controller's status write does not take a continued step back to      *)
(* Blocking: "Step is in blocking state and needs to be continued          *)
(* manually" (syncBatchReleaseStatus).                                     *)
ApprovalKept ==
  [][status.state = "Completed" => status'.state # "Blocking"]_status

(* A batch that is not done has a request that will take it on.  The code  *)
(* does not promise that: an upgrade or a sync that changes no status, on a *)
(* Deployment that looks satisfied, is followed by nothing (BatchRollout's *)
(* WorkQueued).  That a scaling event ends is ScalingSettles there.        *)
WorkQueued ==
  pc = "idle" /\ ~scaling /\ status.phase \in RollingPhases
    /\ status.state \in {"", "Initial", "Upgrade"} => queued

(* When users stop asking for changes, the release completes with the      *)
(* template they asked for (or the stable one they rolled back to) and     *)
(* gives the Deployment back, whatever fails on the way, unless a scaling  *)
(* event never ends or a batch is left with no request to follow.          *)
EventuallyReleased ==
  []<>~scaling /\ []<>WorkQueued =>
  <>[](/\ status.phase = "Completed"
       /\ ~anno.rollback
       /\ ~de.paused
       /\ Hash[de.template] = Hash[spec.template])

(* The release keeps the protocol of ReleaseProtocol, whatever users ask   *)
(* for and wherever calls fail or the process dies: seen from outside,     *)
(* the many reconciles of a phase (Do, syncBatchReleaseStatus) are the     *)
(* single steps the protocol allows, in its order, and the Deployment is   *)
(* held and given back at the right moments (init, finalize).              *)
Protocol == INSTANCE ReleaseProtocol WITH
              phase <- status.phase,
              idx   <- status.idx,
              state <- status.state,
              held  <- de.paused /\ de.owned

KeepsProtocol == Protocol!Spec

(***************************************************************************)
(* Inductive invariants                                                    *)
(***************************************************************************)
(* Why a rollback has a version to go to: no phase past Initial is ever    *)
(* reached, or seen in the cache, without both annotations, and they never *)
(* go away.  TypeOK is inductive only together with this.                  *)
Recorded(b0) ==
  /\ b0.anno.cur = None <=> b0.anno.last = None
  /\ b0.anno.cur = None => b0.status.phase \in EarlyPhases

StableRecorded ==
  /\ Recorded(Current)
  /\ Recorded(cache)
  /\ Recorded(rec.br)
  /\ anno.cur = None => cache.anno.cur = None /\ rec.br.anno.cur = None

(* finalize records the stable version of an object it saw Finalizing.     *)
RecordsLast == pc = "record" => rec.br.status.phase = "Finalizing"

RecordInductive == TypeOK /\ StableRecorded /\ RecordsLast

(* Why the Deployment stays paused while batches roll, when a reconcile    *)
(* begins with the current version: nobody else writes the phase while it  *)
(* runs, and it asks for a rolling phase only after the take-over.         *)
TakenOver == de.paused /\ de.owned

PausedInductive ==
  /\ PausedWhileRolling
  /\ pc \in {"do", "record", "status"} => rec.old.status.phase = status.phase
  /\ pc = "do" => rec.br.status.phase = status.phase
  /\ pc = "record" => status.phase = "Finalizing"
  /\ pc = "status" /\ rec.br.status.phase \in RollingPhases => TakenOver

(* Why the reconciles are steps of the protocol, when each begins with the *)
(* current version: until it writes the status, only users have written    *)
(* it, to continue a step (MayBe); and what the executor makes of the      *)
(* status it began with is one of few things (Handled).                    *)
MayBe(o, s) ==
  /\ s.phase = o.phase
  /\ s.idx = o.idx
  /\ s.state = o.state \/ (o.state = "Blocking" /\ s.state = "Completed")

As(n, phase, idx, state) == n.phase = phase /\ n.idx = idx /\ n.state = state

Stepped(o, n) ==
  /\ o.phase \in RollingPhases
  /\ \/ As(n, o.phase, o.idx, "Initial")
     \/ o.state \in {"", "Initial"} /\ As(n, o.phase, o.idx, "Upgrade")
     \/ o.state = "Upgrade"         /\ As(n, o.phase, o.idx, "Blocking")
     \/ o.state = "Completed"       /\ As(n, o.phase, o.idx + 1, "Initial")
     \/ o.state = "Completed"       /\ As(n, "Finalizing", o.idx, "Completed")

Handled(o, n) ==
  \/ MayBe(o, n)
  \/ As(n, "Initial", o.idx, o.state)
  \/ o.phase \in {"Initial", "RollingUpdate", "Completed"} /\ As(n, o.phase, 0, "")
  \/ o.phase = "Initial"                      /\ As(n, "RollingUpdate", 0, "")
  \/ o.phase \in {"RollingUpdate", "Completed"} /\ As(n, "RollingBack", 0, "")
  \/ Stepped(o, n)
  \/ o.phase = "Finalizing" /\ ~TakenOver     /\ As(n, "Completed", o.idx, o.state)

(* Nothing was done in the first phase, and the last step is completed     *)
(* when the Deployment is given back.                                      *)
Ends(s) ==
  /\ s.phase = "" => s.idx = 0 /\ s.state = "" /\ s.fence = NoFence
  /\ s.phase = "Finalizing" => s.state = "Completed"

ProtocolInductive ==
  /\ Ends(status)
  /\ pc = "status" => Ends(rec.br.status)
  /\ pc \in {"do", "record", "status"} =>
       /\ Ends(rec.old.status)
       /\ MayBe(rec.old.status, status)
       /\ MayBe(rec.old.status, cache.status)
  /\ pc \in {"do", "record"} =>
       /\ As(rec.br.status, rec.old.status.phase, rec.old.status.idx, rec.old.status.state)
       /\ rec.br.status.fence = rec.old.status.fence
  /\ pc = "record" => rec.old.status.phase = "Finalizing" /\ ~TakenOver
  /\ pc = "status" => Handled(rec.old.status, rec.br.status)

(* Why a release ends as it should, when each reconcile begins with the    *)
(* current version and users are patient.  What an object with the spec    *)
(* sp, the annotations an and the status st promises (Consistent):         *)
(* - a hash is observed from the first take-over on, and a restart begins  *)
(*   with step 0;                                                          *)
(* - a rollback that is not under way yet was asked for after the template *)
(*   had been observed;                                                    *)
(* - the Deployment holds the template observed, while it is rolled out;   *)
(* - steps that were left have been continued, and so has a completed one; *)
(* - a completed release has given the Deployment back and recorded it.    *)
Observes(st) ==
  /\ st.phase = "" => st.observed = None
  /\ st.phase \notin EarlyPhases => st.observed # None
  /\ st.state = "" => st.idx = 0

RollbackObserved(sp, an, st) ==
  an.rollback /\ st.phase \notin {"RollingUpdate", "Completed"} =>
    st.observed = Hash[sp.template]

(* A rollback asked for in RollingUpdate restarts the release.             *)
RollsOn(an, st) ==
  st.phase = "RollingBack" \/ (st.phase = "RollingUpdate" /\ ~an.rollback)

HoldsObserved(an, st) ==
  RollsOn(an, st) \/ st.phase = "Finalizing" => st.observed = Hash[de.template]

Continued(sp, an, st) ==
  /\ st.phase \in RollingPhases \cup {"Finalizing"} => 0 .. st.idx - 1 \subseteq approved
  /\ RollsOn(an, st) /\ st.state = "Completed" /\ st.observed = Hash[sp.template] =>
       st.idx \in approved \/ st.idx = sp.steps - 1

GivenBack(st) == ~de.paused /\ ~de.owned /\ de.fence = st.fence

Released(an, st) ==
  st.phase = "Completed" /\ ~an.rollback =>
    GivenBack(st) /\ an.cur # None /\ Hash[an.cur] = st.observed

Consistent(sp, an, st) ==
  /\ Observes(st)
  /\ RollbackObserved(sp, an, st)
  /\ HoldsObserved(an, st)
  /\ Continued(sp, an, st)
  /\ Released(an, st)

(* What may have happened to the object o a reconcile began with: a user   *)
(* has continued a step, and then either asked for a rollback or released  *)
(* another template.  Whoever asks for a rollback sees the template        *)
(* observed, which no longer is once another one is released.              *)
SameRelease(o, s) == MayBe(o, s) /\ s.observed = o.observed /\ s.fence = o.fence

OnlyUsersActed(o) ==
  /\ SameRelease(o.status, cache.status)
  /\ SameRelease(cache.status, status)
  /\ anno.cur = o.anno.cur /\ anno.last = o.anno.last
  /\ o.anno.rollback => anno.rollback /\ spec = o.spec
  /\ ~o.anno.rollback /\ anno.rollback => spec = o.spec /\ Observed
  /\ ~o.anno.rollback /\ spec # o.spec => status.observed = None \/ ~Observed

(* The status about to be written is as consistent as the one it replaces, *)
(* and restarts the release if it has observed another template.           *)
Writes(n) ==
  /\ Consistent(spec, anno, n)
  /\ Observed /\ ~anno.rollback => n.observed = status.observed
  /\ n.observed # status.observed => n.state = "" \/ n.phase \in EarlyPhases

OutcomeInductive ==
  /\ Consistent(spec, anno, status)
  /\ pc \in {"do", "record"} =>
       /\ rec.br = [rec.old EXCEPT !.status.reason = ""]
       /\ Consistent(rec.old.spec, rec.old.anno, rec.old.status)
       /\ OnlyUsersActed(rec.old)
  /\ pc = "record" => GivenBack(rec.old.status) /\ rec.old.status.phase = "Finalizing"
                      /\ rec.old.status.observed = Hash[rec.old.spec.template]
  /\ pc = "status" => Writes(rec.br.status)

(* Why the stable versions have been deployed, if no two templates have    *)
(* one hash: the first is the Deployment's, and what finalize records has  *)
(* the hash of what the Deployment holds.                                  *)
DeployedInductive ==
  /\ StableWasDeployed
  /\ {de.template, rec.de.template} \subseteq deployed
=============================================================================
