----------------------- MODULE ReleaseLifecycleProofs -----------------------
(***************************************************************************)
(* Theorems about ReleaseLifecycle, for all templates, hashes, plans and   *)
(* bounds.                                                                 *)
(***************************************************************************)
EXTENDS ReleaseLifecycle, TLAPS

(***************************************************************************)
(* Lemmas about the operators the reconcile is built from                  *)
(***************************************************************************)
(* The locals of a reconcile have their type.                              *)
LEMMA LocalsAreTyped ==
  ASSUME NEW b0 \in ReleaseType, NEW d0 \in DeploymentType
  PROVE  Locals(b0, d0) \in LocalsType
  BY DEF Locals, LocalsType, ReleaseType, StatusType

(* Hashes of templates are hashes, and no hash is the missing one.         *)
LEMMA HashType ==
  ASSUME NEW t \in Templates
  PROVE  Hash[t] \in Hashes
  BY DEF Hashes

(* What init persists about the step machine keeps the type of the object. *)
LEMMA RestartedType ==
  ASSUME NEW b0 \in ReleaseType
  PROVE  /\ Restarted(b0) \in ReleaseType
         /\ Restarted(b0).status.phase = b0.status.phase
         /\ \A p \in Phases : [Restarted(b0) EXCEPT !.status.phase = p] \in ReleaseType
  BY HashType DEF Restarted, ReleaseType, StatusType, StepStates, SpecType

(* Nor does it, or a new phase, touch the annotations.                     *)
LEMMA RestartedAnno ==
  ASSUME NEW b0 \in ReleaseType
  PROVE  /\ Restarted(b0).anno = b0.anno
         /\ \A p \in Phases : [Restarted(b0) EXCEPT !.status.phase = p].anno = b0.anno
<1>1. Restarted(b0).anno = b0.anno
  BY DEF Restarted, ReleaseType
<1>2. \A r \in ReleaseType : \A p \in Phases : [r EXCEPT !.status.phase = p].anno = r.anno
  BY DEF ReleaseType
<1>. QED
  BY <1>1, <1>2, RestartedType

(* Any other single change of the executor's copy keeps it too.            *)
LEMMA ChangeType ==
  ASSUME NEW b0 \in ReleaseType
  PROVE  /\ \A p \in Phases : [b0 EXCEPT !.status.phase = p] \in ReleaseType
         /\ \A p \in StepStates : [b0 EXCEPT !.status.state = p] \in ReleaseType
         /\ \A g \in Fences : [b0 EXCEPT !.status.fence = g] \in ReleaseType
         /\ [b0 EXCEPT !.status.reason = "StepBlocking"] \in ReleaseType
         /\ [b0 EXCEPT !.anno.rollback = FALSE] \in ReleaseType
         /\ [b0 EXCEPT !.status.idx = @ + 1, !.status.state = "Initial"] \in ReleaseType
         /\ [b0 EXCEPT !.status.observed = Hash[b0.spec.template],
                       !.status.phase = "Initial"] \in ReleaseType
<1>1. \A p \in Phases : [b0 EXCEPT !.status.phase = p] \in ReleaseType
  BY DEF ReleaseType, StatusType
<1>2. \A p \in StepStates : [b0 EXCEPT !.status.state = p] \in ReleaseType
  BY DEF ReleaseType, StatusType
<1>3. \A g \in Fences : [b0 EXCEPT !.status.fence = g] \in ReleaseType
  BY DEF ReleaseType, StatusType
<1>4. [b0 EXCEPT !.status.reason = "StepBlocking"] \in ReleaseType
  BY DEF ReleaseType, StatusType
<1>5. [b0 EXCEPT !.anno.rollback = FALSE] \in ReleaseType
  BY DEF ReleaseType, AnnoType
<1>6. [b0 EXCEPT !.status.idx = @ + 1, !.status.state = "Initial"] \in ReleaseType
  <2>1. b0.status.idx + 1 \in Nat
    <3>1. b0.status.idx \in Nat
      BY DEF ReleaseType, StatusType
    <3>. QED
      BY <3>1
  <2>2. \A n \in Nat : [b0 EXCEPT !.status.idx = n, !.status.state = "Initial"]
                         \in ReleaseType
    BY DEF ReleaseType, StatusType, StepStates
  <2>. QED
    BY <2>1, <2>2
<1>7. [b0 EXCEPT !.status.observed = Hash[b0.spec.template],
                !.status.phase = "Initial"] \in ReleaseType
  <2>1. Hash[b0.spec.template] \in Hashes
    BY HashType DEF ReleaseType, SpecType
  <2>2. \A h \in Hashes : [b0 EXCEPT !.status.observed = h, !.status.phase = "Initial"]
                            \in ReleaseType
    BY DEF ReleaseType, StatusType, Phases
  <2>. QED
    BY <2>1, <2>2
<1>. QED
  BY <1>1, <1>2, <1>3, <1>4, <1>5, <1>6, <1>7


(* A change of the step state keeps the annotations and the phase.         *)
LEMMA StateChange ==
  ASSUME NEW b0 \in ReleaseType, NEW p \in StepStates
  PROVE  /\ [b0 EXCEPT !.status.state = p].anno = b0.anno
         /\ [b0 EXCEPT !.status.state = p].status.phase = b0.status.phase
  BY DEF ReleaseType, StatusType

(***************************************************************************)
(* Type correctness                                                        *)
(***************************************************************************)
(* What the API server stores of the BatchRelease is a BatchRelease.       *)
LEMMA CurrentType ==
  ASSUME TypeOK
  PROVE  Current \in ReleaseType
  BY DEF TypeOK, Current, ReleaseType

(* A failing call and a return keep the types, whatever object they leave. *)
LEMMA FailType ==
  ASSUME TypeOK, NEW b0 \in ReleaseType, Fail(b0)
  PROVE  TypeOK'
<1>1. rec' \in LocalsType /\ pc' = "status"
  BY DEF TypeOK, Fail, LocalsType
<1>2. faults' \in 0 .. MaxFaults
  BY BoundAssumption DEF TypeOK, Fail
<1>. QED
  BY <1>1, <1>2 DEF TypeOK, Fail, api, hist

(* A handler that returns leaves typed locals and goes on to the status.   *)
LEMMA ReturnType ==
  ASSUME TypeOK, NEW b0 \in ReleaseType, Return(b0)
  PROVE  rec' \in LocalsType /\ pc' = "status"
  BY DEF TypeOK, Return, LocalsType

(* The parts of the executor's copies have their types.                    *)
LEMMA RecType ==
  ASSUME TypeOK
  PROVE  /\ rec.br \in ReleaseType
         /\ rec.br.status \in StatusType
         /\ rec.br.spec \in SpecType
         /\ rec.br.anno \in AnnoType
         /\ rec.de \in DeploymentType
  BY DEF TypeOK, LocalsType, ReleaseType

(* recordStableVersion stores annotations of their type: a version or none. *)
LEMMA RecordType ==
  ASSUME TypeOK, NEW a0 \in AnnoType, NEW t \in Templates, RecordStableVersion(a0, t)
  PROVE  anno' \in AnnoType
  BY DEF TypeOK, RecordStableVersion, AnnoType

(* Executor.init, wherever it returns, keeps the types.                    *)
LEMMA InitReleaseType ==
  ASSUME TypeOK, NEW b0 \in ReleaseType, NEW target \in RollingPhases,
         InitRelease(b0, target)
  PROVE  TypeOK'
<1>1. CASE CaptureFence(b0)
  <2>1. CASE rec.de.fence = NoFence
    <3>1. rec' \in LocalsType
      BY <1>1, <2>1 DEF TypeOK, CaptureFence, LocalsType
    <3>. QED
      BY <1>1, <2>1, <3>1 DEF TypeOK, CaptureFence, api, env, hist
  <2>2. CASE rec.de.fence # NoFence
    <3>1. rec.de.fence \in Fences
      BY <2>2, RecType DEF DeploymentType
    <3>2. [b0 EXCEPT !.status.fence = rec.de.fence] \in ReleaseType
      BY <3>1, ChangeType
    <3>3. Return([b0 EXCEPT !.status.fence = rec.de.fence])
      BY <1>1, <2>2 DEF CaptureFence
    <3>4. rec' \in LocalsType /\ pc' = "status"
      BY <3>2, <3>3, ReturnType
    <3>. QED
      BY <1>1, <3>4 DEF TypeOK, CaptureFence, api, env, hist
  <2>. QED
    BY <2>1, <2>2
<1>2. CASE RecordInitial(b0)
  <2>1. CASE Fail(b0)
    BY <2>1, FailType
  <2>2. CASE /\ RecordStableVersion(b0.anno, rec.de.template)
             /\ Return(b0)
             /\ UNCHANGED <<spec, status, de, cache, queued, env, hist>>
    <3>1. b0.anno \in AnnoType /\ rec.de.template \in Templates
      BY RecType DEF ReleaseType, DeploymentType
    <3>2. anno' \in AnnoType
      BY <2>2, <3>1, RecordType
    <3>3. rec' \in LocalsType /\ pc' = "status"
      BY <2>2, ReturnType
    <3>. QED
      BY <2>2, <3>2, <3>3 DEF TypeOK, env, hist
  <2>. QED
    BY <1>2, <2>1, <2>2 DEF RecordInitial
<1>3. CASE TakeOver(b0, target)
  <2>1. Restarted(b0) \in ReleaseType /\ b0.spec.template \in Templates
    BY RestartedType DEF ReleaseType, SpecType
  <2>2. CASE Fail(Restarted(b0))
    BY <2>1, <2>2, FailType
  <2>3. CASE ~Fail(Restarted(b0))
    <3>1. [Restarted(b0) EXCEPT !.status.phase = target] \in ReleaseType
      BY RestartedType DEF RollingPhases, Phases
    <3>2. Return([Restarted(b0) EXCEPT !.status.phase = target])
      BY <1>3, <2>3 DEF TakeOver
    <3>3. rec' \in LocalsType /\ pc' = "status"
      BY <3>1, <3>2, ReturnType
    <3>4. de' \in DeploymentType
      <4>1. [template |-> b0.spec.template, paused |-> TRUE,
             fence |-> NoFence, owned |-> TRUE] \in DeploymentType
        BY <2>1 DEF DeploymentType
      <4>. QED
        BY <1>3, <2>3, <4>1 DEF TakeOver
    <3>5. deployed' \subseteq Templates /\ ready' \in BOOLEAN
      BY <1>3, <2>1, <2>3 DEF TypeOK, TakeOver
    <3>. QED
      BY <1>3, <2>3, <3>3, <3>4, <3>5 DEF TypeOK, TakeOver
  <2>. QED
    BY <2>2, <2>3
<1>. QED
  BY <1>1, <1>2, <1>3 DEF InitRelease

(* A return that leaves everything else alone.                             *)
LEMMA QuietReturnType ==
  ASSUME TypeOK, NEW b0 \in ReleaseType, Return(b0),
         UNCHANGED <<api, cache, queued, env, hist>>
  PROVE  TypeOK'
  BY ReturnType DEF TypeOK, api, env, hist

(* Executor.preRollback keeps the types: it only writes a stable version   *)
(* back into the spec, and that is a template.                             *)
LEMMA PreRollbackType ==
  ASSUME TypeOK, NEW v \in Templates, PreRollback(rec.br, v)
  PROVE  TypeOK'
<1>1. CASE RewriteSpec(rec.br, v)
  <2>1. CASE Fail(rec.br)
    BY <2>1, RecType, FailType
  <2>2. CASE ~Fail(rec.br)
    <3>1. YamlRoundTrip[v] \in Templates
      BY YamlAssumption
    <3>2. [template |-> YamlRoundTrip[v], steps |-> RollbackPlan] \in SpecType
      BY <3>1 DEF SpecType, RollbackPlan
    <3>3. spec' \in SpecType
      BY <1>1, <2>2, <3>2 DEF RewriteSpec
    <3>4. rec' \in LocalsType /\ pc' = "status"
      BY <1>1, <2>2, RecType, ReturnType DEF RewriteSpec
    <3>. QED
      BY <1>1, <2>2, <3>3, <3>4 DEF TypeOK, RewriteSpec, env, hist
  <2>. QED
    BY <2>1, <2>2
<1>2. CASE InitRelease(rec.br, "RollingBack")
  BY <1>2, RecType, InitReleaseType DEF RollingPhases
<1>. QED
  BY <1>1, <1>2 DEF PreRollback

(* The steps of the executor.                                              *)
LEMMA DoType ==
  ASSUME TypeOK, StableRecorded, Do
  PROVE  TypeOK'
<1>1. CASE HandlePodTemplateUpdate
  BY <1>1, RecType, ChangeType, QuietReturnType DEF HandlePodTemplateUpdate
<1>2. CASE PhaseInitial
  <2>1. [rec.br EXCEPT !.status.phase = "Initial"] \in ReleaseType
    BY RecType, ChangeType DEF Phases
  <2>. QED
    BY <1>2, <2>1, InitReleaseType DEF PhaseInitial, RollingPhases
<1>3. CASE RollbackWhileRolling
  <2>1. rec.br.anno.cur \in Templates
    BY <1>3, RecType DEF RollbackWhileRolling, InPhase, StableRecorded, Recorded,
                         EarlyPhases, AnnoType
  <2>. QED
    BY <1>3, <2>1, PreRollbackType DEF RollbackWhileRolling
<1>4. CASE RollbackAfterCompletion
  <2>1. rec.br.anno.last \in Templates
    BY <1>4, RecType DEF RollbackAfterCompletion, InPhase, StableRecorded, Recorded,
                         EarlyPhases, AnnoType
  <2>. QED
    BY <1>4, <2>1, PreRollbackType DEF RollbackAfterCompletion
<1>5. CASE RemoveRollbackMark
  <2>1. CASE Fail(rec.br)
    BY <2>1, RecType, FailType
  <2>2. CASE Fail([cache EXCEPT !.anno.rollback = FALSE])
    BY <2>2, ChangeType, FailType DEF TypeOK
  <2>3. CASE ~Fail(rec.br) /\ ~Fail([cache EXCEPT !.anno.rollback = FALSE])
    <3>1. [Current EXCEPT !.anno.rollback = FALSE] \in ReleaseType
      BY CurrentType, ChangeType
    <3>2. rec' \in LocalsType /\ pc' = "status"
      BY <1>5, <2>3, <3>1, ReturnType DEF RemoveRollbackMark
    <3>3. anno' \in AnnoType
      BY <1>5, <2>3 DEF TypeOK, RemoveRollbackMark, AnnoType
    <3>. QED
      BY <1>5, <2>3, <3>2, <3>3 DEF TypeOK, RemoveRollbackMark, env, hist
  <2>. QED
    BY <2>1, <2>2, <2>3
<1>6. CASE NothingToDo
  BY <1>6, RecType, QuietReturnType DEF NothingToDo
<1>7. CASE SyncScaling
  <2>1. CASE Fail(rec.br)
    BY <2>1, RecType, FailType
  <2>2. CASE ~Fail(rec.br)
    <3>1. [rec.br EXCEPT !.status.state = "Initial"] \in ReleaseType
      BY RecType, ChangeType DEF StepStates
    <3>2. rec' = [rec EXCEPT !.br = [rec.br EXCEPT !.status.state = "Initial"]]
      BY <1>7, <2>2 DEF SyncScaling, Return
    <3>3. rec' \in LocalsType
      BY <3>1, <3>2 DEF TypeOK, LocalsType
    <3>. QED
      BY <1>7, <2>2, <3>3 DEF TypeOK, SyncScaling, Return, api, hist
  <2>. QED
    BY <2>1, <2>2
<1>8. CASE StepInitial
  <2>1. [rec.br EXCEPT !.status.state = "Upgrade"] \in ReleaseType
    BY RecType, ChangeType DEF StepStates
  <2>2. rec' \in LocalsType /\ pc' = "status"
    BY <1>8, <2>1, ReturnType DEF StepInitial
  <2>. QED
    BY <1>8, <2>2 DEF TypeOK, StepInitial, api, hist
<1>9. CASE StepUpgrade
  <2>1. [rec.br EXCEPT !.status.state = "Blocking"] \in ReleaseType
    BY RecType, ChangeType DEF StepStates
  <2>2. CASE Return([rec.br EXCEPT !.status.state = "Blocking"])
    BY <1>9, <2>1, <2>2, QuietReturnType DEF StepUpgrade
  <2>3. CASE Return(rec.br)
    BY <1>9, <2>3, RecType, QuietReturnType DEF StepUpgrade
  <2>4. CASE rec' = [rec EXCEPT !.err = TRUE] /\ pc' = "status"
    <3>1. rec' \in LocalsType
      BY <2>4 DEF TypeOK, LocalsType
    <3>. QED
      BY <1>9, <2>4, <3>1 DEF TypeOK, StepUpgrade, api, env, hist
  <2>. QED
    BY <1>9, <2>2, <2>3, <2>4 DEF StepUpgrade
<1>10. CASE StepUpgradePanics
  <2>1. rec' \in LocalsType
    BY <1>10, LocalsAreTyped DEF TypeOK, StepUpgradePanics
  <2>. QED
    BY <1>10, <2>1 DEF TypeOK, StepUpgradePanics, api, env, hist
<1>11. CASE StepBlocking
  <2>1. /\ [rec.br EXCEPT !.status.state = "Completed"] \in ReleaseType
        /\ [rec.br EXCEPT !.status.reason = "StepBlocking"] \in ReleaseType
    BY RecType, ChangeType DEF StepStates
  <2>. QED
    BY <1>11, <2>1, QuietReturnType DEF StepBlocking
<1>12. CASE StepCompleted
  <2>1. /\ [rec.br EXCEPT !.status.phase = "Finalizing"] \in ReleaseType
        /\ [rec.br EXCEPT !.status.idx = @ + 1, !.status.state = "Initial"] \in ReleaseType
    BY RecType, ChangeType DEF Phases
  <2>. QED
    BY <1>12, <2>1, QuietReturnType DEF StepCompleted
<1>13. CASE FinalizeDeployment
  <2>1. CASE Fail(rec.br)
    BY <2>1, RecType, FailType
  <2>2. CASE ~Fail(rec.br)
    <3>1. rec.br.status.fence \in Fences \cup {NoFence}
      BY RecType DEF StatusType
    <3>2. de' \in DeploymentType
      BY <1>13, <2>2, <3>1 DEF TypeOK, FinalizeDeployment, DeploymentType
    <3>. QED
      BY <1>13, <2>2, <3>2 DEF TypeOK, FinalizeDeployment, hist
  <2>. QED
    BY <2>1, <2>2
<1>14. CASE FinalizeRecord
  <2>1. CASE Fail(rec.br)
    BY <2>1, RecType, FailType
  <2>2. CASE ~Fail(rec.br)
    <3>1. [rec.br EXCEPT !.status.phase = "Completed"] \in ReleaseType
      BY RecType, ChangeType DEF Phases
    <3>2. rec' \in LocalsType /\ pc' = "status"
      BY <1>14, <2>2, <3>1, ReturnType DEF FinalizeRecord
    <3>3. rec.br.spec.template \in Templates
      BY RecType DEF SpecType
    <3>4. anno' \in AnnoType
      <4>1. CASE anno' = anno
        BY <4>1 DEF TypeOK
      <4>2. CASE RecordStableVersion(rec.br.anno, rec.br.spec.template)
        BY <3>3, <4>2, RecType, RecordType
      <4>. QED
        BY <1>14, <2>2, <4>1, <4>2 DEF FinalizeRecord
    <3>. QED
      BY <1>14, <2>2, <3>2, <3>4 DEF TypeOK, FinalizeRecord, env, hist
  <2>. QED
    BY <2>1, <2>2
<1>. QED
  BY <1>1, <1>2, <1>3, <1>4, <1>5, <1>6, <1>7, <1>8, <1>9, <1>10, <1>11,
     <1>12, <1>13, <1>14 DEF Do

(* Users and the rest of the control plane.                                *)
LEMMA EnvironmentType ==
  ASSUME TypeOK, DeliverBatchRelease \/ Crash \/ PodsReady \/ DeploymentControllerScales \/ User
  PROVE  TypeOK'
<1>1. CASE DeliverBatchRelease
  BY <1>1, CurrentType DEF DeliverBatchRelease, TypeOK, api, env, hist
<1>2. CASE Crash
  <2>1. rec' \in LocalsType
    BY <1>2, CurrentType, LocalsAreTyped DEF Crash, TypeOK
  <2>2. faults' \in 0 .. MaxFaults
    BY <1>2, BoundAssumption DEF Crash, TypeOK
  <2>. QED
    BY <1>2, <2>1, <2>2, CurrentType DEF Crash, TypeOK, api, hist
<1>3. CASE PodsReady
  BY <1>3 DEF PodsReady, TypeOK, api, hist
<1>4. CASE DeploymentControllerScales
  BY <1>4 DEF DeploymentControllerScales, TypeOK, api, hist
<1>5. CASE UserApprove
  <2>1. status' \in StatusType
    BY <1>5 DEF UserApprove, TypeOK, StatusType, StepStates
  <2>2. approved' \subseteq Nat
    BY <1>5 DEF UserApprove, TypeOK, StatusType
  <2>. QED
    BY <1>5, <2>1, <2>2 DEF UserApprove, TypeOK, env
<1>6. ASSUME UserEdits
      PROVE  edits' \in 0 .. MaxEdits
  BY <1>6, BoundAssumption DEF UserEdits, TypeOK
<1>7. CASE \E t \in Templates, n \in PlanLengths : UserReleases(t, n)
  <2>1. PICK t \in Templates, n \in PlanLengths : UserReleases(t, n)
    BY <1>7
  <2>2. [template |-> t, steps |-> n] \in SpecType
    BY PlanAssumption DEF SpecType
  <2>3. spec' \in SpecType /\ edits' \in 0 .. MaxEdits
    BY <1>6, <2>1, <2>2 DEF UserReleases
  <2>. QED
    BY <2>1, <2>3 DEF UserReleases, TypeOK, hist
<1>8. CASE \E n \in PlanLengths : UserReplans(n)
  <2>1. PICK n \in PlanLengths : UserReplans(n)
    BY <1>8
  <2>2. [spec EXCEPT !.steps = n] \in SpecType
    BY PlanAssumption DEF SpecType, TypeOK
  <2>3. spec' \in SpecType /\ edits' \in 0 .. MaxEdits
    BY <1>6, <2>1, <2>2 DEF UserReplans
  <2>. QED
    BY <2>1, <2>3 DEF UserReplans, TypeOK, hist
<1>9. CASE UserRollsBack \/ UserCancelsRollback
  <2>1. anno' \in AnnoType
    BY <1>9 DEF UserRollsBack, UserCancelsRollback, TypeOK, AnnoType
  <2>2. edits' \in 0 .. MaxEdits
    BY <1>6, <1>9 DEF UserRollsBack, UserCancelsRollback
  <2>. QED
    BY <1>9, <2>1, <2>2 DEF UserRollsBack, UserCancelsRollback, TypeOK, hist
<1>10. CASE UserScales
  <2>1. scales' \in 0 .. MaxScales
    BY <1>10, BoundAssumption DEF UserScales, TypeOK
  <2>. QED
    BY <1>10, <2>1 DEF UserScales, TypeOK, api, hist
<1>. QED
  BY <1>1, <1>2, <1>3, <1>4, <1>5, <1>7, <1>8, <1>9, <1>10 DEF User

(* Every step keeps the types, because a phase other than the first ones   *)
(* implies recorded stable versions.                                       *)
LEMMA NextType ==
  ASSUME TypeOK, StableRecorded, [Next]_vars
  PROVE  TypeOK'
<1>1. CASE StartReconcile
  <2>1. rec' \in LocalsType
    BY <1>1, LocalsAreTyped DEF StartReconcile, TypeOK
  <2>. QED
    BY <1>1, <2>1 DEF StartReconcile, TypeOK, api, env, hist
<1>2. CASE Do
  BY <1>2, DoType
<1>3. CASE SyncStatus
  <2>1. status' \in StatusType
    BY <1>3, RecType DEF SyncStatus, TypeOK, api
  <2>2. rec' \in LocalsType
    BY <1>3 DEF SyncStatus, TypeOK, LocalsType
  <2>3. faults' \in 0 .. MaxFaults
    <3>1. CASE faults' = faults
      BY <3>1 DEF TypeOK
    <3>2. CASE faults < MaxFaults /\ faults' = faults + 1
      BY <3>2, BoundAssumption DEF TypeOK
    <3>. QED
      BY <1>3, <3>1, <3>2 DEF SyncStatus, env
  <2>4. approved' \subseteq Nat /\ deployed' \subseteq Templates
    BY <1>3 DEF SyncStatus, TypeOK, hist
  <2>. QED
    BY <1>3, <2>1, <2>2, <2>3, <2>4 DEF SyncStatus, TypeOK, api, env
<1>4. CASE EndReconcile
  <2>1. rec' \in LocalsType
    BY <1>4, LocalsAreTyped DEF EndReconcile, TypeOK
  <2>. QED
    BY <1>4, <2>1 DEF EndReconcile, TypeOK, api, env, hist
<1>5. CASE UNCHANGED vars
  BY <1>5 DEF vars, TypeOK
<1>. QED
  BY <1>1, <1>2, <1>3, <1>4, <1>5, EnvironmentType DEF Next, Reconcile

(***************************************************************************)
(* A rollback has a version to go to                                       *)
(***************************************************************************)
(* What the executor leaves behind is Recorded when it changes only the    *)
(* status and stays out of later phases without a recorded version.        *)
LEMMA RecordedStatus ==
  ASSUME NEW b0 \in ReleaseType, NEW b1 \in ReleaseType, Recorded(b0), b1.anno = b0.anno,
         \/ b1.status.phase = b0.status.phase
         \/ b1.status.phase \in EarlyPhases
         \/ b0.anno.cur # None
  PROVE  Recorded(b1)
  BY DEF Recorded

(* An action that leaves the annotations, the persisted phase and the cache*)
(* alone need only leave a Recorded object in the executor's hands.        *)
LEMMA RecordedLocal ==
  ASSUME TypeOK, StableRecorded, UNCHANGED <<anno, cache>>,
         status'.phase = status.phase,
         Recorded(rec.br)', rec'.br.anno.cur = None \/ anno.cur # None
  PROVE  StableRecorded'
  BY DEF StableRecorded, Recorded, Current

(* Executor.init records the stable version before it leaves the early     *)
(* phases, and persists its other changes whether or not it fails.         *)
LEMMA InitReleaseRecorded ==
  ASSUME TypeOK, StableRecorded, NEW b0 \in ReleaseType, NEW target \in RollingPhases,
         Recorded(b0), b0.anno = rec.br.anno, InitRelease(b0, target)
  PROVE  StableRecorded'
<1>1. b0.anno.cur = None \/ anno.cur # None
  BY DEF StableRecorded
<1>2. ASSUME Fail(b0) \/ Fail(Restarted(b0)) PROVE StableRecorded'
  <2>1. Recorded(Restarted(b0)) /\ Restarted(b0).anno = b0.anno
    BY RestartedType, RestartedAnno, RecordedStatus
  <2>2. rec'.br = b0 \/ rec'.br = Restarted(b0)
    BY <1>2 DEF Fail, TypeOK, LocalsType
  <2>. QED
    BY <1>1, <1>2, <2>1, <2>2, RecordedLocal DEF Fail, api, Recorded
<1>3. CASE CaptureFence(b0)
  <2>1. /\ [b0 EXCEPT !.status.fence = rec.de.fence].anno = b0.anno
        /\ [b0 EXCEPT !.status.fence = rec.de.fence].status.phase = b0.status.phase
    BY DEF ReleaseType, StatusType
  <2>2. /\ rec'.br.anno = b0.anno
        /\ rec'.br.status.phase = b0.status.phase
    BY <1>3, <2>1 DEF CaptureFence, Return, TypeOK, LocalsType
  <2>. QED
    BY <1>1, <1>3, <2>2, RecordedLocal DEF CaptureFence, api, Recorded
<1>4. CASE RecordInitial(b0)
  <2>1. CASE Fail(b0)
    BY <1>2, <2>1
  <2>2. CASE ~Fail(b0)
    <3>1. rec'.br = b0
      BY <1>4, <2>2 DEF RecordInitial, Return, TypeOK, LocalsType
    <3>2. rec.de.template # None
      BY RecType, NoneAssumption DEF DeploymentType
    <3>3. anno'.cur # None /\ anno'.last # None
      BY <1>4, <2>2, <3>2 DEF RecordInitial, RecordStableVersion, TypeOK, AnnoType
    <3>. QED
      BY <1>4, <2>2, <3>1, <3>3 DEF RecordInitial, StableRecorded, Recorded, Current
  <2>. QED
    BY <2>1, <2>2
<1>5. CASE TakeOver(b0, target)
  <2>1. CASE Fail(Restarted(b0))
    BY <1>2, <2>1
  <2>2. CASE ~Fail(Restarted(b0))
    <3>1. rec'.br = [Restarted(b0) EXCEPT !.status.phase = target]
      BY <1>5, <2>2 DEF TakeOver, Return, TypeOK, LocalsType
    <3>2. rec'.br.anno = b0.anno
      BY <3>1, RestartedAnno DEF RollingPhases, Phases
    <3>3. b0.anno.cur # None
      BY <1>5 DEF TakeOver
    <3>. QED
      BY <1>1, <1>5, <2>2, <3>2, <3>3, RecordedLocal DEF TakeOver, Recorded
  <2>. QED
    BY <2>1, <2>2
<1>. QED
  BY <1>3, <1>4, <1>5 DEF InitRelease

(* Executor.preRollback leaves the recorded versions where they are.       *)
LEMMA PreRollbackRecorded ==
  ASSUME TypeOK, StableRecorded, NEW v \in Templates, PreRollback(rec.br, v)
  PROVE  StableRecorded'
<1>1. CASE RewriteSpec(rec.br, v)
  <2>1. rec'.br = rec.br
    BY <1>1 DEF RewriteSpec, Fail, Return, TypeOK, LocalsType
  <2>2. UNCHANGED <<anno, cache, status>>
    BY <1>1 DEF RewriteSpec, Fail, api
  <2>. QED
    BY <2>1, <2>2, RecordedLocal DEF StableRecorded, Recorded
<1>2. CASE InitRelease(rec.br, "RollingBack")
  BY <1>2, RecType, InitReleaseRecorded DEF RollingPhases, StableRecorded
<1>. QED
  BY <1>1, <1>2 DEF PreRollback

(* The executor's steps past init: what they return has the annotations of *)
(* what they read, and its phase is the old one or those are there.        *)
LEMMA ReturnRecorded ==
  ASSUME TypeOK, StableRecorded, NEW b1 \in ReleaseType, rec'.br = b1,
         b1.anno = rec.br.anno,
         \/ b1.status.phase = rec.br.status.phase
         \/ b1.status.phase \in EarlyPhases
         \/ rec.br.anno.cur # None,
         UNCHANGED <<anno, cache>>, status'.phase = status.phase
  PROVE  StableRecorded'
<1>1. Recorded(b1)
  BY RecType, RecordedStatus DEF StableRecorded
<1>. QED
  BY <1>1, RecordedLocal DEF StableRecorded, Recorded

(* Whatever handler of Executor.Do runs, a release outside the early phases *)
(* keeps both stable versions on record, in the store and in every copy.   *)
LEMMA DoRecorded ==
  ASSUME RecordInductive, Do
  PROVE  StableRecorded'
<1>. TypeOK /\ StableRecorded /\ RecordsLast
  BY DEF RecordInductive
<1>1. CASE HandlePodTemplateUpdate
  <2>. DEFINE b1 == [rec.br EXCEPT !.status.observed = Hash[rec.br.spec.template],
                                   !.status.phase = "Initial"]
  <2>1. b1 \in ReleaseType
    BY RecType, ChangeType
  <2>2. b1.anno = rec.br.anno /\ b1.status.phase \in EarlyPhases
    BY RecType DEF ReleaseType, StatusType, EarlyPhases
  <2>3. rec'.br = b1
    BY <1>1 DEF HandlePodTemplateUpdate, Return, TypeOK, LocalsType
  <2>. QED
    BY <1>1, <2>1, <2>2, <2>3, ReturnRecorded DEF HandlePodTemplateUpdate, api
<1>2. CASE PhaseInitial
  <2>. DEFINE b1 == [rec.br EXCEPT !.status.phase = "Initial"]
  <2>1. b1 \in ReleaseType
    BY RecType, ChangeType DEF Phases
  <2>2. b1.anno = rec.br.anno /\ b1.status.phase \in EarlyPhases
    BY RecType DEF ReleaseType, StatusType, EarlyPhases
  <2>3. Recorded(b1)
    BY <2>1, <2>2, RecType, RecordedStatus DEF StableRecorded
  <2>. QED
    BY <1>2, <2>1, <2>2, <2>3, InitReleaseRecorded DEF PhaseInitial, RollingPhases
<1>3. CASE RollbackWhileRolling
  <2>1. rec.br.anno.cur \in Templates
    BY <1>3, RecType DEF RollbackWhileRolling, InPhase, StableRecorded, Recorded,
                         EarlyPhases, AnnoType
  <2>. QED
    BY <1>3, <2>1, PreRollbackRecorded DEF RollbackWhileRolling
<1>4. CASE RollbackAfterCompletion
  <2>1. rec.br.anno.last \in Templates
    BY <1>4, RecType DEF RollbackAfterCompletion, InPhase, StableRecorded, Recorded,
                         EarlyPhases, AnnoType
  <2>. QED
    BY <1>4, <2>1, PreRollbackRecorded DEF RollbackAfterCompletion
<1>5. CASE RemoveRollbackMark
  <2>1. CASE Fail(rec.br)
    <3>1. rec'.br = rec.br
      BY <2>1 DEF Fail, TypeOK, LocalsType
    <3>. QED
      BY <2>1, <3>1, RecType, ReturnRecorded DEF Fail, api
  <2>2. CASE Fail([cache EXCEPT !.anno.rollback = FALSE])
    <3>1. rec'.br = [cache EXCEPT !.anno.rollback = FALSE]
      BY <2>2 DEF Fail, TypeOK, LocalsType
    <3>2. /\ rec'.br.anno.cur = cache.anno.cur /\ rec'.br.anno.last = cache.anno.last
          /\ rec'.br.status = cache.status
      BY <3>1 DEF TypeOK, ReleaseType, AnnoType
    <3>. QED
      BY <2>2, <3>2 DEF Fail, api, StableRecorded, Recorded, Current
  <2>3. CASE ~Fail(rec.br) /\ ~Fail([cache EXCEPT !.anno.rollback = FALSE])
    <3>1. rec'.br = [Current EXCEPT !.anno.rollback = FALSE]
      BY <1>5, <2>3 DEF RemoveRollbackMark, Return, TypeOK, LocalsType
    <3>2. /\ rec'.br.anno.cur = anno.cur /\ rec'.br.anno.last = anno.last
          /\ rec'.br.status = status
      BY <3>1, CurrentType DEF Current, TypeOK, AnnoType
    <3>3. anno'.cur = anno.cur /\ anno'.last = anno.last
      BY <1>5, <2>3 DEF RemoveRollbackMark, TypeOK, AnnoType
    <3>. QED
      BY <1>5, <2>3, <3>2, <3>3 DEF RemoveRollbackMark, StableRecorded, Recorded, Current
  <2>. QED
    BY <2>1, <2>2, <2>3
<1>6. ASSUME rec'.br.anno = rec.br.anno, rec'.br \in ReleaseType,
             \/ rec'.br.status.phase = rec.br.status.phase
             \/ rec.br.anno.cur # None,
             UNCHANGED <<anno, cache, status>>
      PROVE  StableRecorded'
  BY <1>6, ReturnRecorded
<1>7. TypeOK'
  BY DoType
<1>8. rec'.br \in ReleaseType
  BY <1>7 DEF TypeOK, LocalsType
<1>9. CASE NothingToDo \/ SyncScaling \/ StepInitial \/ StepUpgrade \/ StepBlocking
  <2>1. /\ rec'.br.anno = rec.br.anno
        /\ rec'.br.status.phase = rec.br.status.phase
    <3>1. CASE NothingToDo
      BY <3>1 DEF NothingToDo, Return, TypeOK, LocalsType
    <3>2. CASE SyncScaling
      <4>1. rec'.br = rec.br \/ rec'.br = [rec.br EXCEPT !.status.state = "Initial"]
        BY <3>2 DEF SyncScaling, Return, Fail, TypeOK, LocalsType
      <4>. QED
        BY <4>1, RecType, StateChange DEF StepStates
    <3>3. CASE StepInitial
      BY <3>3, RecType DEF StepInitial, Return, TypeOK, LocalsType, ReleaseType, StatusType
    <3>4. CASE StepUpgrade
      <4>1. rec'.br = rec.br \/ rec'.br = [rec.br EXCEPT !.status.state = "Blocking"]
        BY <3>4 DEF StepUpgrade, Return, TypeOK, LocalsType
      <4>. QED
        BY <4>1, RecType, StateChange DEF StepStates
    <3>5. CASE StepBlocking
      BY <3>5, RecType DEF StepBlocking, Return, TypeOK, LocalsType, ReleaseType, StatusType
    <3>. QED
      BY <1>9, <3>1, <3>2, <3>3, <3>4, <3>5
  <2>2. UNCHANGED <<anno, cache, status>>
    BY <1>9 DEF NothingToDo, SyncScaling, Return, StepInitial, StepUpgrade, StepBlocking, Fail, api
  <2>. QED
    BY <1>6, <1>8, <2>1, <2>2
<1>10. CASE StepUpgradePanics
  <2>1. rec'.br.anno = cache.anno /\ rec'.br.status.phase = cache.status.phase
    BY <1>10 DEF StepUpgradePanics, Locals, TypeOK, ReleaseType, StatusType
  <2>. QED
    BY <1>10, <2>1 DEF StepUpgradePanics, api, StableRecorded, Recorded, Current
<1>11. CASE StepCompleted
  <2>1. rec.br.anno.cur # None
    BY <1>11 DEF StepCompleted, InStep, Rolling, InPhase, StableRecorded, Recorded, EarlyPhases
  <2>2. rec'.br.anno = rec.br.anno
    BY <1>11, RecType DEF StepCompleted, Return, TypeOK, LocalsType, ReleaseType
  <2>. QED
    BY <1>6, <1>8, <1>11, <2>1, <2>2 DEF StepCompleted, api
<1>12. CASE FinalizeDeployment
  <2>1. rec'.br = rec.br
    BY <1>12 DEF FinalizeDeployment, Fail, TypeOK, LocalsType
  <2>. QED
    BY <1>6, <1>8, <1>12, <2>1 DEF FinalizeDeployment, Fail, api
<1>13. CASE FinalizeRecord
  <2>1. rec.br.anno.cur # None
    BY <1>13 DEF FinalizeRecord, RecordsLast, StableRecorded, Recorded, EarlyPhases
  <2>2. rec'.br.anno = rec.br.anno
    BY <1>13, RecType DEF FinalizeRecord, Return, Fail, TypeOK, LocalsType, ReleaseType
  <2>3. UNCHANGED <<status, cache>>
    BY <1>13 DEF FinalizeRecord, Fail, api
  <2>4. CASE anno' = anno
    BY <1>6, <1>8, <2>1, <2>2, <2>3, <2>4
  <2>5. CASE RecordStableVersion(rec.br.anno, rec.br.spec.template)
    <3>1. rec.br.spec.template # None
      BY RecType, NoneAssumption DEF SpecType
    <3>2. anno'.cur # None /\ anno'.last # None
      BY <2>1, <2>5, <3>1 DEF RecordStableVersion, TypeOK, AnnoType
    <3>3. Recorded(rec'.br)
      BY <2>1, <2>2 DEF StableRecorded, Recorded
    <3>. QED
      BY <2>3, <3>2, <3>3 DEF StableRecorded, Recorded, Current
  <2>. QED
    BY <1>13, <2>4, <2>5 DEF FinalizeRecord, Fail, api
<1>. QED
  BY <1>1, <1>2, <1>3, <1>4, <1>5, <1>9, <1>10, <1>11, <1>12, <1>13 DEF Do

(* The inductive invariant behind TypeCorrect and RollbackTarget holds     *)
(* after every step.                                                       *)
LEMMA NextRecorded ==
  ASSUME RecordInductive, [Next]_vars
  PROVE  RecordInductive'
<1>. TypeOK /\ StableRecorded /\ RecordsLast
  BY DEF RecordInductive
<1>1. TypeOK'
  BY NextType
<1>2. RecordsLast'
  <2>1. CASE FinalizeDeployment
    BY <2>1 DEF FinalizeDeployment, InPhase, Fail, RecordsLast, TypeOK, LocalsType
  <2>2. CASE pc' # "record"
    BY <2>2 DEF RecordsLast
  <2>3. CASE UNCHANGED <<pc, rec>>
    BY <2>3 DEF RecordsLast
  <2>4. ASSUME NEW b0, NEW target, InitRelease(b0, target) PROVE pc' # "record"
    BY <2>4 DEF InitRelease, CaptureFence, RecordInitial, TakeOver, Return, Fail
  <2>5. ASSUME NEW v, PreRollback(rec.br, v) PROVE pc' # "record"
    BY <2>4, <2>5 DEF PreRollback, RewriteSpec, Return, Fail
  <2>6. CASE Do /\ ~FinalizeDeployment
    <3>. pc' # "record"
      BY <2>4, <2>5, <2>6
      DEF Do, HandlePodTemplateUpdate, PhaseInitial, RollbackWhileRolling,
          RollbackAfterCompletion, RemoveRollbackMark, NothingToDo, SyncScaling, StepInitial,
          StepUpgrade, StepUpgradePanics, StepBlocking, StepCompleted, FinalizeRecord,
          Return, Fail
    <3>. QED
      BY <2>2
  <2>7. CASE StartReconcile \/ SyncStatus \/ EndReconcile \/ Crash
    BY <2>2, <2>7 DEF StartReconcile, SyncStatus, EndReconcile, Crash
  <2>8. CASE \/ DeliverBatchRelease \/ PodsReady \/ DeploymentControllerScales \/ User
             \/ UNCHANGED vars
    BY <2>3, <2>8 DEF DeliverBatchRelease, PodsReady, DeploymentControllerScales, User,
      UserApprove, UserReleases, UserReplans, UserRollsBack, UserCancelsRollback, UserScales, vars
  <2>. QED
    BY <2>1, <2>6, <2>7, <2>8 DEF Next, Reconcile
<1>3. StableRecorded'
  <2>1. CASE Do
    BY <2>1, DoRecorded
  <2>2. CASE StartReconcile \/ EndReconcile \/ Crash
    <3>1. \/ rec'.br.anno = cache.anno /\ rec'.br.status.phase = cache.status.phase
          \/ rec'.br.anno = anno /\ rec'.br.status.phase = status.phase
      <4>1. \A b0 \in ReleaseType, d0 \in DeploymentType :
              /\ Locals(b0, d0).br.anno = b0.anno
              /\ Locals(b0, d0).br.status.phase = b0.status.phase
        BY DEF Locals, ReleaseType, StatusType
      <4>2. rec' = Locals(cache, de) \/ rec' = Locals(Current, de)
        BY <2>2 DEF StartReconcile, EndReconcile, Crash
      <4>3. Current.anno = anno /\ Current.status = status
        BY DEF Current
      <4>. QED
        BY <4>1, <4>2, <4>3, CurrentType DEF TypeOK
    <3>2. UNCHANGED <<anno, status>> /\ (cache' = cache \/ cache' = Current)
      BY <2>2 DEF StartReconcile, EndReconcile, Crash, api
    <3>. QED
      BY <3>1, <3>2 DEF StableRecorded, Recorded, Current
  <2>3. CASE SyncStatus
    <3>1. UNCHANGED <<anno, cache>> /\ rec'.br = rec.br
      BY <2>3 DEF SyncStatus, api, TypeOK, LocalsType
    <3>2. status' = status \/ status' = rec.br.status
      BY <2>3 DEF SyncStatus, api
    <3>. QED
      BY <3>1, <3>2 DEF StableRecorded, Recorded, Current
  <2>4. CASE DeliverBatchRelease
    BY <2>4 DEF DeliverBatchRelease, api, StableRecorded, Recorded, Current
  <2>5. CASE PodsReady \/ DeploymentControllerScales \/ User \/ UNCHANGED vars
    <3>1. UNCHANGED <<rec, cache>>
      BY <2>5 DEF PodsReady, DeploymentControllerScales, User, UserApprove, UserReleases,
        UserReplans, UserRollsBack, UserCancelsRollback, UserScales, vars
    <3>2. status'.phase = status.phase
      BY <2>5 DEF PodsReady, DeploymentControllerScales, User, UserApprove, UserReleases,
        UserReplans, UserRollsBack, UserCancelsRollback, UserScales, vars, api, TypeOK, StatusType
    <3>3. anno'.cur = anno.cur /\ anno'.last = anno.last
      BY <2>5 DEF PodsReady, DeploymentControllerScales, User, UserApprove, UserReleases,
        UserReplans, UserRollsBack, UserCancelsRollback, UserScales, vars, api, TypeOK, AnnoType
    <3>. QED
      BY <3>1, <3>2, <3>3 DEF StableRecorded, Recorded, Current
  <2>. QED
    BY <2>1, <2>2, <2>3, <2>4, <2>5 DEF Next, Reconcile
<1>. QED
  BY <1>1, <1>2, <1>3 DEF RecordInductive

(* It holds of a BatchRelease that has just been created.                  *)
LEMMA InitRecorded ==
  ASSUME Init
  PROVE  RecordInductive
<1>1. spec \in SpecType /\ de \in DeploymentType
  BY PlanAssumption DEF Init, SpecType, DeploymentType
<1>2. anno \in AnnoType /\ status \in StatusType
  BY DEF Init, AnnoType, StatusType, Phases, StepStates
<1>3. Current \in ReleaseType
  BY <1>1, <1>2 DEF Current, ReleaseType
<1>4. rec \in LocalsType
  BY <1>1, <1>3, LocalsAreTyped DEF Init
<1>5. TypeOK
  <2>1. 0 \in 0 .. MaxEdits /\ 0 \in 0 .. MaxScales /\ 0 \in 0 .. MaxFaults
    BY BoundAssumption
  <2>2. deployed \subseteq Templates
    BY <1>1 DEF Init, DeploymentType
  <2>. QED
    BY <1>1, <1>2, <1>3, <1>4, <2>1, <2>2 DEF Init, TypeOK
<1>6. Recorded(Current) /\ cache = Current
  BY DEF Init, Recorded, Current, EarlyPhases
<1>7. rec.br.anno = cache.anno /\ rec.br.status.phase = cache.status.phase
  BY <1>3 DEF Init, Locals, ReleaseType, StatusType
<1>. QED
  BY <1>5, <1>6, <1>7 DEF RecordInductive, StableRecorded, RecordsLast, Recorded, Current, Init

(* Everything the controller and its users store has the type the API      *)
(* gives it, in every run: Reconcile stores no template that is not there. *)
THEOREM TypeCorrect == Spec => []TypeOK
<1>1. Init => RecordInductive
  BY InitRecorded
<1>2. RecordInductive /\ [Next]_vars => RecordInductive'
  BY NextRecorded
<1>3. RecordInductive => TypeOK
  BY DEF RecordInductive
<1>. QED
  BY <1>1, <1>2, <1>3, PTL DEF Spec

(* A rollback always finds both stable versions: preRollback never writes  *)
(* an empty template into the spec.                                        *)
THEOREM RollbackTarget == Spec => []RollbackHasTarget
<1>1. Init => RecordInductive
  BY InitRecorded
<1>2. RecordInductive /\ [Next]_vars => RecordInductive'
  BY NextRecorded
<1>3. RecordInductive => RollbackHasTarget
  BY DEF RecordInductive, RollbackHasTarget, StableRecorded, Recorded, Current
<1>. QED
  BY <1>1, <1>2, <1>3, PTL DEF Spec

(***************************************************************************)
(* The Deployment stays paused while batches roll                          *)
(***************************************************************************)
(* Executor.init pauses the Deployment before it asks for a rolling phase. *)
LEMMA InitReleasePaused ==
  ASSUME TypeOK, PausedInductive, pc = "do", NEW b0 \in ReleaseType,
         NEW target \in RollingPhases, InitRelease(b0, target),
         b0.status.phase \in EarlyPhases \cup {status.phase}
  PROVE  PausedInductive'
<1>1. status' = status /\ rec'.old = rec.old /\ pc' = "status"
  BY DEF InitRelease, CaptureFence, RecordInitial, TakeOver, Return, Fail, api, TypeOK, LocalsType
<1>2. CASE TakeOver(b0, target) /\ ~Fail(Restarted(b0))
  <2>1. TakenOver'
    BY <1>2 DEF TakeOver, TakenOver
  <2>. QED
    BY <1>1, <2>1 DEF PausedInductive, PausedWhileRolling, TakenOver
<1>3. CASE ~(TakeOver(b0, target) /\ ~Fail(Restarted(b0)))
  <2>1. de' = de
    BY <1>3 DEF InitRelease, CaptureFence, RecordInitial, Fail, api
  <2>2. rec'.br.status.phase = b0.status.phase
    <3>1. \/ rec'.br = b0
          \/ rec'.br = Restarted(b0)
          \/ rec'.br = [b0 EXCEPT !.status.fence = rec.de.fence]
      BY <1>3 DEF InitRelease, CaptureFence, RecordInitial, Return, Fail, TypeOK, LocalsType
    <3>2. [b0 EXCEPT !.status.fence = rec.de.fence].status.phase = b0.status.phase
      BY DEF ReleaseType, StatusType
    <3>. QED
      BY <3>1, <3>2, RestartedType
  <2>. QED
    BY <1>1, <2>1, <2>2
    DEF PausedInductive, PausedWhileRolling, TakenOver, EarlyPhases, RollingPhases
<1>. QED
  BY <1>2, <1>3

(* A step of the executor that leaves the persisted phase and the          *)
(* Deployment alone and does not return with another rolling phase.        *)
LEMMA QuietPaused ==
  ASSUME TypeOK, PausedInductive, pc = "do", UNCHANGED <<status, de>>, rec'.old = rec.old,
         pc' = "status" \/ pc' = "idle",
         pc' = "status" => rec'.br.status.phase \in
           {"Initial", "Finalizing", "Completed", status.phase}
  PROVE  PausedInductive'
  BY DEF PausedInductive, PausedWhileRolling, TakenOver, RollingPhases

(* Executor.preRollback pauses the Deployment, by Executor.init, before it *)
(* asks for RollingBack.                                                   *)
LEMMA PreRollbackPaused ==
  ASSUME TypeOK, PausedInductive, pc = "do", NEW v, PreRollback(rec.br, v)
  PROVE  PausedInductive'
<1>1. CASE RewriteSpec(rec.br, v)
  <2>1. /\ UNCHANGED <<status, de>> /\ rec'.old = rec.old
        /\ rec'.br = rec.br /\ pc' = "status"
    BY <1>1 DEF RewriteSpec, Return, Fail, api, TypeOK, LocalsType
  <2>. QED
    BY <2>1, QuietPaused DEF PausedInductive
<1>2. CASE InitRelease(rec.br, "RollingBack")
  BY <1>2, RecType, InitReleasePaused DEF RollingPhases, PausedInductive
<1>. QED
  BY <1>1, <1>2 DEF PreRollback

(* Whatever handler runs, the Deployment is taken over when the phase the  *)
(* reconcile is going to write is a rolling one.                           *)
LEMMA DoPaused ==
  ASSUME TypeOK, RecordsLast, PausedInductive, Do
  PROVE  PausedInductive'
<1>1. CASE HandlePodTemplateUpdate
  <2>1. [rec.br EXCEPT !.status.observed = Hash[rec.br.spec.template],
                       !.status.phase = "Initial"].status.phase = "Initial"
    BY RecType DEF ReleaseType, StatusType
  <2>. QED
    BY <1>1, <2>1, QuietPaused
    DEF HandlePodTemplateUpdate, Return, api, TypeOK, LocalsType
<1>2. CASE PhaseInitial
  <2>. DEFINE b1 == [rec.br EXCEPT !.status.phase = "Initial"]
  <2>1. b1 \in ReleaseType
    BY RecType, ChangeType DEF Phases
  <2>2. b1.status.phase \in EarlyPhases
    BY RecType DEF ReleaseType, StatusType, EarlyPhases
  <2>. QED
    BY <1>2, <2>1, <2>2, InitReleasePaused DEF PhaseInitial, InPhase, RollingPhases
<1>3. CASE RollbackWhileRolling \/ RollbackAfterCompletion
  BY <1>3, PreRollbackPaused DEF RollbackWhileRolling, RollbackAfterCompletion, InPhase
<1>4. CASE RemoveRollbackMark
  <2>1. UNCHANGED <<status, de>> /\ rec'.old = rec.old /\ pc = "do" /\ pc' = "status"
    BY <1>4 DEF RemoveRollbackMark, InPhase, Return, Fail, api, TypeOK, LocalsType
  <2>2. TakenOver
    BY <1>4 DEF RemoveRollbackMark, InPhase, PausedInductive, PausedWhileRolling, TakenOver,
                RollingPhases
  <2>. QED
    BY <2>1, <2>2 DEF PausedInductive, PausedWhileRolling, TakenOver
<1>5. CASE NothingToDo \/ SyncScaling \/ StepInitial \/ StepUpgrade \/ StepBlocking
  <2>1. rec'.br.status.phase = rec.br.status.phase
    <3>1. CASE NothingToDo
      BY <3>1 DEF NothingToDo, Return, TypeOK, LocalsType
    <3>2. CASE SyncScaling
      <4>1. rec'.br = rec.br \/ rec'.br = [rec.br EXCEPT !.status.state = "Initial"]
        BY <3>2 DEF SyncScaling, Return, Fail, TypeOK, LocalsType
      <4>. QED
        BY <4>1, RecType, StateChange DEF StepStates
    <3>3. CASE StepInitial
      BY <3>3, RecType, StateChange DEF StepInitial, Return, TypeOK, LocalsType, StepStates
    <3>4. CASE StepUpgrade
      <4>1. rec'.br = rec.br \/ rec'.br = [rec.br EXCEPT !.status.state = "Blocking"]
        BY <3>4 DEF StepUpgrade, Return, TypeOK, LocalsType
      <4>. QED
        BY <4>1, RecType, StateChange DEF StepStates
    <3>5. CASE StepBlocking
      BY <3>5, RecType DEF StepBlocking, Return, TypeOK, LocalsType, ReleaseType, StatusType
    <3>. QED
      BY <1>5, <3>1, <3>2, <3>3, <3>4, <3>5
  <2>2. /\ pc = "do" /\ pc' = "status"
        /\ UNCHANGED <<status, de>> /\ rec'.old = rec.old
    BY <1>5 DEF NothingToDo, SyncScaling, StepInitial, StepUpgrade, StepBlocking, InStep, Rolling,
                InPhase, Return, Fail, api, TypeOK, LocalsType
  <2>. QED
    BY <2>1, <2>2, QuietPaused DEF PausedInductive
<1>6. CASE StepUpgradePanics
  BY <1>6 DEF StepUpgradePanics, api, PausedInductive, PausedWhileRolling, TakenOver
<1>7. CASE StepCompleted
  <2>1. /\ [rec.br EXCEPT !.status.phase = "Finalizing"].status.phase = "Finalizing"
        /\ [rec.br EXCEPT !.status.idx = @ + 1,
                          !.status.state = "Initial"].status.phase = rec.br.status.phase
    BY RecType DEF ReleaseType, StatusType
  <2>2. rec'.br.status.phase \in {"Finalizing", rec.br.status.phase}
    BY <1>7, <2>1 DEF StepCompleted, Return, TypeOK, LocalsType
  <2>3. /\ pc = "do" /\ pc' = "status"
        /\ UNCHANGED <<status, de>> /\ rec'.old = rec.old
    BY <1>7 DEF StepCompleted, InStep, Rolling, InPhase, Return, api, TypeOK, LocalsType
  <2>. QED
    BY <2>2, <2>3, QuietPaused DEF PausedInductive
<1>8. CASE FinalizeDeployment
  <2>1. pc = "do" /\ status.phase = "Finalizing" /\ rec.br.status.phase = "Finalizing"
    BY <1>8 DEF FinalizeDeployment, InPhase, PausedInductive
  <2>2. UNCHANGED status /\ rec'.old = rec.old /\ rec'.br = rec.br /\ pc' \in {"record", "status"}
    BY <1>8 DEF FinalizeDeployment, Fail, api, TypeOK, LocalsType
  <2>. QED
    BY <2>1, <2>2 DEF PausedInductive, PausedWhileRolling, RollingPhases
<1>9. CASE FinalizeRecord
  <2>1. [rec.br EXCEPT !.status.phase = "Completed"].status.phase = "Completed"
    BY RecType DEF ReleaseType, StatusType
  <2>2. rec'.br.status.phase \in {"Completed", "Finalizing"}
    BY <1>9, <2>1 DEF FinalizeRecord, Return, Fail, RecordsLast, TypeOK, LocalsType
  <2>3. UNCHANGED <<status, de>> /\ rec'.old = rec.old /\ pc = "record" /\ pc' = "status"
    BY <1>9 DEF FinalizeRecord, Return, Fail, api, TypeOK, LocalsType
  <2>. QED
    BY <2>2, <2>3 DEF PausedInductive, PausedWhileRolling, RollingPhases
<1>. QED
  BY <1>1, <1>2, <1>3, <1>4, <1>5, <1>6, <1>7, <1>8, <1>9 DEF Do

(* The inductive invariant behind Paused holds after every step.           *)
LEMMA NextPaused ==
  ASSUME StaleReads = FALSE, TypeOK, RecordsLast, PausedInductive, [Next]_vars
  PROVE  PausedInductive'
<1>1. CASE Do
  BY <1>1, DoPaused
<1>2. CASE StartReconcile
  <2>1. cache.status = status
    BY <1>2 DEF StartReconcile, CacheFresh, Current
  <2>2. rec'.old.status = status /\ rec'.br.status.phase = status.phase /\ pc' = "do"
    BY <1>2, <2>1 DEF StartReconcile, Locals, TypeOK, ReleaseType, StatusType
  <2>. QED
    BY <1>2, <2>2 DEF StartReconcile, api, PausedInductive, PausedWhileRolling, TakenOver
<1>3. CASE SyncStatus
  <2>1. pc = "status" /\ pc' = "end" /\ de' = de /\ (status' = status \/ status' = rec.br.status)
    BY <1>3 DEF SyncStatus, api
  <2>. QED
    BY <2>1 DEF PausedInductive, PausedWhileRolling, TakenOver
<1>4. CASE EndReconcile \/ Crash
  BY <1>4 DEF EndReconcile, Crash, api, PausedInductive, PausedWhileRolling
<1>5. CASE \/ DeliverBatchRelease \/ PodsReady \/ DeploymentControllerScales \/ User
           \/ UNCHANGED vars
  <2>1. UNCHANGED <<pc, rec, de>>
    BY <1>5 DEF DeliverBatchRelease, PodsReady, DeploymentControllerScales, User, UserApprove,
      UserReleases, UserReplans, UserRollsBack, UserCancelsRollback, UserScales, vars, api
  <2>2. status'.phase = status.phase
    BY <1>5 DEF DeliverBatchRelease, PodsReady, DeploymentControllerScales, User, UserApprove,
      UserReleases, UserReplans, UserRollsBack, UserCancelsRollback, UserScales, vars, api,
      TypeOK, StatusType
  <2>. QED
    BY <2>1, <2>2 DEF PausedInductive, PausedWhileRolling, TakenOver
<1>. QED
  BY <1>1, <1>2, <1>3, <1>4, <1>5 DEF Next, Reconcile

(* When a reconcile begins with the current version of the BatchRelease,   *)
(* the Deployment is paused and carries the control info throughout the    *)
(* rolling phases, whatever users do and whatever fails in between.        *)
THEOREM Paused == ASSUME StaleReads = FALSE PROVE Spec => []PausedWhileRolling
<1>1. Init => RecordInductive /\ PausedInductive
  <2>. SUFFICES ASSUME Init PROVE RecordInductive /\ PausedInductive
    OBVIOUS
  <2>1. status.phase = ""
    BY DEF Init
  <2>2. pc = "idle"
    BY DEF Init
  <2>. QED
    BY <2>1, <2>2, InitRecorded DEF PausedInductive, PausedWhileRolling, RollingPhases
<1>2. RecordInductive /\ PausedInductive /\ [Next]_vars => RecordInductive' /\ PausedInductive'
  BY NextRecorded, NextPaused DEF RecordInductive
<1>3. PausedInductive => PausedWhileRolling
  BY DEF PausedInductive
<1>. QED
  BY <1>1, <1>2, <1>3, PTL DEF Spec
=============================================================================
