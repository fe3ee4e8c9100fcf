------------------------ MODULE ReleaseProtocolProofs ------------------------
(***************************************************************************)
(* ReleaseLifecycle implements ReleaseProtocol, for all templates, hashes, *)
(* plans and bounds, when reconciles begin with the current version of the *)
(* BatchRelease.                                                           *)
(***************************************************************************)
EXTENDS ReleaseLifecycleProofs

(* What a step is to those who watch.                                      *)
Allowed == Protocol!Next \/ UNCHANGED Protocol!vars

(* A change of the executor's copy changes what it names and no more.      *)
LEMMA StatusFields ==
  ASSUME NEW b0 \in ReleaseType
  PROVE  /\ \A p : LET n == [b0 EXCEPT !.status.phase = p].status
                   IN As(n, p, b0.status.idx, b0.status.state) /\ n.fence = b0.status.fence
         /\ \A p : LET n == [b0 EXCEPT !.status.state = p].status
                   IN As(n, b0.status.phase, b0.status.idx, p)
         /\ \A p : LET n == [b0 EXCEPT !.status.fence = p].status
                   IN As(n, b0.status.phase, b0.status.idx, b0.status.state)
         /\ \A p : LET n == [b0 EXCEPT !.status.reason = p].status
                   IN /\ As(n, b0.status.phase, b0.status.idx, b0.status.state)
                      /\ n.fence = b0.status.fence
         /\ As([b0 EXCEPT !.status.idx = @ + 1, !.status.state = "Initial"].status,
               b0.status.phase, b0.status.idx + 1, "Initial")
         /\ \A p, q : As([b0 EXCEPT !.status.observed = p, !.status.phase = q].status,
                         q, b0.status.idx, b0.status.state)
         /\ As(Restarted(b0).status, b0.status.phase, 0, "")
         /\ \A p : As([Restarted(b0) EXCEPT !.status.phase = p].status, p, 0, "")
  BY DEF As, ReleaseType, StatusType, Restarted

(* A handler that returns to the status write with one of the few things   *)
(* it may have made of the status keeps the invariant.                     *)
LEMMA HandlerEnds ==
  ASSUME ProtocolInductive, UNCHANGED <<status, cache>>, rec'.old = rec.old,
         pc \in {"do", "record"}, pc' = "status",
         Ends(rec'.br.status), Handled(rec.old.status, rec.br.status)'
  PROVE  ProtocolInductive'
  BY DEF ProtocolInductive

(* One that leaves the status the way it found it does so, and is not seen.*)
LEMMA QuietHandler ==
  ASSUME ProtocolInductive, UNCHANGED <<status, cache, de>>, rec'.old = rec.old,
         pc = "do", pc' = "status",
         As(rec'.br.status, rec.br.status.phase, rec.br.status.idx, rec.br.status.state),
         rec'.br.status.phase # ""
  PROVE  ProtocolInductive' /\ Allowed
<1>1. Handled(rec.old.status, rec.br.status)' /\ Ends(rec'.br.status)
  BY DEF Handled, MayBe, ProtocolInductive, As, Ends
<1>2. UNCHANGED Protocol!vars
  BY DEF Protocol!vars
<1>. QED
  BY <1>1, <1>2, HandlerEnds DEF Allowed

(* Executor.init holds the Deployment when it begins the batches, and      *)
(* otherwise prepares or forgets.                                          *)
LEMMA InitReleaseProtocol ==
  ASSUME TypeOK, PausedInductive, ProtocolInductive, pc = "do",
         NEW b0 \in ReleaseType, NEW target \in RollingPhases, InitRelease(b0, target),
         b0.status.idx = rec.old.status.idx, b0.status.state = rec.old.status.state,
         b0.status.fence = rec.old.status.fence,
         \/ /\ b0.status.phase = "Initial"
            /\ rec.old.status.phase \in EarlyPhases
            /\ target = "RollingUpdate"
         \/ /\ b0.status.phase = rec.old.status.phase
            /\ rec.old.status.phase \in {"RollingUpdate", "Completed"}
            /\ target = "RollingBack"
  PROVE  ProtocolInductive' /\ Allowed
<1>. DEFINE o == rec.old.status
<1>1. UNCHANGED <<status, cache>> /\ rec'.old = rec.old /\ pc' = "status"
  BY DEF InitRelease, CaptureFence, RecordInitial, TakeOver, Return, Fail, api, TypeOK, LocalsType
<1>2. CASE CaptureFence(b0) \/ RecordInitial(b0)
  <2>1. de' = de
    BY <1>2 DEF CaptureFence, RecordInitial, Fail, api
  <2>2. rec'.br = b0 \/ rec'.br = [b0 EXCEPT !.status.fence = rec.de.fence]
    BY <1>2 DEF CaptureFence, RecordInitial, Return, Fail, TypeOK, LocalsType
  <2>3. As(rec'.br.status, b0.status.phase, o.idx, o.state)
    <3>1. As([b0 EXCEPT !.status.fence = rec.de.fence].status,
             b0.status.phase, b0.status.idx, b0.status.state)
      BY StatusFields
    <3>. QED
      BY <2>2, <3>1 DEF As
  <2>4. Handled(rec.old.status, rec.br.status)' /\ Ends(rec'.br.status)
    BY <1>1, <2>3 DEF Handled, MayBe, As, Ends, EarlyPhases
  <2>. QED
    BY <1>1, <2>1, <2>4, HandlerEnds DEF Allowed, Protocol!vars
<1>3. CASE TakeOver(b0, target)
  <2>1. o.phase # ""
    BY <1>3 DEF TakeOver, ProtocolInductive, Ends
  <2>2. CASE Fail(Restarted(b0))
    <3>1. de' = de /\ rec'.br = Restarted(b0)
      BY <2>2 DEF Fail, api, TypeOK, LocalsType
    <3>2. As(rec'.br.status, o.phase, 0, "")
      <4>1. As(Restarted(b0).status, b0.status.phase, 0, "")
        BY StatusFields
      <4>2. b0.status.phase = o.phase
        BY <2>1 DEF EarlyPhases
      <4>. QED
        BY <3>1, <4>1, <4>2
    <3>3. Handled(rec.old.status, rec.br.status)' /\ Ends(rec'.br.status)
      BY <1>1, <2>1, <3>2 DEF Handled, As, Ends, EarlyPhases
    <3>. QED
      BY <1>1, <3>1, <3>3, HandlerEnds DEF Allowed, Protocol!vars
  <2>3. CASE ~Fail(Restarted(b0))
    <3>1. TakenOver' /\ rec'.br = [Restarted(b0) EXCEPT !.status.phase = target]
      BY <1>3, <2>3 DEF TakeOver, TakenOver, Return, TypeOK, LocalsType
    <3>2. As(rec'.br.status, target, 0, "")
      BY <3>1, StatusFields
    <3>3. Handled(rec.old.status, rec.br.status)' /\ Ends(rec'.br.status)
      BY <1>1, <2>1, <3>2 DEF Handled, As, Ends, EarlyPhases
    <3>4. status.phase = o.phase
      BY DEF ProtocolInductive, MayBe
    <3>5. CASE status.phase = "RollingUpdate"
      <4>1. TakenOver
        BY <3>5 DEF PausedInductive, PausedWhileRolling, TakenOver, RollingPhases
      <4>2. UNCHANGED Protocol!vars
        BY <1>1, <3>1, <4>1 DEF Protocol!vars, TakenOver
      <4>. QED
        BY <1>1, <3>3, <4>2, HandlerEnds DEF Allowed
    <3>6. CASE status.phase \in {"Initial", "Completed"}
      <4>1. Protocol!Hold
        BY <1>1, <3>1, <3>6 DEF Protocol!Hold, TakenOver
      <4>. QED
        BY <1>1, <3>3, <4>1, HandlerEnds DEF Allowed, Protocol!Next
    <3>. QED
      BY <2>1, <3>4, <3>5, <3>6 DEF EarlyPhases
  <2>. QED
    BY <2>2, <2>3
<1>. QED
  BY <1>2, <1>3 DEF InitRelease

(* A handler of the step machine makes one step of it, or none.            *)
LEMMA StepHandler ==
  ASSUME ProtocolInductive, UNCHANGED <<status, cache, de>>, rec'.old = rec.old,
         pc = "do", pc' = "status", rec.br.status.phase \in RollingPhases,
         \/ MayBe(rec.old.status, rec'.br.status)
         \/ Stepped(rec.old.status, rec'.br.status)
  PROVE  ProtocolInductive' /\ Allowed
<1>1. rec.old.status.phase \in RollingPhases
  BY DEF ProtocolInductive, As
<1>2. Handled(rec.old.status, rec.br.status)'
  BY DEF Handled, MayBe, Stepped, As, RollingPhases
<1>3. Ends(rec'.br.status)
  BY <1>1 DEF Ends, MayBe, Stepped, As, RollingPhases
<1>4. UNCHANGED Protocol!vars
  BY DEF Protocol!vars
<1>. QED
  BY <1>2, <1>3, <1>4, HandlerEnds DEF Allowed

(* So does Executor.preRollback, which calls it for RollingBack.           *)
LEMMA PreRollbackProtocol ==
  ASSUME TypeOK, PausedInductive, ProtocolInductive, pc = "do", NEW v,
         rec.br.status.phase \in {"RollingUpdate", "Completed"}, PreRollback(rec.br, v)
  PROVE  ProtocolInductive' /\ Allowed
<1>1. CASE RewriteSpec(rec.br, v)
  <2>1. /\ UNCHANGED <<status, de, cache>> /\ rec'.old = rec.old
        /\ rec'.br = rec.br /\ pc' = "status"
    BY <1>1 DEF RewriteSpec, Return, Fail, api, TypeOK, LocalsType
  <2>. QED
    BY <2>1, QuietHandler DEF As
<1>2. CASE InitRelease(rec.br, "RollingBack")
  <2>1. /\ rec.br.status.idx = rec.old.status.idx
        /\ rec.br.status.state = rec.old.status.state
        /\ rec.br.status.fence = rec.old.status.fence
        /\ rec.br.status.phase = rec.old.status.phase
    BY DEF ProtocolInductive, As
  <2>2. rec.br \in ReleaseType /\ "RollingBack" \in RollingPhases
    BY RecType DEF RollingPhases
  <2>. QED
    BY <1>2, <2>1, <2>2, InitReleaseProtocol
<1>. QED
  BY <1>1, <1>2 DEF PreRollback

(* Whatever handler runs, the Deployment is held or given back as the      *)
(* protocol says, and the status to be written is one it allows.           *)
LEMMA DoProtocol ==
  ASSUME TypeOK, RecordsLast, PausedInductive, ProtocolInductive, Do
  PROVE  ProtocolInductive' /\ Allowed
<1>. DEFINE o == rec.old.status
<1>0. pc = "do" => As(rec.br.status, o.phase, o.idx, o.state)
  BY DEF ProtocolInductive
<1>1. CASE HandlePodTemplateUpdate
  <2>1. /\ UNCHANGED <<status, cache, de>> /\ rec'.old = rec.old /\ pc = "do" /\ pc' = "status"
        /\ rec'.br = [rec.br EXCEPT !.status.observed = Hash[rec.br.spec.template],
                                    !.status.phase = "Initial"]
    BY <1>1 DEF HandlePodTemplateUpdate, Return, api, TypeOK, LocalsType
  <2>2. As(rec'.br.status, "Initial", o.idx, o.state)
    <3>1. As([rec.br EXCEPT !.status.observed = Hash[rec.br.spec.template],
                            !.status.phase = "Initial"].status,
             "Initial", rec.br.status.idx, rec.br.status.state)
      BY RecType, StatusFields
    <3>. QED
      BY <1>0, <2>1, <3>1 DEF As
  <2>3. Handled(rec.old.status, rec.br.status)' /\ Ends(rec'.br.status)
    BY <2>1, <2>2 DEF Handled, As, Ends
  <2>. QED
    BY <2>1, <2>3, HandlerEnds DEF Allowed, Protocol!vars
<1>2. CASE PhaseInitial
  <2>. DEFINE b1 == [rec.br EXCEPT !.status.phase = "Initial"]
  <2>1. b1 \in ReleaseType
    BY RecType, ChangeType DEF Phases
  <2>2. As(b1.status, "Initial", rec.br.status.idx, rec.br.status.state)
          /\ b1.status.fence = rec.br.status.fence
    BY RecType, StatusFields
  <2>3. pc = "do" /\ InitRelease(b1, "RollingUpdate") /\ rec.br.status.phase \in EarlyPhases
    BY <1>2 DEF PhaseInitial, InPhase, EarlyPhases
  <2>4. /\ b1.status.idx = o.idx /\ b1.status.state = o.state
        /\ b1.status.fence = o.fence /\ b1.status.phase = "Initial" /\ o.phase \in EarlyPhases
    BY <1>0, <2>2, <2>3 DEF As, ProtocolInductive
  <2>5. "RollingUpdate" \in RollingPhases
    BY DEF RollingPhases
  <2>. HIDE DEF b1, o
  <2>. QED
    BY <2>1, <2>3, <2>4, <2>5, InitReleaseProtocol DEF o
<1>3. CASE RollbackWhileRolling \/ RollbackAfterCompletion
  BY <1>3, PreRollbackProtocol DEF RollbackWhileRolling, RollbackAfterCompletion, InPhase
<1>4. CASE RemoveRollbackMark
  <2>1. /\ UNCHANGED <<status, cache, de>> /\ rec'.old = rec.old /\ pc = "do" /\ pc' = "status"
        /\ rec.br.status.phase = "RollingBack"
        /\ \/ rec'.br = [Current EXCEPT !.anno.rollback = FALSE]
           \/ rec'.br = rec.br
           \/ rec'.br = [cache EXCEPT !.anno.rollback = FALSE]
    BY <1>4 DEF RemoveRollbackMark, InPhase, Return, Fail, api, TypeOK, LocalsType
  <2>2. rec'.br.status \in {status, rec.br.status, cache.status}
    BY <2>1 DEF Current, TypeOK, ReleaseType
  <2>3. MayBe(rec.old.status, rec'.br.status)
    BY <2>1, <2>2 DEF ProtocolInductive, MayBe, As
  <2>. QED
    BY <2>1, <2>3, StepHandler DEF RollingPhases
<1>5. CASE NothingToDo
  <2>1. /\ UNCHANGED <<status, cache, de>> /\ rec'.old = rec.old /\ pc = "do" /\ pc' = "status"
        /\ rec'.br = rec.br /\ rec.br.status.phase = "Completed"
    BY <1>5 DEF NothingToDo, InPhase, Return, api, TypeOK, LocalsType
  <2>. QED
    BY <2>1, QuietHandler DEF As
<1>6. Rolling => pc = "do" /\ rec.br.status.phase \in RollingPhases /\ o.phase \in RollingPhases
  BY <1>0 DEF Rolling, InPhase, RollingPhases, As
<1>7. CASE SyncScaling
  <2>1. /\ UNCHANGED <<status, cache, de>> /\ rec'.old = rec.old /\ pc' = "status" /\ Rolling
        /\ \/ rec'.br = rec.br
           \/ rec'.br = [rec.br EXCEPT !.status.state = "Initial"]
    BY <1>7 DEF SyncScaling, Return, Fail, api, TypeOK, LocalsType
  <2>2. As([rec.br EXCEPT !.status.state = "Initial"].status,
           rec.br.status.phase, rec.br.status.idx, "Initial")
    BY RecType, StatusFields
  <2>3. MayBe(o, rec'.br.status) \/ Stepped(o, rec'.br.status)
    BY <1>0, <1>6, <2>1, <2>2 DEF MayBe, Stepped, As
  <2>. QED
    BY <1>6, <2>1, <2>3, StepHandler
<1>8. CASE StepInitial
  <2>1. /\ UNCHANGED <<status, cache, de>> /\ rec'.old = rec.old /\ pc' = "status" /\ Rolling
        /\ rec.br.status.state \in {"", "Initial"}
        /\ rec'.br = [rec.br EXCEPT !.status.state = "Upgrade"]
    BY <1>8 DEF StepInitial, InStep, Return, api, TypeOK, LocalsType
  <2>2. As([rec.br EXCEPT !.status.state = "Upgrade"].status,
           rec.br.status.phase, rec.br.status.idx, "Upgrade")
    BY RecType, StatusFields
  <2>3. Stepped(o, rec'.br.status)
    BY <1>0, <1>6, <2>1, <2>2 DEF Stepped, As
  <2>. QED
    BY <1>6, <2>1, <2>3, StepHandler
<1>9. CASE StepUpgrade
  <2>1. /\ UNCHANGED <<status, cache, de>> /\ rec'.old = rec.old /\ pc' = "status" /\ Rolling
        /\ rec.br.status.state = "Upgrade"
        /\ \/ rec'.br = rec.br
           \/ rec'.br = [rec.br EXCEPT !.status.state = "Blocking"]
    BY <1>9 DEF StepUpgrade, InStep, Return, api, TypeOK, LocalsType
  <2>2. As([rec.br EXCEPT !.status.state = "Blocking"].status,
           rec.br.status.phase, rec.br.status.idx, "Blocking")
    BY RecType, StatusFields
  <2>3. MayBe(o, rec'.br.status) \/ Stepped(o, rec'.br.status)
    BY <1>0, <1>6, <2>1, <2>2 DEF MayBe, Stepped, As
  <2>. QED
    BY <1>6, <2>1, <2>3, StepHandler
<1>10. CASE StepUpgradePanics
  <2>1. UNCHANGED <<status, de>> /\ pc' = "idle"
    BY <1>10 DEF StepUpgradePanics, api
  <2>2. ProtocolInductive'
    BY <2>1 DEF ProtocolInductive
  <2>. QED
    BY <2>1, <2>2 DEF Allowed, Protocol!vars
<1>11. CASE StepBlocking
  <2>1. /\ UNCHANGED <<status, cache, de>> /\ rec'.old = rec.old /\ pc' = "status" /\ Rolling
        /\ rec.br.status.state = "Blocking"
        /\ \/ rec'.br = [rec.br EXCEPT !.status.state = "Completed"]
           \/ rec'.br = [rec.br EXCEPT !.status.reason = "StepBlocking"]
    BY <1>11 DEF StepBlocking, InStep, Return, api, TypeOK, LocalsType
  <2>2. /\ As([rec.br EXCEPT !.status.state = "Completed"].status,
              rec.br.status.phase, rec.br.status.idx, "Completed")
        /\ As([rec.br EXCEPT !.status.reason = "StepBlocking"].status,
              rec.br.status.phase, rec.br.status.idx, rec.br.status.state)
    BY RecType, StatusFields
  <2>3. MayBe(o, rec'.br.status)
    BY <1>0, <1>6, <2>1, <2>2 DEF MayBe, As
  <2>. QED
    BY <1>6, <2>1, <2>3, StepHandler
<1>12. CASE StepCompleted
  <2>1. /\ UNCHANGED <<status, cache, de>> /\ rec'.old = rec.old /\ pc' = "status" /\ Rolling
        /\ rec.br.status.state = "Completed"
        /\ \/ rec'.br = [rec.br EXCEPT !.status.phase = "Finalizing"]
           \/ rec'.br = [rec.br EXCEPT !.status.idx = @ + 1, !.status.state = "Initial"]
    BY <1>12 DEF StepCompleted, InStep, Return, api, TypeOK, LocalsType
  <2>2. /\ As([rec.br EXCEPT !.status.phase = "Finalizing"].status,
              "Finalizing", rec.br.status.idx, rec.br.status.state)
        /\ As([rec.br EXCEPT !.status.idx = @ + 1, !.status.state = "Initial"].status,
              rec.br.status.phase, rec.br.status.idx + 1, "Initial")
    BY RecType, StatusFields
  <2>3. Stepped(o, rec'.br.status)
    BY <1>0, <1>6, <2>1, <2>2 DEF Stepped, As
  <2>. QED
    BY <1>6, <2>1, <2>3, StepHandler
<1>13. CASE FinalizeDeployment
  <2>1. pc = "do" /\ rec.br.status.phase = "Finalizing" /\ o.phase = "Finalizing"
          /\ status.phase = "Finalizing"
    BY <1>0, <1>13 DEF FinalizeDeployment, InPhase, As, ProtocolInductive, MayBe
  <2>2. CASE Fail(rec.br)
    <3>1. /\ UNCHANGED <<status, cache, de>> /\ rec'.old = rec.old /\ pc' = "status"
          /\ rec'.br = rec.br
      BY <2>2 DEF Fail, api, TypeOK, LocalsType
    <3>. QED
      BY <2>1, <3>1, QuietHandler DEF As
  <2>3. CASE ~Fail(rec.br)
    <3>1. /\ UNCHANGED <<status, cache, rec>> /\ pc' = "record" /\ ~TakenOver'
      BY <1>13, <2>3 DEF FinalizeDeployment, TakenOver, TypeOK, DeploymentType
    <3>2. Protocol!GiveBack
      BY <2>1, <3>1 DEF Protocol!GiveBack, TakenOver
    <3>3. ProtocolInductive'
      BY <2>1, <3>1 DEF ProtocolInductive
    <3>. QED
      BY <3>2, <3>3 DEF Allowed, Protocol!Next
  <2>. QED
    BY <2>2, <2>3
<1>14. CASE FinalizeRecord
  <2>1. /\ UNCHANGED <<status, cache, de>> /\ rec'.old = rec.old
        /\ pc = "record" /\ pc' = "status"
        /\ rec'.br \in {rec.br, [rec.br EXCEPT !.status.phase = "Completed"]}
    BY <1>14 DEF FinalizeRecord, Return, Fail, api, TypeOK, LocalsType
  <2>2. As(rec.br.status, o.phase, o.idx, o.state) /\ o.phase = "Finalizing" /\ ~TakenOver
          /\ o.state = "Completed"
    BY <2>1 DEF ProtocolInductive, Ends
  <2>3. As([rec.br EXCEPT !.status.phase = "Completed"].status,
           "Completed", rec.br.status.idx, rec.br.status.state)
    BY RecType, StatusFields
  <2>4. ~TakenOver'
    BY <2>1, <2>2 DEF TakenOver
  <2>5. Handled(rec.old.status, rec.br.status)' /\ Ends(rec'.br.status)
    BY <2>1, <2>2, <2>3, <2>4 DEF Handled, MayBe, As, Ends
  <2>. QED
    BY <2>1, <2>5, HandlerEnds DEF Allowed, Protocol!vars
<1>. QED
  BY <1>1, <1>2, <1>3, <1>4, <1>5, <1>7, <1>8, <1>9, <1>10, <1>11, <1>12, <1>13, <1>14 DEF Do

(* The one write of the status is a single step of the protocol.           *)
LEMMA WriteProtocol ==
  ASSUME TypeOK, PausedInductive, ProtocolInductive, pc = "status",
         status' = rec.br.status, de' = de
  PROVE  Allowed
<1>. DEFINE o == rec.old.status
           n == rec.br.status
<1>1. MayBe(o, status) /\ Ends(o) /\ Handled(o, n) /\ status.state \in StepStates
  BY DEF ProtocolInductive, TypeOK, StatusType
<1>2. n.phase \in RollingPhases => TakenOver
  BY DEF PausedInductive
<1>3. TakenOver' = TakenOver /\ status' = n
  BY DEF TakenOver
<1>. HIDE DEF o, n
<1>4. CASE MayBe(o, n)
  <2>1. CASE n.state = status.state
    <3>1. UNCHANGED Protocol!vars
      BY <1>1, <1>3, <1>4, <2>1 DEF Protocol!vars, MayBe, TakenOver
    <3>. QED
      BY <3>1 DEF Allowed
  <2>2. CASE o.state = "Blocking" /\ status.state = "Blocking" /\ n.state = "Completed"
    <3>1. Protocol!Continue
      BY <1>1, <1>3, <1>4, <2>2 DEF Protocol!Continue, MayBe, TakenOver
    <3>. QED
      BY <3>1 DEF Allowed, Protocol!Next, Protocol!StepMachine
  <2>3. CASE o.state = "Blocking" /\ status.state = "Completed" /\ n.state = "Blocking"
    <3>1. Protocol!Forget
      BY <1>1, <1>3, <1>4, <2>3 DEF Protocol!Forget, Protocol!Forgotten, MayBe, TakenOver
    <3>. QED
      BY <3>1 DEF Allowed, Protocol!Next, Protocol!StepMachine
  <2>. QED
    BY <1>1, <1>4, <2>1, <2>2, <2>3 DEF MayBe
<1>5. CASE As(n, "Initial", o.idx, o.state)
  <2>1. Protocol!Prepare
    BY <1>1, <1>3, <1>5 DEF Protocol!Prepare, Protocol!Forgotten, MayBe, As, TakenOver
  <2>. QED
    BY <2>1 DEF Allowed, Protocol!Next
<1>6. CASE o.phase \in {"Initial", "RollingUpdate", "Completed"} /\ As(n, o.phase, 0, "")
  <2>1. Protocol!Reset
    BY <1>1, <1>3, <1>6 DEF Protocol!Reset, MayBe, As, TakenOver
  <2>. QED
    BY <2>1 DEF Allowed, Protocol!Next
<1>7. CASE \/ o.phase = "Initial" /\ As(n, "RollingUpdate", 0, "")
           \/ o.phase \in {"RollingUpdate", "Completed"} /\ As(n, "RollingBack", 0, "")
  <2>1. Protocol!Begin
    BY <1>1, <1>2, <1>3, <1>7 DEF Protocol!Begin, MayBe, As, TakenOver, RollingPhases
  <2>. QED
    BY <2>1 DEF Allowed, Protocol!Next
<1>8. CASE Stepped(o, n)
  <2>1. status.phase \in Protocol!Rolling /\ status.idx = o.idx
          /\ (o.state # "Blocking" => status.state = o.state)
    BY <1>1, <1>8 DEF Stepped, MayBe, RollingPhases, Protocol!Rolling
  <2>2. \/ Protocol!Rescale \/ Protocol!Start \/ Protocol!Ready
        \/ Protocol!Advance \/ Protocol!Finish
    <3>1. CASE As(n, o.phase, o.idx, "Initial")
      BY <1>1, <1>3, <2>1, <3>1
         DEF Protocol!Rescale, Protocol!StepTo, MayBe, As, TakenOver, StepStates
    <3>2. CASE o.state \in {"", "Initial"} /\ As(n, o.phase, o.idx, "Upgrade")
      BY <1>1, <1>3, <2>1, <3>2 DEF Protocol!Start, Protocol!StepTo, MayBe, As, TakenOver
    <3>3. CASE o.state = "Upgrade" /\ As(n, o.phase, o.idx, "Blocking")
      BY <1>1, <1>3, <2>1, <3>3 DEF Protocol!Ready, Protocol!StepTo, MayBe, As, TakenOver
    <3>4. CASE o.state = "Completed" /\ As(n, o.phase, o.idx + 1, "Initial")
      BY <1>1, <1>3, <2>1, <3>4 DEF Protocol!Advance, MayBe, As, TakenOver
    <3>5. CASE o.state = "Completed" /\ As(n, "Finalizing", o.idx, "Completed")
      BY <1>1, <1>3, <2>1, <3>5 DEF Protocol!Finish, MayBe, As, TakenOver
    <3>. QED
      BY <1>8, <3>1, <3>2, <3>3, <3>4, <3>5 DEF Stepped
  <2>. QED
    BY <2>2 DEF Allowed, Protocol!Next, Protocol!StepMachine
<1>9. CASE o.phase = "Finalizing" /\ ~TakenOver /\ As(n, "Completed", o.idx, o.state)
  <2>1. Protocol!Complete
    BY <1>1, <1>3, <1>9 DEF Protocol!Complete, MayBe, As, Ends, TakenOver
  <2>. QED
    BY <2>1 DEF Allowed, Protocol!Next
<1>. QED
  BY <1>1, <1>4, <1>5, <1>6, <1>7, <1>8, <1>9 DEF Handled

(* Every step keeps the invariant, and is one the protocol allows.         *)
LEMMA NextProtocol ==
  ASSUME StaleReads = FALSE, TypeOK, RecordsLast, PausedInductive, ProtocolInductive,
         [Next]_vars
  PROVE  ProtocolInductive' /\ Allowed
<1>1. CASE Do
  BY <1>1, DoProtocol
<1>2. CASE SyncStatus
  <2>1. Ends(status') /\ pc' = "end"
    BY <1>2 DEF SyncStatus, ProtocolInductive, api
  <2>2. ProtocolInductive'
    BY <2>1 DEF ProtocolInductive
  <2>3. CASE UNCHANGED api
    BY <2>2, <2>3 DEF Allowed, Protocol!vars, api
  <2>4. CASE ~UNCHANGED api
    <3>1. status' = rec.br.status /\ de' = de /\ pc = "status"
      BY <1>2, <2>4 DEF SyncStatus
    <3>. QED
      BY <2>2, <3>1, WriteProtocol
  <2>. QED
    BY <2>3, <2>4
<1>3. CASE StartReconcile
  <2>1. UNCHANGED <<status, cache, de>> /\ pc' = "do" /\ cache = Current
          /\ rec' = Locals(cache, de)
    BY <1>3 DEF StartReconcile, api, CacheFresh
  <2>2. rec'.old = cache /\ rec'.br = [cache EXCEPT !.status.reason = ""]
    BY <2>1 DEF Locals
  <2>3. cache.status = status /\ cache \in ReleaseType /\ cache' = cache
    BY <2>1 DEF Current, TypeOK
  <2>4. As(rec'.br.status, status.phase, status.idx, status.state)
          /\ rec'.br.status.fence = status.fence
    <3>1. As([cache EXCEPT !.status.reason = ""].status,
             cache.status.phase, cache.status.idx, cache.status.state)
          /\ [cache EXCEPT !.status.reason = ""].status.fence = cache.status.fence
      BY <2>3, StatusFields
    <3>. QED
      BY <2>2, <2>3, <3>1
  <2>5. ProtocolInductive'
    BY <2>1, <2>2, <2>3, <2>4 DEF ProtocolInductive, MayBe
  <2>. QED
    BY <2>1, <2>5 DEF Allowed, Protocol!vars
<1>4. CASE EndReconcile \/ Crash
  <2>1. UNCHANGED <<status, de>> /\ pc' = "idle"
    BY <1>4 DEF EndReconcile, Crash, api
  <2>2. ProtocolInductive'
    BY <2>1 DEF ProtocolInductive
  <2>. QED
    BY <2>1, <2>2 DEF Allowed, Protocol!vars
<1>5. CASE DeliverBatchRelease
  <2>1. UNCHANGED <<status, de, pc, rec>> /\ cache'.status = status
    BY <1>5 DEF DeliverBatchRelease, api, Current
  <2>2. ProtocolInductive'
    <3>1. TakenOver' = TakenOver
      BY <2>1 DEF TakenOver
    <3>. QED
      BY <2>1, <3>1 DEF ProtocolInductive, Handled
  <2>. QED
    BY <2>1, <2>2 DEF Allowed, Protocol!vars
<1>6. CASE UserApprove
  <2>1. UNCHANGED <<de, pc, rec, cache>> /\ status.state = "Blocking"
          /\ status' = [status EXCEPT !.state = "Completed"]
    BY <1>6 DEF UserApprove
  <2>2. As(status', status.phase, status.idx, "Completed") /\ status'.fence = status.fence
    BY <2>1 DEF As, TypeOK, StatusType
  <2>3. Protocol!Continue
    BY <2>1, <2>2 DEF Protocol!Continue, As
  <2>4. TakenOver' = TakenOver
    BY <2>1 DEF TakenOver
  <2>5. Ends(status')
    BY <2>1, <2>2 DEF ProtocolInductive, Ends, As
  <2>6. pc \in {"do", "record", "status"} => MayBe(rec.old.status, status')
    BY <2>1, <2>2 DEF ProtocolInductive, MayBe, As
  <2>7. ProtocolInductive'
    BY <2>1, <2>4, <2>5, <2>6 DEF ProtocolInductive, Handled
  <2>. QED
    BY <2>3, <2>7 DEF Allowed, Protocol!Next, Protocol!StepMachine
<1>7. CASE UNCHANGED <<status, de, cache, pc, rec>>
  <2>1. TakenOver' = TakenOver
    BY <1>7 DEF TakenOver
  <2>2. ProtocolInductive'
    BY <1>7, <2>1 DEF ProtocolInductive, Handled
  <2>. QED
    BY <1>7, <2>2 DEF Allowed, Protocol!vars
<1>8. CASE PodsReady \/ DeploymentControllerScales \/ (User /\ ~UserApprove) \/ UNCHANGED vars
  BY <1>7, <1>8 DEF PodsReady, DeploymentControllerScales, User, UserReleases, UserReplans,
    UserRollsBack, UserCancelsRollback, UserScales, api, vars
<1>. QED
  BY <1>1, <1>2, <1>3, <1>4, <1>5, <1>6, <1>8 DEF Next, Reconcile

(* A BatchRelease that has just been created has not begun.                *)
LEMMA InitProtocol ==
  ASSUME Init
  PROVE  Protocol!Init /\ PausedInductive /\ ProtocolInductive
<1>1. status.phase = "" /\ status.idx = 0 /\ status.state = "" /\ status.fence = NoFence
  BY DEF Init
<1>2. pc = "idle" /\ ~TakenOver
  BY DEF Init, TakenOver
<1>3. Protocol!Init
  BY <1>1, <1>2 DEF Protocol!Init, TakenOver
<1>. QED
  BY <1>1, <1>2, <1>3 DEF PausedInductive, PausedWhileRolling, RollingPhases, ProtocolInductive, Ends

(* When reconciles begin with the current version, every behaviour of the  *)
(* release, with its failed calls, crashes, and users, is one of           *)
(* ReleaseProtocol (Executor.Do, init, stepByStep, finalize,               *)
(* syncBatchReleaseStatus).                                                *)
THEOREM KeepsTheProtocol == ASSUME StaleReads = FALSE PROVE Spec => KeepsProtocol
<1>1. Init => Protocol!Init /\ RecordInductive /\ PausedInductive /\ ProtocolInductive
  BY InitRecorded, InitProtocol
<1>2. RecordInductive /\ PausedInductive /\ ProtocolInductive /\ [Next]_vars =>
        /\ (RecordInductive /\ PausedInductive /\ ProtocolInductive)'
        /\ [Protocol!Next]_(Protocol!vars)
  BY NextRecorded, NextPaused, NextProtocol DEF RecordInductive, Allowed
<1>. QED
  BY <1>1, <1>2, PTL DEF Spec, KeepsProtocol, Protocol!Spec
==============================================================================
