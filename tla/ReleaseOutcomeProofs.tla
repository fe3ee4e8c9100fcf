------------------------ MODULE ReleaseOutcomeProofs ------------------------
(***************************************************************************)
(* What a release of ReleaseLifecycle ends with: steps continued by hand,  *)
(* a Deployment given back as it was, and a stable version on record, for  *)
(* all templates, hashes, plans and bounds, when reconciles begin with the *)
(* current version of the BatchRelease and users are patient.              *)
(***************************************************************************)
EXTENDS ReleaseLifecycleProofs

(***************************************************************************)
(* The copy the executor works on                                          *)
(***************************************************************************)
(* All that the invariant says about a status.                             *)
Has(n, phase, idx, state, observed, fence) ==
  /\ n.phase = phase
  /\ n.idx = idx
  /\ n.state = state
  /\ n.observed = observed
  /\ n.fence = fence

(* A change of the executor's copy changes what it names and no more.      *)
LEMMA CopyFields ==
  ASSUME NEW b0 \in ReleaseType
  PROVE  LET s == b0.status IN
         /\ \A p : LET n == [b0 EXCEPT !.status.phase = p].status
                   IN Has(n, p, s.idx, s.state, s.observed, s.fence)
         /\ \A p : LET n == [b0 EXCEPT !.status.state = p].status
                   IN Has(n, s.phase, s.idx, p, s.observed, s.fence)
         /\ \A p : LET n == [b0 EXCEPT !.status.fence = p].status
                   IN Has(n, s.phase, s.idx, s.state, s.observed, p)
         /\ \A p : LET n == [b0 EXCEPT !.status.reason = p].status
                   IN Has(n, s.phase, s.idx, s.state, s.observed, s.fence)
         /\ Has([b0 EXCEPT !.status.idx = @ + 1, !.status.state = "Initial"].status,
                s.phase, s.idx + 1, "Initial", s.observed, s.fence)
         /\ \A p, q : Has([b0 EXCEPT !.status.observed = p, !.status.phase = q].status,
                          q, s.idx, s.state, p, s.fence)
         /\ Has(Restarted(b0).status, s.phase, 0, "", Hash[b0.spec.template], s.fence)
         /\ \A p : Has([Restarted(b0) EXCEPT !.status.phase = p].status,
                       p, 0, "", Hash[b0.spec.template], s.fence)
  BY DEF Has, ReleaseType, StatusType, Restarted

(* What it changes is the status.                                          *)
LEMMA CopyParts ==
  ASSUME NEW b0 \in ReleaseType
  PROVE  /\ \A p : [b0 EXCEPT !.status.phase = p].spec = b0.spec
         /\ \A p : [b0 EXCEPT !.status.phase = p].anno = b0.anno
         /\ \A p : [b0 EXCEPT !.status.reason = p].spec = b0.spec
         /\ \A p : [b0 EXCEPT !.status.reason = p].anno = b0.anno
         /\ [b0 EXCEPT !.anno.rollback = FALSE].status = b0.status
  BY DEF ReleaseType

(* While a handler works, its copy is the object the reconcile began with. *)
LEMMA Copy ==
  ASSUME TypeOK, OutcomeInductive, pc \in {"do", "record"}
  PROVE  /\ rec.br.spec = rec.old.spec
         /\ rec.br.anno = rec.old.anno
         /\ Has(rec.br.status, rec.old.status.phase, rec.old.status.idx,
                rec.old.status.state, rec.old.status.observed, rec.old.status.fence)
         /\ rec.old.status \in StatusType /\ rec.old.spec \in SpecType
         /\ rec.old.anno \in AnnoType
<1>1. rec.old \in ReleaseType
  BY DEF TypeOK, LocalsType
<1>2. rec.br = [rec.old EXCEPT !.status.reason = ""]
  BY DEF OutcomeInductive
<1>3. rec.old.status \in StatusType /\ rec.old.spec \in SpecType /\ rec.old.anno \in AnnoType
  BY <1>1 DEF ReleaseType
<1>4. LET b1 == [rec.old EXCEPT !.status.reason = ""]
      IN /\ b1.spec = rec.old.spec
         /\ b1.anno = rec.old.anno
         /\ Has(b1.status, rec.old.status.phase, rec.old.status.idx,
                rec.old.status.state, rec.old.status.observed, rec.old.status.fence)
  BY <1>1, CopyFields, CopyParts
<1>. QED
  BY <1>2, <1>3, <1>4

(* No template has the hash of a missing one.                              *)
LEMMA NoHash ==
  ASSUME NEW t \in Templates
  PROVE  Hash[t] # None
  BY NoneAssumption

(* No step comes before the first one.                                     *)
LEMMA NoSteps == ASSUME NEW i, i = 0 PROVE 0 .. i - 1 = {}
  OBVIOUS

(* Rolling handlers of a release not told to roll back have its template   *)
(* observed, and the Deployment holds it.                                  *)
LEMMA RollingCopy ==
  ASSUME TypeOK, OutcomeInductive, Rolling
  PROVE  /\ pc = "do"
         /\ ~rec.old.anno.rollback
         /\ rec.old.status.phase \in RollingPhases
         /\ RollsOn(rec.old.anno, rec.old.status)
         /\ rec.old.status.observed = Hash[rec.old.spec.template]
         /\ rec.old.status.observed = Hash[de.template]
<1>1. pc = "do" /\ ~rec.br.anno.rollback /\ rec.br.status.phase \in RollingPhases
        /\ ~TemplateChanged(rec.br)
  BY DEF Rolling, InPhase, RollingPhases
<1>2. ~rec.old.anno.rollback /\ rec.old.status.phase \in RollingPhases
  BY <1>1, Copy DEF Has
<1>3. RollsOn(rec.old.anno, rec.old.status)
  BY <1>2 DEF RollsOn, RollingPhases
<1>4. Consistent(rec.old.spec, rec.old.anno, rec.old.status)
  BY <1>1 DEF OutcomeInductive
<1>5. rec.old.status.observed # None
  BY <1>2, <1>4 DEF Consistent, Observes, RollingPhases, EarlyPhases
<1>6. rec.old.status.observed = Hash[rec.old.spec.template]
  BY <1>1, <1>2, <1>5, Copy DEF TemplateChanged, Has
<1>7. rec.old.status.observed = Hash[de.template]
  BY <1>3, <1>4 DEF Consistent, HoldsObserved
<1>. QED
  BY <1>1, <1>2, <1>3, <1>6, <1>7

(***************************************************************************)
(* Statuses that may be written                                            *)
(***************************************************************************)
(* The status as it was, at some point of the reconcile.                   *)
LEMMA SameWrites ==
  ASSUME NEW n, SameRelease(n, status), Consistent(spec, anno, status)
  PROVE  Writes(n)
<1>1. n.state = "" => n.idx = 0
  BY DEF SameRelease, MayBe, Consistent, Observes
<1>2. n.state = "Completed" => status.state = "Completed"
  BY DEF SameRelease, MayBe
<1>3. n.phase = status.phase /\ n.idx = status.idx /\ n.observed = status.observed
        /\ n.fence = status.fence
  BY DEF SameRelease, MayBe
<1>4. Observes(n) /\ RollbackObserved(spec, anno, n) /\ HoldsObserved(anno, n)
        /\ Released(anno, n)
  BY <1>1, <1>3 DEF Consistent, Observes, RollbackObserved, HoldsObserved, RollsOn, Released,
                   GivenBack
<1>5. Continued(spec, anno, n)
  BY <1>2, <1>3 DEF Consistent, Continued, RollsOn
<1>. QED
  BY <1>3, <1>4, <1>5 DEF Writes, Consistent

(* A step that is not completed.                                           *)
LEMMA StateWrites ==
  ASSUME NEW n, Consistent(spec, anno, status), n.state \notin {"", "Completed"},
         Has(n, status.phase, status.idx, n.state, status.observed, status.fence)
  PROVE  Writes(n)
<1>1. Observes(n) /\ RollbackObserved(spec, anno, n) /\ HoldsObserved(anno, n)
        /\ Released(anno, n)
  BY DEF Has, Consistent, Observes, RollbackObserved, HoldsObserved, RollsOn, Released, GivenBack
<1>2. Continued(spec, anno, n)
  BY DEF Has, Consistent, Continued, RollsOn
<1>. QED
  BY <1>1, <1>2 DEF Writes, Consistent, Has

(* A handler that leaves the release, the Deployment and the history alone *)
(* keeps the invariant if the status it returns with may be written.       *)
LEMMA QuietOutcome ==
  ASSUME OutcomeInductive, Writes(rec'.br.status), pc' = "status",
         UNCHANGED <<spec, anno, status, de, approved>>
  PROVE  OutcomeInductive'
<1>1. Consistent(spec, anno, status)'
  BY DEF OutcomeInductive, Consistent, Observes, RollbackObserved, HoldsObserved,
         Continued, Released, RollsOn, GivenBack
<1>2. Consistent(spec, anno, rec.br.status)'
  BY DEF Writes, Consistent, Observes, RollbackObserved, HoldsObserved,
         Continued, Released, RollsOn, GivenBack
<1>3. Writes(rec.br.status)'
  BY <1>2 DEF Writes, Observed
<1>. QED
  BY <1>1, <1>3 DEF OutcomeInductive

(***************************************************************************)
(* Executor.init                                                           *)
(***************************************************************************)
(* Where init is called: in the first phases, or for a rollback that is    *)
(* still asked for.                                                        *)
Called(b0, target) ==
  /\ pc = "do"
  /\ b0 \in ReleaseType
  /\ b0.spec = rec.old.spec /\ b0.anno = rec.old.anno
  /\ Has(b0.status, b0.status.phase, rec.old.status.idx, rec.old.status.state,
         rec.old.status.observed, rec.old.status.fence)
  /\ \/ /\ b0.status.phase = "Initial"
        /\ rec.old.status.phase \in EarlyPhases
        /\ target = "RollingUpdate"
     \/ /\ b0.status.phase = rec.old.status.phase
        /\ rec.old.status.phase \in {"RollingUpdate", "Completed"}
        /\ rec.old.anno.rollback
        /\ target = "RollingBack"

(* The template init works on is the one last observed, as far as users    *)
(* can see, and the one of a rollback they have asked for.                 *)
LEMMA CalledFor ==
  ASSUME TypeOK, OutcomeInductive, NEW b0, NEW target, Called(b0, target)
  PROVE  LET o == rec.old IN
         /\ SameRelease(o.status, status)
         /\ o.anno.rollback => anno.rollback
         /\ anno.rollback => spec = o.spec
         /\ Observed /\ ~anno.rollback => status.observed = Hash[o.spec.template]
         /\ o.spec.template \in Templates /\ Hash[o.spec.template] # None
<1>. DEFINE o == rec.old
<1>1. OnlyUsersActed(o)
  BY DEF OutcomeInductive, Called
<1>2. SameRelease(o.status, status)
  BY <1>1 DEF OnlyUsersActed, SameRelease, MayBe
<1>3. o.spec.template \in Templates /\ spec.template \in Templates
  BY Copy DEF Called, SpecType, TypeOK
<1>4. (o.anno.rollback => anno.rollback) /\ (anno.rollback => spec = o.spec)
  BY <1>1 DEF OnlyUsersActed
<1>5. ASSUME Observed, ~anno.rollback PROVE status.observed = Hash[o.spec.template]
  <2>1. status.observed = Hash[spec.template] /\ Hash[spec.template] # None
    BY <1>3, <1>5, NoHash DEF Observed
  <2>2. spec = o.spec
    BY <1>1, <1>4, <1>5, <2>1 DEF OnlyUsersActed
  <2>. QED
    BY <2>1, <2>2
<1>. QED
  BY <1>2, <1>3, <1>4, <1>5, NoHash

(* A status init has captured the fenceposts in, or left alone.            *)
LEMMA CaptureWrites ==
  ASSUME TypeOK, OutcomeInductive, NEW b0, NEW target, Called(b0, target),
         NEW n, NEW f, Has(n, b0.status.phase, b0.status.idx, b0.status.state,
                           b0.status.observed, f)
  PROVE  Writes(n)
<1>. DEFINE o == rec.old
<1>1. SameRelease(o.status, status) /\ (o.anno.rollback => anno.rollback)
  BY CalledFor
<1>2. /\ n.idx = status.idx /\ n.state = o.status.state /\ n.observed = status.observed
      /\ \/ n.phase = "Initial" /\ status.phase \in EarlyPhases
         \/ n.phase = status.phase /\ n.phase \in {"RollingUpdate", "Completed"} /\ anno.rollback
  BY <1>1 DEF Called, Has, SameRelease, MayBe
<1>3. Consistent(spec, anno, status) /\ Observes(o.status)
  BY DEF OutcomeInductive, Called, Consistent
<1>4. n.state = "" => n.idx = 0
  BY <1>2, <1>3, <1>1 DEF Observes, SameRelease, MayBe
<1>5. Observes(n)
  BY <1>2, <1>3, <1>4 DEF Observes, Consistent, EarlyPhases
<1>6. RollbackObserved(spec, anno, n) /\ HoldsObserved(anno, n) /\ Released(anno, n)
  BY <1>2, <1>3 DEF Consistent, RollbackObserved, HoldsObserved, Released, RollsOn, EarlyPhases
<1>7. Continued(spec, anno, n)
  BY <1>2, <1>3 DEF Consistent, Continued, RollsOn, RollingPhases
<1>. QED
  BY <1>2, <1>5, <1>6, <1>7 DEF Writes, Consistent

(* The status a take-over that failed leaves behind.                       *)
LEMMA RestartWrites ==
  ASSUME TypeOK, OutcomeInductive, NEW b0, NEW target, Called(b0, target),
         NEW n, NEW f, Has(n, b0.status.phase, 0, "", Hash[b0.spec.template], f)
  PROVE  Writes(n)
<1>. DEFINE o == rec.old
<1>1. /\ o.anno.rollback => anno.rollback
      /\ anno.rollback => spec = o.spec
      /\ Observed /\ ~anno.rollback => status.observed = Hash[o.spec.template]
      /\ Hash[o.spec.template] # None
  BY CalledFor
<1>2. /\ n.idx = 0 /\ n.state = "" /\ n.observed = Hash[o.spec.template]
      /\ \/ n.phase = "Initial"
         \/ n.phase \in {"RollingUpdate", "Completed"} /\ anno.rollback
  BY <1>1 DEF Called, Has
<1>3. Observes(n)
  BY <1>1, <1>2 DEF Observes, EarlyPhases
<1>4. RollbackObserved(spec, anno, n) /\ HoldsObserved(anno, n) /\ Released(anno, n)
  BY <1>1, <1>2 DEF RollbackObserved, HoldsObserved, Released, RollsOn
<1>5. Continued(spec, anno, n)
  <2>1. 0 .. n.idx - 1 = {}
    BY <1>2, NoSteps
  <2>. QED
    BY <1>2, <2>1 DEF Continued
<1>. QED
  BY <1>1, <1>2, <1>3, <1>4, <1>5 DEF Writes, Consistent

(* Executor.init keeps the invariant wherever it returns.                  *)
LEMMA InitReleaseOutcome ==
  ASSUME TypeOK, StableRecorded, OutcomeInductive, NEW b0, NEW target,
         Called(b0, target), InitRelease(b0, target)
  PROVE  OutcomeInductive'
<1>. DEFINE o == rec.old
<1>1. b0 \in ReleaseType /\ pc = "do"
  BY DEF Called
<1>2. CASE CaptureFence(b0) \/ Fail(b0)
  <2>1. /\ UNCHANGED <<spec, anno, status, de, approved>> /\ pc' = "status"
        /\ \/ rec'.br = b0
           \/ rec'.br = [b0 EXCEPT !.status.fence = rec.de.fence]
    BY <1>2 DEF CaptureFence, Return, Fail, api, hist, TypeOK, LocalsType
  <2>2. Has([b0 EXCEPT !.status.fence = rec.de.fence].status, b0.status.phase,
            b0.status.idx, b0.status.state, b0.status.observed, rec.de.fence)
    BY <1>1, CopyFields
  <2>3. \E f : Has(rec'.br.status, b0.status.phase, b0.status.idx, b0.status.state,
                   b0.status.observed, f)
    BY <2>1, <2>2 DEF Has
  <2>4. Writes(rec'.br.status)
    BY <2>3, CaptureWrites
  <2>. QED
    BY <2>1, <2>4, QuietOutcome
<1>3. CASE Fail(Restarted(b0))
  <2>1. /\ UNCHANGED <<spec, anno, status, de, approved>> /\ pc' = "status"
        /\ rec'.br = Restarted(b0)
    BY <1>3 DEF Fail, api, hist, TypeOK, LocalsType
  <2>2. Has(Restarted(b0).status, b0.status.phase, 0, "", Hash[b0.spec.template], b0.status.fence)
    BY <1>1, CopyFields
  <2>3. Writes(rec'.br.status)
    BY <2>1, <2>2, RestartWrites
  <2>. QED
    BY <2>1, <2>3, QuietOutcome
<1>4. CASE RecordInitial(b0) /\ ~Fail(b0)
  <2>1. /\ UNCHANGED <<spec, status, de, approved>> /\ pc' = "status" /\ rec'.br = b0
        /\ b0.anno.cur = None
        /\ RecordStableVersion(b0.anno, rec.de.template)
    BY <1>4 DEF RecordInitial, Return, env, hist, TypeOK, LocalsType
  <2>2. anno.cur = None /\ anno'.rollback = anno.rollback
    BY <2>1 DEF Called, OutcomeInductive, OnlyUsersActed, RecordStableVersion, TypeOK, AnnoType
  <2>3. status.phase \in EarlyPhases /\ SameRelease(o.status, status)
    BY <2>2, CalledFor DEF StableRecorded, Recorded, Current
  <2>4. b0.status.phase = "Initial"
    BY <2>3 DEF Called, SameRelease, MayBe, EarlyPhases
  <2>5. Has(b0.status, b0.status.phase, b0.status.idx, b0.status.state,
            b0.status.observed, b0.status.fence)
    BY DEF Has
  <2>6. Writes(b0.status)
    BY <2>5, CaptureWrites
  <2>7. Consistent(spec, anno, status)'
    BY <2>1, <2>2, <2>3
    DEF OutcomeInductive, Consistent, Observes, RollbackObserved, HoldsObserved,
        Continued, Released, RollsOn, EarlyPhases
  <2>8. Consistent(spec, anno, rec.br.status)'
    BY <2>1, <2>2, <2>4, <2>6
    DEF Writes, Consistent, Observes, RollbackObserved, HoldsObserved,
        Continued, Released, RollsOn, EarlyPhases
  <2>9. Writes(rec.br.status)'
    BY <2>1, <2>2, <2>6, <2>8 DEF Writes, Observed
  <2>. QED
    BY <2>1, <2>7, <2>9 DEF OutcomeInductive
<1>5. CASE TakeOver(b0, target) /\ ~Fail(Restarted(b0))
  <2>. DEFINE n == rec'.br.status
  <2>1. /\ UNCHANGED <<spec, anno, status, approved>> /\ pc' = "status"
        /\ rec'.br = [Restarted(b0) EXCEPT !.status.phase = target]
        /\ de'.template = o.spec.template
    BY <1>5 DEF TakeOver, Return, Called, TypeOK, LocalsType
  <2>2. Has([Restarted(b0) EXCEPT !.status.phase = target].status, target, 0, "",
            Hash[b0.spec.template], b0.status.fence)
    BY <1>1, CopyFields
  <2>3. /\ n.phase = target /\ n.idx = 0 /\ n.state = "" /\ n.observed = Hash[o.spec.template]
        /\ target \in RollingPhases
    BY <2>1, <2>2 DEF Has, Called, RollingPhases
  <2>4. /\ o.anno.rollback => anno.rollback
        /\ anno.rollback => spec = o.spec
        /\ Observed /\ ~anno.rollback => status.observed = Hash[o.spec.template]
        /\ Hash[o.spec.template] # None
        /\ SameRelease(o.status, status)
    BY CalledFor
  <2>5. \/ status.phase \in EarlyPhases
        \/ status.phase \in {"RollingUpdate", "Completed"} /\ anno.rollback
    BY <2>4 DEF Called, SameRelease, MayBe
  <2>6. Consistent(spec, anno, status)'
    BY <2>1, <2>5
    DEF OutcomeInductive, Consistent, Observes, RollbackObserved, HoldsObserved,
        Continued, Released, RollsOn, EarlyPhases
  <2>7. Observes(rec.br.status)' /\ RollbackObserved(spec, anno, rec.br.status)'
    BY <2>1, <2>3, <2>4 DEF Observes, RollbackObserved, RollingPhases, EarlyPhases
  <2>8. HoldsObserved(anno, rec.br.status)' /\ Released(anno, rec.br.status)'
    BY <2>1, <2>3 DEF HoldsObserved, Released, RollingPhases
  <2>9. Continued(spec, anno, rec.br.status)'
    <3>1. 0 .. n.idx - 1 = {}
      BY <2>3, NoSteps
    <3>. QED
      BY <2>3, <3>1 DEF Continued
  <2>10. Writes(rec.br.status)'
    BY <2>1, <2>3, <2>4, <2>7, <2>8, <2>9 DEF Writes, Consistent, Observed
  <2>. QED
    BY <2>1, <2>6, <2>10 DEF OutcomeInductive
<1>. QED
  BY <1>2, <1>3, <1>4, <1>5 DEF InitRelease, RecordInitial, TakeOver

(* So does Executor.preRollback.                                           *)
LEMMA PreRollbackOutcome ==
  ASSUME TypeOK, StableRecorded, OutcomeInductive, pc = "do", NEW v,
         rec.br.status.phase \in {"RollingUpdate", "Completed"}, rec.br.anno.rollback,
         PreRollback(rec.br, v)
  PROVE  OutcomeInductive'
<1>. DEFINE o == rec.old
<1>1. /\ rec.br.spec = o.spec /\ rec.br.anno = o.anno
      /\ Has(rec.br.status, o.status.phase, o.status.idx, o.status.state,
             o.status.observed, o.status.fence)
  BY Copy
<1>2. Called(rec.br, "RollingBack")
  BY <1>1, RecType DEF Called, Has
<1>3. CASE InitRelease(rec.br, "RollingBack") \/ Fail(rec.br)
  <2>1. CASE InitRelease(rec.br, "RollingBack")
    BY <1>2, <2>1, InitReleaseOutcome
  <2>2. CASE Fail(rec.br)
    <3>1. /\ UNCHANGED <<spec, anno, status, de, approved>> /\ pc' = "status"
          /\ rec'.br = rec.br
      BY <2>2 DEF Fail, api, hist, TypeOK, LocalsType
    <3>2. Writes(rec.br.status)
      BY <1>2, CaptureWrites DEF Has
    <3>. QED
      BY <3>1, <3>2, QuietOutcome
  <2>. QED
    BY <1>3, <2>1, <2>2
<1>4. CASE RewriteSpec(rec.br, v) /\ ~Fail(rec.br)
  <2>1. /\ UNCHANGED <<anno, status, de, approved>> /\ pc' = "status" /\ rec'.br = rec.br
    BY <1>4 DEF RewriteSpec, Return, env, hist, TypeOK, LocalsType
  <2>2. anno.rollback /\ SameRelease(o.status, status)
    BY <1>1, <1>2, CalledFor
  <2>3. status.phase \in {"RollingUpdate", "Completed"}
    BY <1>1, <2>2 DEF Has, SameRelease, MayBe
  <2>4. Writes(rec.br.status)
    BY <1>2, CaptureWrites DEF Has
  <2>5. Consistent(spec, anno, status)'
    BY <2>1, <2>2, <2>3
    DEF OutcomeInductive, Consistent, Observes, RollbackObserved, HoldsObserved,
        Continued, Released, RollsOn, GivenBack
  <2>6. rec.br.status.phase = status.phase /\ rec.br.status.observed = status.observed
    BY <1>1, <2>2 DEF Has, SameRelease, MayBe
  <2>7. Consistent(spec, anno, rec.br.status)'
    BY <2>1, <2>2, <2>3, <2>4, <2>6
    DEF Writes, Consistent, Observes, RollbackObserved, HoldsObserved,
        Continued, Released, RollsOn, GivenBack
  <2>8. Writes(rec.br.status)'
    BY <2>1, <2>2, <2>6, <2>7 DEF Writes
  <2>. QED
    BY <2>1, <2>5, <2>8 DEF OutcomeInductive
<1>. QED
  BY <1>3, <1>4 DEF PreRollback, RewriteSpec

(* The phases in which Do calls init, by itself or by preRollback.         *)
LEMMA InitialIsCalled ==
  ASSUME TypeOK, OutcomeInductive, PhaseInitial
  PROVE  Called([rec.br EXCEPT !.status.phase = "Initial"], "RollingUpdate")
<1>. DEFINE b1 == [rec.br EXCEPT !.status.phase = "Initial"]
<1>1. pc = "do" /\ rec.br.status.phase \in EarlyPhases
  BY DEF PhaseInitial, InPhase, EarlyPhases
<1>2. b1 \in ReleaseType
  BY RecType, ChangeType DEF Phases
<1>3. /\ Has(b1.status, "Initial", rec.br.status.idx, rec.br.status.state,
             rec.br.status.observed, rec.br.status.fence)
      /\ b1.spec = rec.br.spec /\ b1.anno = rec.br.anno
  BY RecType, CopyFields, CopyParts
<1>. HIDE DEF b1
<1>4. Called(b1, "RollingUpdate")
  BY <1>1, <1>2, <1>3, Copy DEF Called, Has
<1>. QED
  BY <1>4 DEF b1

LEMMA RollbackIsCalled ==
  ASSUME TypeOK, OutcomeInductive, pc = "do", rec.br.anno.rollback,
         rec.br.status.phase \in {"RollingUpdate", "Completed"}
  PROVE  Called(rec.br, "RollingBack")
  BY RecType, Copy DEF Called, Has

(***************************************************************************)
(* The other handlers                                                      *)
(***************************************************************************)
(* A handler that fails, or returns with what it found.                    *)
LEMMA ReturnsSame ==
  ASSUME TypeOK, OutcomeInductive, pc \in {"do", "record"}, pc' = "status",
         UNCHANGED <<spec, anno, status, de, approved>>, NEW s,
         s = rec.br.status \/ s = cache.status \/ s = status,
         Has(rec'.br.status, s.phase, s.idx, s.state, s.observed, s.fence)
  PROVE  OutcomeInductive'
<1>1. SameRelease(rec.old.status, cache.status) /\ SameRelease(cache.status, status)
  BY DEF OutcomeInductive, OnlyUsersActed
<1>2. SameRelease(rec'.br.status, status)
  BY <1>1, Copy DEF SameRelease, MayBe, Has
<1>3. Writes(rec'.br.status)
  BY <1>2, SameWrites DEF OutcomeInductive
<1>. QED
  BY <1>3, QuietOutcome

(* A handler that only brings the step to a state nobody need continue.    *)
LEMMA ReturnsState ==
  ASSUME TypeOK, OutcomeInductive, pc = "do", pc' = "status",
         UNCHANGED <<spec, anno, status, de, approved>>, NEW q, q \notin {"", "Completed"},
         rec'.br = [rec.br EXCEPT !.status.state = q]
  PROVE  OutcomeInductive'
<1>1. SameRelease(rec.old.status, cache.status) /\ SameRelease(cache.status, status)
  BY DEF OutcomeInductive, OnlyUsersActed
<1>2. Has([rec.br EXCEPT !.status.state = q].status, rec.br.status.phase, rec.br.status.idx, q,
          rec.br.status.observed, rec.br.status.fence)
  BY RecType, CopyFields
<1>3. Has(rec'.br.status, status.phase, status.idx, rec'.br.status.state,
          status.observed, status.fence) /\ rec'.br.status.state = q
  BY <1>1, <1>2, Copy DEF SameRelease, MayBe, Has
<1>4. Writes(rec'.br.status)
  BY <1>3, StateWrites DEF OutcomeInductive
<1>. QED
  BY <1>4, QuietOutcome

(* handlePodTemplateUpdate: nobody has asked for a rollback meanwhile, for *)
(* nobody sees the new template observed.                                  *)
LEMMA TemplateOutcome ==
  ASSUME TypeOK, OutcomeInductive, HandlePodTemplateUpdate
  PROVE  OutcomeInductive'
<1>. DEFINE o == rec.old
           n == rec'.br.status
<1>1. /\ pc = "do" /\ pc' = "status"
      /\ UNCHANGED <<spec, anno, status, de, approved>>
      /\ rec'.br = [rec.br EXCEPT !.status.observed = Hash[rec.br.spec.template],
                                  !.status.phase = "Initial"]
      /\ TemplateChanged(rec.br)
  BY DEF HandlePodTemplateUpdate, Return, api, hist, TypeOK, LocalsType
<1>2. /\ rec.br.spec = o.spec /\ rec.br.anno = o.anno
      /\ Has(rec.br.status, o.status.phase, o.status.idx, o.status.state,
             o.status.observed, o.status.fence)
  BY <1>1, Copy
<1>3. OnlyUsersActed(o) /\ Consistent(o.spec, o.anno, o.status)
  BY <1>1 DEF OutcomeInductive
<1>4. /\ status.observed = o.status.observed /\ status.idx = o.status.idx
      /\ o.status.observed # None /\ o.status.observed # Hash[o.spec.template]
      /\ ~o.anno.rollback
  BY <1>1, <1>2, <1>3 DEF TemplateChanged, OnlyUsersActed, SameRelease, MayBe, Has
<1>5. ~Observed /\ ~anno.rollback
  BY <1>3, <1>4 DEF OnlyUsersActed, Observed
<1>6. Has([rec.br EXCEPT !.status.observed = Hash[rec.br.spec.template],
                         !.status.phase = "Initial"].status,
          "Initial", rec.br.status.idx, rec.br.status.state, Hash[rec.br.spec.template],
          rec.br.status.fence)
  BY RecType, CopyFields
<1>7. /\ n.phase = "Initial" /\ n.observed = Hash[o.spec.template]
      /\ n.idx = o.status.idx /\ n.state = o.status.state
  BY <1>1, <1>2, <1>6 DEF Has
<1>8. Observes(n)
  BY <1>3, <1>7 DEF Consistent, Observes, EarlyPhases
<1>9. RollbackObserved(spec, anno, n) /\ HoldsObserved(anno, n) /\ Continued(spec, anno, n)
        /\ Released(anno, n)
  BY <1>5, <1>7 DEF RollbackObserved, HoldsObserved, Continued, Released, RollsOn, RollingPhases
<1>10. Writes(n)
  BY <1>5, <1>7, <1>8, <1>9 DEF Writes, Consistent, EarlyPhases
<1>. QED
  BY <1>1, <1>10, QuietOutcome

(* removeRollbackMark: without the mark, the release goes on.              *)
LEMMA MarkOutcome ==
  ASSUME TypeOK, OutcomeInductive, RemoveRollbackMark
  PROVE  OutcomeInductive'
<1>1. pc = "do" /\ pc' = "status" /\ rec.br.status.phase = "RollingBack"
  BY DEF RemoveRollbackMark, InPhase, Return, Fail
<1>2. CASE Fail(rec.br) \/ Fail([cache EXCEPT !.anno.rollback = FALSE])
  <2>1. /\ UNCHANGED <<spec, anno, status, de, approved>>
        /\ rec'.br \in {rec.br, [cache EXCEPT !.anno.rollback = FALSE]}
    BY <1>2 DEF Fail, api, hist, TypeOK, LocalsType
  <2>2. [cache EXCEPT !.anno.rollback = FALSE].status = cache.status
    BY CopyParts DEF TypeOK
  <2>3. rec'.br.status = rec.br.status \/ rec'.br.status = cache.status
    BY <2>1, <2>2
  <2>. QED
    BY <1>1, <2>1, <2>3, ReturnsSame DEF Has
<1>3. CASE ~Fail(rec.br) /\ ~Fail([cache EXCEPT !.anno.rollback = FALSE])
  <2>1. /\ UNCHANGED <<spec, status, de, approved>>
        /\ rec'.br = [Current EXCEPT !.anno.rollback = FALSE]
        /\ anno' = [anno EXCEPT !.rollback = FALSE]
    BY <1>3 DEF RemoveRollbackMark, Return, env, hist, TypeOK, LocalsType
  <2>2. rec'.br.status = status
    BY <2>1, CurrentType, CopyParts DEF Current
  <2>3. ~anno'.rollback /\ status.phase = "RollingBack"
    <3>1. SameRelease(rec.old.status, status)
      BY <1>1 DEF OutcomeInductive, OnlyUsersActed, SameRelease, MayBe
    <3>2. ~anno'.rollback
      BY <2>1 DEF TypeOK, AnnoType
    <3>. QED
      BY <1>1, <3>1, <3>2, Copy DEF Has, SameRelease, MayBe
  <2>4. Consistent(spec, anno, status)'
    BY <2>1, <2>3
    DEF OutcomeInductive, Consistent, Observes, RollbackObserved, HoldsObserved,
        Continued, Released, RollsOn, GivenBack
  <2>5. Writes(rec.br.status)'
    BY <2>1, <2>2, <2>4 DEF Writes
  <2>. QED
    BY <1>1, <2>4, <2>5 DEF OutcomeInductive
<1>. QED
  BY <1>2, <1>3

(* What the rolling handlers know of the object the API server holds.      *)
LEMMA RollingSame ==
  ASSUME TypeOK, OutcomeInductive, Rolling
  PROVE  /\ Has(rec.br.status, status.phase, status.idx, rec.old.status.state,
                status.observed, status.fence)
         /\ anno.rollback => Observed
         /\ Observed => spec = rec.old.spec
         /\ SameRelease(rec.old.status, status)
         /\ status.phase \in RollingPhases
<1>1. pc = "do" /\ ~rec.old.anno.rollback /\ rec.old.status.phase \in RollingPhases
  BY RollingCopy
<1>2. OnlyUsersActed(rec.old)
  BY <1>1 DEF OutcomeInductive
<1>3. SameRelease(rec.old.status, status)
  BY <1>2 DEF OnlyUsersActed, SameRelease, MayBe
<1>4. spec.template \in Templates
  BY DEF TypeOK, SpecType
<1>5. Observed => spec = rec.old.spec
  BY <1>1, <1>2, <1>4, NoHash DEF OnlyUsersActed, Observed
<1>6. anno.rollback => Observed
  BY <1>1, <1>2 DEF OnlyUsersActed
<1>. QED
  BY <1>1, <1>3, <1>5, <1>6, Copy DEF SameRelease, MayBe, Has

(* stepByStep, Blocking: only the last step continues by itself.           *)
LEMMA BlockingOutcome ==
  ASSUME TypeOK, OutcomeInductive, StepBlocking
  PROVE  OutcomeInductive'
<1>. DEFINE n == rec'.br.status
<1>1. /\ Rolling /\ pc = "do" /\ pc' = "status"
      /\ UNCHANGED <<spec, anno, status, de, approved>>
  BY DEF StepBlocking, InStep, Rolling, InPhase, Return, api, hist
<1>2. CASE ~LastStep(rec.br)
  <2>1. rec'.br = [rec.br EXCEPT !.status.reason = "StepBlocking"]
    BY <1>2 DEF StepBlocking, Return, TypeOK, LocalsType
  <2>2. Has([rec.br EXCEPT !.status.reason = "StepBlocking"].status,
            rec.br.status.phase, rec.br.status.idx,
            rec.br.status.state, rec.br.status.observed, rec.br.status.fence)
    BY RecType, CopyFields
  <2>. QED
    BY <1>1, <2>1, <2>2, ReturnsSame
<1>3. CASE LastStep(rec.br)
  <2>1. rec'.br = [rec.br EXCEPT !.status.state = "Completed"]
    BY <1>3 DEF StepBlocking, Return, TypeOK, LocalsType
  <2>2. Has([rec.br EXCEPT !.status.state = "Completed"].status, rec.br.status.phase,
            rec.br.status.idx, "Completed", rec.br.status.observed, rec.br.status.fence)
    BY RecType, CopyFields
  <2>3. /\ n.phase = status.phase /\ n.idx = status.idx /\ n.state = "Completed"
        /\ n.observed = status.observed /\ n.fence = status.fence
        /\ n.idx = rec.old.spec.steps - 1
    BY <1>1, <1>3, <2>1, <2>2, RollingSame, Copy DEF Has, LastStep
  <2>4. Consistent(spec, anno, status)
    BY DEF OutcomeInductive
  <2>5. Observes(n) /\ RollbackObserved(spec, anno, n) /\ HoldsObserved(anno, n)
          /\ Released(anno, n)
    BY <2>3, <2>4 DEF Consistent, Observes, RollbackObserved, HoldsObserved, RollsOn, Released,
                     GivenBack
  <2>6. n.observed = Hash[spec.template] => n.idx = spec.steps - 1
    BY <1>1, <2>3, RollingSame DEF Observed
  <2>7. Continued(spec, anno, n)
    BY <2>3, <2>4, <2>6 DEF Consistent, Continued
  <2>8. Writes(n)
    BY <2>3, <2>5, <2>7 DEF Writes, Consistent
  <2>. QED
    BY <1>1, <2>8, QuietOutcome
<1>. QED
  BY <1>2, <1>3

(* stepByStep, Completed: the step that is left has been continued.        *)
LEMMA CompletedOutcome ==
  ASSUME TypeOK, OutcomeInductive, StepCompleted
  PROVE  OutcomeInductive'
<1>. DEFINE o == rec.old
           n == rec'.br.status
<1>1. /\ Rolling /\ pc = "do" /\ pc' = "status" /\ rec.br.status.state = "Completed"
      /\ UNCHANGED <<spec, anno, status, de, approved>>
  BY DEF StepCompleted, InStep, Rolling, InPhase, Return, api, hist
<1>2. Consistent(spec, anno, status) /\ Consistent(o.spec, o.anno, o.status)
  BY <1>1 DEF OutcomeInductive
<1>3. /\ rec.br.status.phase = status.phase /\ rec.br.status.idx = status.idx
      /\ rec.br.status.observed = status.observed /\ rec.br.status.fence = status.fence
      /\ status.phase \in RollingPhases
      /\ o.status.state = "Completed" /\ o.status.idx = status.idx
      /\ o.status.observed = status.observed
      /\ rec.br.spec = o.spec
  BY <1>1, RollingSame, Copy DEF Has, SameRelease, MayBe
<1>4. /\ RollsOn(o.anno, o.status)
      /\ o.status.observed = Hash[o.spec.template]
      /\ o.status.observed = Hash[de.template]
  BY <1>1, RollingCopy
<1>5. 0 .. status.idx - 1 \subseteq approved
  BY <1>2, <1>3 DEF Consistent, Continued
<1>6. CASE LastStep(rec.br)
  <2>1. rec'.br = [rec.br EXCEPT !.status.phase = "Finalizing"]
    BY <1>6 DEF StepCompleted, Return, TypeOK, LocalsType
  <2>2. Has([rec.br EXCEPT !.status.phase = "Finalizing"].status, "Finalizing",
            rec.br.status.idx, rec.br.status.state, rec.br.status.observed, rec.br.status.fence)
    BY RecType, CopyFields
  <2>3. /\ n.phase = "Finalizing" /\ n.idx = status.idx /\ n.state = "Completed"
        /\ n.observed = status.observed
    BY <1>1, <1>3, <2>1, <2>2 DEF Has
  <2>4. Observes(n)
    BY <1>2, <1>3, <2>3 DEF Consistent, Observes, EarlyPhases, RollingPhases
  <2>5. RollbackObserved(spec, anno, n)
    BY <1>1, <2>3, RollingSame DEF RollbackObserved, Observed
  <2>6. HoldsObserved(anno, n) /\ Released(anno, n)
    BY <1>3, <1>4, <2>3 DEF HoldsObserved, Released
  <2>7. Continued(spec, anno, n)
    BY <1>5, <2>3 DEF Continued, RollsOn
  <2>8. Writes(n)
    BY <2>3, <2>4, <2>5, <2>6, <2>7 DEF Writes, Consistent
  <2>. QED
    BY <1>1, <2>8, QuietOutcome
<1>7. CASE ~LastStep(rec.br)
  <2>1. rec'.br = [rec.br EXCEPT !.status.idx = @ + 1, !.status.state = "Initial"]
    BY <1>7 DEF StepCompleted, Return, TypeOK, LocalsType
  <2>2. Has([rec.br EXCEPT !.status.idx = @ + 1, !.status.state = "Initial"].status,
            rec.br.status.phase, rec.br.status.idx + 1, "Initial", rec.br.status.observed,
            rec.br.status.fence)
    BY RecType, CopyFields
  <2>3. /\ n.phase = status.phase /\ n.idx = status.idx + 1 /\ n.state = "Initial"
        /\ n.observed = status.observed /\ n.fence = status.fence
    BY <1>3, <2>1, <2>2 DEF Has
  <2>4. status.idx \in approved
    BY <1>2, <1>3, <1>4, <1>7 DEF Consistent, Continued, LastStep
  <2>5. 0 .. n.idx - 1 \subseteq approved
    <3>1. status.idx \in Nat
      BY DEF TypeOK, StatusType
    <3>2. \A i \in Nat : 0 .. (i + 1) - 1 = (0 .. i - 1) \cup {i}
      OBVIOUS
    <3>. QED
      BY <1>5, <2>3, <2>4, <3>1, <3>2
  <2>6. Observes(n) /\ RollbackObserved(spec, anno, n) /\ HoldsObserved(anno, n)
          /\ Released(anno, n)
    BY <1>2, <2>3 DEF Consistent, Observes, RollbackObserved, HoldsObserved, RollsOn, Released,
                     GivenBack
  <2>7. Continued(spec, anno, n)
    BY <2>3, <2>5 DEF Continued
  <2>8. Writes(n)
    BY <2>3, <2>6, <2>7 DEF Writes, Consistent
  <2>. QED
    BY <1>1, <2>8, QuietOutcome
<1>. QED
  BY <1>6, <1>7

(* finalize gives the Deployment back with the fenceposts captured.        *)
LEMMA GiveBackOutcome ==
  ASSUME TypeOK, OutcomeInductive, FinalizeDeployment
  PROVE  OutcomeInductive'
<1>. DEFINE o == rec.old
<1>1. pc = "do" /\ rec.br.status.phase = "Finalizing" /\ ~TemplateChanged(rec.br)
  BY DEF FinalizeDeployment, InPhase
<1>2. CASE Fail(rec.br)
  <2>1. /\ UNCHANGED <<spec, anno, status, de, approved>> /\ pc' = "status"
        /\ rec'.br = rec.br
    BY <1>2 DEF Fail, api, hist, TypeOK, LocalsType
  <2>. QED
    BY <1>1, <2>1, ReturnsSame DEF Has
<1>3. CASE ~Fail(rec.br)
  <2>1. /\ UNCHANGED <<spec, anno, status, cache, rec, approved>> /\ pc' = "record"
        /\ ~de'.paused /\ ~de'.owned /\ de'.fence = rec.br.status.fence
        /\ de'.template = de.template
    BY <1>3 DEF FinalizeDeployment, hist, TypeOK, DeploymentType
  <2>2. /\ Consistent(o.spec, o.anno, o.status) /\ Consistent(spec, anno, status)
        /\ rec.br = [o EXCEPT !.status.reason = ""] /\ OnlyUsersActed(o)
    BY <1>1 DEF OutcomeInductive
  <2>3. /\ o.status.phase = "Finalizing" /\ status.phase = "Finalizing"
        /\ o.status.fence = rec.br.status.fence
        /\ rec.br.spec = o.spec /\ rec.br.anno = o.anno
        /\ rec.br.status.observed = o.status.observed
    <3>1. SameRelease(o.status, status)
      BY <2>2 DEF OnlyUsersActed, SameRelease, MayBe
    <3>. QED
      BY <1>1, <3>1, Copy DEF Has, SameRelease, MayBe
  <2>4. o.status.observed = Hash[o.spec.template]
    BY <1>1, <2>2, <2>3
    DEF TemplateChanged, Consistent, Observes, RollbackObserved, EarlyPhases
  <2>5. GivenBack(rec.old.status)'
    BY <2>1, <2>3 DEF GivenBack
  <2>6. Consistent(rec.old.spec, rec.old.anno, rec.old.status)'
    BY <2>1, <2>2, <2>3
    DEF Consistent, Observes, RollbackObserved, HoldsObserved, Continued, Released, RollsOn
  <2>7. Consistent(spec, anno, status)'
    BY <2>1, <2>2, <2>3
    DEF Consistent, Observes, RollbackObserved, HoldsObserved, Continued, Released, RollsOn
  <2>8. OnlyUsersActed(rec.old)'
    BY <2>1, <2>2 DEF OnlyUsersActed, SameRelease, MayBe, Observed
  <2>. QED
    BY <2>1, <2>2, <2>3, <2>4, <2>5, <2>6, <2>7, <2>8 DEF OutcomeInductive
<1>. QED
  BY <1>2, <1>3

(* finalize records the version that was released.                         *)
LEMMA RecordOutcome ==
  ASSUME TypeOK, OutcomeInductive, FinalizeRecord
  PROVE  OutcomeInductive'
<1>. DEFINE o == rec.old
           t == rec.br.spec.template
<1>1. pc = "record"
  BY DEF FinalizeRecord
<1>2. CASE Fail(rec.br)
  <2>1. /\ UNCHANGED <<spec, anno, status, de, approved>> /\ pc' = "status"
        /\ rec'.br = rec.br
    BY <1>2 DEF Fail, api, hist, TypeOK, LocalsType
  <2>. QED
    BY <1>1, <2>1, ReturnsSame DEF Has
<1>3. CASE ~Fail(rec.br)
  <2>. DEFINE n == rec'.br.status
  <2>1. /\ UNCHANGED <<spec, status, de, approved>> /\ pc' = "status"
        /\ rec'.br = [rec.br EXCEPT !.status.phase = "Completed"]
        /\ IF NeedsRecord(rec.br.anno, t) THEN RecordStableVersion(rec.br.anno, t)
                                          ELSE anno' = anno
    BY <1>3 DEF FinalizeRecord, Return, env, hist, TypeOK, LocalsType
  <2>2. /\ GivenBack(o.status) /\ o.status.phase = "Finalizing"
        /\ o.status.observed = Hash[o.spec.template]
        /\ Consistent(spec, anno, status) /\ OnlyUsersActed(o)
    BY <1>1 DEF OutcomeInductive
  <2>3. SameRelease(o.status, status) /\ anno.cur = o.anno.cur
    BY <2>2 DEF OnlyUsersActed, SameRelease, MayBe
  <2>4. Has([rec.br EXCEPT !.status.phase = "Completed"].status, "Completed",
            rec.br.status.idx, rec.br.status.state, rec.br.status.observed, rec.br.status.fence)
    BY RecType, CopyFields
  <2>5. /\ n.phase = "Completed" /\ n.idx = status.idx /\ n.state = o.status.state
        /\ n.observed = status.observed /\ n.fence = o.status.fence
        /\ n.observed = Hash[t]
        /\ rec.br.anno.cur = anno.cur /\ t \in Templates
    BY <1>1, <2>1, <2>2, <2>3, <2>4, Copy DEF Has, SameRelease, MayBe, SpecType
  <2>6. /\ anno'.rollback = anno.rollback
        /\ anno'.cur # None /\ Hash[anno'.cur] = Hash[t]
    <3>1. CASE NeedsRecord(rec.br.anno, t)
      <4>1. anno'.rollback = anno.rollback /\ anno'.cur = t
        BY <2>1, <3>1 DEF RecordStableVersion, TypeOK, AnnoType
      <4>. QED
        BY <2>5, <4>1, NoneAssumption
    <3>2. CASE ~NeedsRecord(rec.br.anno, t)
      BY <2>1, <2>5, <3>2 DEF NeedsRecord
    <3>. QED
      BY <3>1, <3>2
  <2>7. status.phase = "Finalizing"
    BY <2>2, <2>3 DEF SameRelease, MayBe
  <2>8. Consistent(spec, anno, status)'
    BY <2>1, <2>2, <2>6, <2>7
    DEF Consistent, Observes, RollbackObserved, HoldsObserved, Continued, Released, RollsOn
  <2>9. n.state = "" => n.idx = 0
    BY <2>2, <2>3, <2>5 DEF Consistent, Observes, SameRelease, MayBe
  <2>10. Observes(rec.br.status)'
    BY <2>2, <2>5, <2>7, <2>9 DEF Consistent, Observes, EarlyPhases
  <2>11. RollbackObserved(spec, anno, rec.br.status)' /\ HoldsObserved(anno, rec.br.status)'
    BY <2>5 DEF RollbackObserved, HoldsObserved, RollsOn
  <2>12. Continued(spec, anno, rec.br.status)'
    BY <2>5 DEF Continued, RollsOn, RollingPhases
  <2>13. Released(anno, rec.br.status)'
    BY <2>1, <2>2, <2>5, <2>6 DEF Released, GivenBack
  <2>14. Writes(rec.br.status)'
    BY <2>1, <2>5, <2>10, <2>11, <2>12, <2>13 DEF Writes, Consistent
  <2>. QED
    BY <2>1, <2>8, <2>14 DEF OutcomeInductive
<1>. QED
  BY <1>2, <1>3

(* When the reconcile ends, only the release itself matters.               *)
LEMMA IdleOutcome ==
  ASSUME OutcomeInductive, UNCHANGED <<spec, anno, status, de, approved>>,
         pc' \in {"idle", "end"}
  PROVE  OutcomeInductive'
<1>1. Consistent(spec, anno, status)'
  BY DEF OutcomeInductive, Consistent, Observes, RollbackObserved, HoldsObserved,
         Continued, Released, RollsOn, GivenBack
<1>. QED
  BY <1>1 DEF OutcomeInductive

(* Whatever handler runs, the status it returns with may be written.       *)
LEMMA DoOutcome ==
  ASSUME TypeOK, StableRecorded, OutcomeInductive, Do
  PROVE  OutcomeInductive'
<1>1. CASE HandlePodTemplateUpdate
  BY <1>1, TemplateOutcome
<1>2. CASE PhaseInitial
  <2>. DEFINE b1 == [rec.br EXCEPT !.status.phase = "Initial"]
  <2>1. InitRelease(b1, "RollingUpdate") /\ Called(b1, "RollingUpdate")
    BY <1>2, InitialIsCalled DEF PhaseInitial
  <2>. HIDE DEF b1
  <2>. QED
    BY <2>1, InitReleaseOutcome
<1>3. CASE RollbackWhileRolling \/ RollbackAfterCompletion
  <2>1. /\ pc = "do" /\ rec.br.anno.rollback
        /\ rec.br.status.phase \in {"RollingUpdate", "Completed"}
        /\ PreRollback(rec.br, rec.br.anno.cur) \/ PreRollback(rec.br, rec.br.anno.last)
    BY <1>3 DEF RollbackWhileRolling, RollbackAfterCompletion, InPhase
  <2>. QED
    BY <2>1, PreRollbackOutcome
<1>4. CASE RemoveRollbackMark
  BY <1>4, MarkOutcome
<1>5. CASE NothingToDo
  <2>1. /\ UNCHANGED <<spec, anno, status, de, approved>> /\ pc = "do" /\ pc' = "status"
        /\ rec'.br = rec.br
    BY <1>5 DEF NothingToDo, InPhase, Return, api, hist, TypeOK, LocalsType
  <2>. QED
    BY <2>1, ReturnsSame DEF Has
<1>6. CASE SyncScaling \/ StepInitial \/ StepUpgrade
  <2>1. /\ UNCHANGED <<spec, anno, status, de, approved>> /\ pc = "do" /\ pc' = "status"
        /\ \/ rec'.br = rec.br
           \/ \E q \in {"Initial", "Upgrade", "Blocking"} :
                rec'.br = [rec.br EXCEPT !.status.state = q]
    <3>1. CASE SyncScaling
      BY <3>1 DEF SyncScaling, Rolling, InPhase, Return, Fail, api, hist, TypeOK, LocalsType
    <3>2. CASE StepInitial
      BY <3>2 DEF StepInitial, InStep, Rolling, InPhase, Return, api, hist, TypeOK, LocalsType
    <3>3. CASE StepUpgrade
      BY <3>3 DEF StepUpgrade, InStep, Rolling, InPhase, Return, api, hist, TypeOK, LocalsType
    <3>. QED
      BY <1>6, <3>1, <3>2, <3>3
  <2>2. CASE rec'.br = rec.br
    BY <2>1, <2>2, ReturnsSame DEF Has
  <2>3. ASSUME NEW q \in {"Initial", "Upgrade", "Blocking"},
               rec'.br = [rec.br EXCEPT !.status.state = q]
        PROVE  OutcomeInductive'
    BY <2>1, <2>3, ReturnsState
  <2>. QED
    BY <2>1, <2>2, <2>3
<1>7. CASE StepUpgradePanics
  <2>1. UNCHANGED <<spec, anno, status, de, approved>> /\ pc' = "idle"
    BY <1>7 DEF StepUpgradePanics, api, hist
  <2>. QED
    BY <2>1, IdleOutcome
<1>8. CASE StepBlocking
  BY <1>8, BlockingOutcome
<1>9. CASE StepCompleted
  BY <1>9, CompletedOutcome
<1>10. CASE FinalizeDeployment
  BY <1>10, GiveBackOutcome
<1>11. CASE FinalizeRecord
  BY <1>11, RecordOutcome
<1>. QED
  BY <1>1, <1>2, <1>3, <1>4, <1>5, <1>6, <1>7, <1>8, <1>9, <1>10, <1>11 DEF Do

(***************************************************************************)
(* Everything else                                                         *)
(***************************************************************************)
(* A step that leaves the release, the Deployment, and the reconcile alone,*)
(* if it is not the informer's.                                            *)
LEMMA UnseenOutcome ==
  ASSUME OutcomeInductive, UNCHANGED <<spec, anno, status, de, cache, pc, rec, approved>>
  PROVE  OutcomeInductive'
<1>1. Consistent(spec, anno, status)'
  BY DEF OutcomeInductive, Consistent, Observes, RollbackObserved, HoldsObserved,
         Continued, Released, RollsOn, GivenBack
<1>2. pc = "status" => Writes(rec.br.status)'
  <2>. SUFFICES ASSUME pc = "status" PROVE Writes(rec.br.status)'
    OBVIOUS
  <2>1. Consistent(spec, anno, rec.br.status)'
    BY DEF OutcomeInductive, Writes, Consistent, Observes, RollbackObserved, HoldsObserved,
           Continued, Released, RollsOn, GivenBack
  <2>. QED
    BY <2>1 DEF OutcomeInductive, Writes, Observed
<1>3. pc \in {"do", "record"} => Consistent(rec.old.spec, rec.old.anno, rec.old.status)'
  BY DEF OutcomeInductive, Consistent, Observes, RollbackObserved, HoldsObserved,
         Continued, Released, RollsOn, GivenBack
<1>4. pc \in {"do", "record"} => OnlyUsersActed(rec.old)'
  BY DEF OutcomeInductive, OnlyUsersActed, SameRelease, MayBe, Observed
<1>. QED
  BY <1>1, <1>2, <1>3, <1>4 DEF OutcomeInductive, GivenBack

(* A user continues a step.                                                *)
LEMMA ApproveOutcome ==
  ASSUME TypeOK, OutcomeInductive, UserApprove
  PROVE  OutcomeInductive'
<1>1. /\ UNCHANGED <<spec, anno, de, cache, pc, rec>> /\ status.state = "Blocking"
      /\ approved' = approved \cup {status.idx}
      /\ Has(status', status.phase, status.idx, "Completed", status.observed, status.fence)
  BY DEF UserApprove, Has, TypeOK, StatusType
<1>2. ASSUME NEW sp, NEW an, NEW st, Continued(sp, an, st)
      PROVE  /\ st.phase \in RollingPhases \cup {"Finalizing"} =>
                  0 .. st.idx - 1 \subseteq approved'
             /\ RollsOn(an, st) /\ st.state = "Completed" /\ st.observed = Hash[sp.template] =>
                  st.idx \in approved' \/ st.idx = sp.steps - 1
  BY <1>1, <1>2 DEF Continued
<1>3. Consistent(spec, anno, status)'
  <2>1. Observes(status)' /\ RollbackObserved(spec, anno, status)' /\ HoldsObserved(anno, status)'
          /\ Released(anno, status)'
    BY <1>1 DEF Has, OutcomeInductive, Consistent, Observes, RollbackObserved, HoldsObserved,
               Released, RollsOn, GivenBack
  <2>2. Continued(spec, anno, status)'
    BY <1>1 DEF Has, OutcomeInductive, Consistent, Continued
  <2>. QED
    BY <2>1, <2>2 DEF Consistent
<1>4. pc = "status" => Writes(rec.br.status)'
  <2>. SUFFICES ASSUME pc = "status" PROVE Writes(rec.br.status)'
    OBVIOUS
  <2>1. Writes(rec.br.status)
    BY DEF OutcomeInductive
  <2>2. Continued(spec, anno, rec.br.status)'
    BY <1>1, <1>2, <2>1 DEF Writes, Consistent, Continued, RollsOn
  <2>3. Consistent(spec, anno, rec.br.status)'
    BY <1>1, <2>1, <2>2 DEF Writes, Consistent, Observes, RollbackObserved, HoldsObserved,
                           Released, RollsOn, GivenBack
  <2>. QED
    BY <1>1, <2>1, <2>3 DEF Writes, Observed, Has
<1>5. pc \in {"do", "record"} => /\ Consistent(rec.old.spec, rec.old.anno, rec.old.status)'
                                 /\ OnlyUsersActed(rec.old)'
  <2>. SUFFICES ASSUME pc \in {"do", "record"}
                PROVE  /\ Consistent(rec.old.spec, rec.old.anno, rec.old.status)'
                       /\ OnlyUsersActed(rec.old)'
    OBVIOUS
  <2>1. Consistent(rec.old.spec, rec.old.anno, rec.old.status) /\ OnlyUsersActed(rec.old)
    BY DEF OutcomeInductive
  <2>2. Continued(rec.old.spec, rec.old.anno, rec.old.status)'
    BY <1>1, <1>2, <2>1 DEF Consistent, Continued, RollsOn
  <2>3. Consistent(rec.old.spec, rec.old.anno, rec.old.status)'
    BY <1>1, <2>1, <2>2 DEF Consistent, Observes, RollbackObserved, HoldsObserved,
                           Released, RollsOn, GivenBack
  <2>4. OnlyUsersActed(rec.old)'
    BY <1>1, <2>1 DEF OnlyUsersActed, SameRelease, MayBe, Observed, Has
  <2>. QED
    BY <2>3, <2>4
<1>. QED
  BY <1>1, <1>3, <1>4, <1>5 DEF OutcomeInductive, GivenBack

(* A patient user releases another template: nobody sees it observed.      *)
LEMMA ReleasesOutcome ==
  ASSUME Patient = TRUE, TypeOK, OutcomeInductive, NEW t \in Templates, NEW k \in PlanLengths,
         UserReleases(t, k)
  PROVE  OutcomeInductive'
<1>1. /\ UNCHANGED <<anno, status, de, cache, pc, rec, approved>>
      /\ Hash[t] # Hash[spec.template]
      /\ ~anno.rollback /\ (status.observed = None \/ Observed)
      /\ spec' = [template |-> t, steps |-> k]
  BY DEF UserReleases, hist
<1>2. spec'.template = t /\ ~Observed' /\ status.observed # Hash[t]
  BY <1>1, NoHash DEF Observed
<1>3. Consistent(spec, anno, status)'
  BY <1>1, <1>2
  DEF OutcomeInductive, Consistent, Observes, RollbackObserved, HoldsObserved,
      Continued, Released, RollsOn, GivenBack
<1>4. pc = "status" => Writes(rec.br.status)'
  <2>. SUFFICES ASSUME pc = "status" PROVE Writes(rec.br.status)'
    OBVIOUS
  <2>. DEFINE n == rec.br.status
  <2>1. Writes(n)
    BY DEF OutcomeInductive
  <2>2. n.state = "Completed" /\ n.phase \in RollingPhases => n.observed # Hash[t]
    BY <1>2, <2>1 DEF Writes, RollingPhases, EarlyPhases
  <2>3. Continued(spec, anno, rec.br.status)'
    BY <1>1, <1>2, <2>1, <2>2 DEF Writes, Consistent, Continued, RollsOn, RollingPhases
  <2>4. Consistent(spec, anno, rec.br.status)'
    BY <1>1, <2>1, <2>3
    DEF Writes, Consistent, Observes, RollbackObserved, HoldsObserved, Released, RollsOn, GivenBack
  <2>. QED
    BY <1>1, <1>2, <2>1, <2>4 DEF Writes
<1>5. pc \in {"do", "record"} => Consistent(rec.old.spec, rec.old.anno, rec.old.status)'
  BY <1>1 DEF OutcomeInductive, Consistent, Observes, RollbackObserved, HoldsObserved,
         Continued, Released, RollsOn, GivenBack
<1>6. pc \in {"do", "record"} => OnlyUsersActed(rec.old)'
  BY <1>1, <1>2 DEF OutcomeInductive, OnlyUsersActed, SameRelease, MayBe
<1>. QED
  BY <1>1, <1>3, <1>4, <1>5, <1>6 DEF OutcomeInductive, GivenBack

(* A patient user asks for a rollback of the template he sees observed.    *)
LEMMA RollsBackOutcome ==
  ASSUME Patient = TRUE, TypeOK, OutcomeInductive, UserRollsBack
  PROVE  OutcomeInductive'
<1>1. /\ UNCHANGED <<spec, status, de, cache, pc, rec, approved>>
      /\ ~anno.rollback /\ Observed
      /\ anno'.rollback /\ anno'.cur = anno.cur /\ anno'.last = anno.last
  BY DEF UserRollsBack, hist, TypeOK, AnnoType
<1>2. spec.template \in Templates /\ status.observed # None
  BY <1>1, NoHash DEF TypeOK, SpecType, Observed
<1>3. Consistent(spec, anno, status)'
  BY <1>1
  DEF OutcomeInductive, Consistent, Observes, RollbackObserved, HoldsObserved,
      Continued, Released, RollsOn, Observed
<1>4. pc = "status" => Writes(rec.br.status)'
  <2>. SUFFICES ASSUME pc = "status" PROVE Writes(rec.br.status)'
    OBVIOUS
  <2>1. Writes(rec.br.status)
    BY DEF OutcomeInductive
  <2>2. rec.br.status.observed = Hash[spec.template]
    BY <1>1, <2>1 DEF Writes, Observed
  <2>3. Consistent(spec, anno, rec.br.status)'
    BY <1>1, <2>1, <2>2
    DEF Writes, Consistent, Observes, RollbackObserved, HoldsObserved, Continued, Released, RollsOn
  <2>. QED
    BY <1>1, <2>1, <2>3 DEF Writes
<1>5. pc \in {"do", "record"} => Consistent(rec.old.spec, rec.old.anno, rec.old.status)'
  BY <1>1 DEF OutcomeInductive, Consistent, Observes, RollbackObserved, HoldsObserved,
         Continued, Released, RollsOn, GivenBack
<1>6. pc \in {"do", "record"} => OnlyUsersActed(rec.old)'
  BY <1>1, <1>2 DEF OutcomeInductive, OnlyUsersActed, SameRelease, MayBe, Observed
<1>. QED
  BY <1>1, <1>3, <1>4, <1>5, <1>6 DEF OutcomeInductive, GivenBack

(* A reconcile begins with the current version.                            *)
LEMMA StartOutcome ==
  ASSUME StaleReads = FALSE, TypeOK, OutcomeInductive, StartReconcile
  PROVE  OutcomeInductive'
<1>1. /\ UNCHANGED <<spec, anno, status, de, cache, approved>> /\ pc' = "do"
      /\ cache = Current /\ rec' = Locals(cache, de)
  BY DEF StartReconcile, CacheFresh, api, hist
<1>2. rec'.old = Current /\ rec'.br = [rec'.old EXCEPT !.status.reason = ""]
  BY <1>1 DEF Locals
<1>3. rec'.old.spec = spec /\ rec'.old.anno = anno /\ rec'.old.status = status
        /\ cache.status = status
  <2>1. Current.spec = spec /\ Current.anno = anno /\ Current.status = status
    BY DEF Current
  <2>. QED
    BY <1>1, <1>2, <2>1
<1>4. Consistent(spec, anno, status)
  BY DEF OutcomeInductive
<1>5. Consistent(spec, anno, status)' /\ Consistent(rec.old.spec, rec.old.anno, rec.old.status)'
  BY <1>1, <1>3, <1>4 DEF Consistent, Observes, RollbackObserved, HoldsObserved,
         Continued, Released, RollsOn, GivenBack
<1>6. OnlyUsersActed(rec.old)'
  BY <1>1, <1>3 DEF OnlyUsersActed, SameRelease, MayBe
<1>. QED
  BY <1>1, <1>2, <1>5, <1>6 DEF OutcomeInductive

(* The status is written.                                                  *)
LEMMA SyncOutcome ==
  ASSUME OutcomeInductive, SyncStatus
  PROVE  OutcomeInductive'
<1>1. UNCHANGED <<spec, anno, de>> /\ pc = "status" /\ pc' = "end"
  BY DEF SyncStatus, api
<1>2. CASE UNCHANGED <<status, approved>>
  BY <1>1, <1>2, IdleOutcome
<1>3. CASE ~UNCHANGED <<status, approved>>
  <2>. DEFINE n == rec.br.status
  <2>1. status' = n /\ approved' = IF n.state = "" THEN {} ELSE approved
    BY <1>3 DEF SyncStatus, api, hist
  <2>2. Consistent(spec, anno, n)
    BY <1>1 DEF OutcomeInductive, Writes
  <2>3. Observes(status)' /\ RollbackObserved(spec, anno, status)' /\ HoldsObserved(anno, status)'
          /\ Released(anno, status)'
    BY <1>1, <2>1, <2>2 DEF Consistent, Observes, RollbackObserved, HoldsObserved,
               Released, RollsOn, GivenBack
  <2>4. Continued(spec, anno, status)'
    <3>1. CASE n.state = ""
      <4>1. 0 .. n.idx - 1 = {}
        BY <2>2, <3>1, NoSteps DEF Consistent, Observes
      <4>. QED
        BY <2>1, <3>1, <4>1 DEF Continued
    <3>2. CASE n.state # ""
      BY <1>1, <2>1, <2>2, <3>2 DEF Consistent, Continued
    <3>. QED
      BY <3>1, <3>2
  <2>. QED
    BY <1>1, <2>3, <2>4 DEF OutcomeInductive, Consistent
<1>. QED
  BY <1>2, <1>3

(* The informer delivers the current version.                              *)
LEMMA DeliverOutcome ==
  ASSUME OutcomeInductive, DeliverBatchRelease
  PROVE  OutcomeInductive'
<1>1. UNCHANGED <<spec, anno, status, de, pc, rec, approved>> /\ cache'.status = status
  BY DEF DeliverBatchRelease, api, hist, Current
<1>2. Consistent(spec, anno, status)'
  BY <1>1 DEF OutcomeInductive, Consistent, Observes, RollbackObserved, HoldsObserved,
         Continued, Released, RollsOn, GivenBack
<1>3. pc = "status" => Writes(rec.br.status)'
  <2>. SUFFICES ASSUME pc = "status" PROVE Writes(rec.br.status)'
    OBVIOUS
  <2>1. Consistent(spec, anno, rec.br.status)'
    BY <1>1 DEF OutcomeInductive, Writes, Consistent, Observes, RollbackObserved, HoldsObserved,
           Continued, Released, RollsOn, GivenBack
  <2>. QED
    BY <1>1, <2>1 DEF OutcomeInductive, Writes, Observed
<1>4. pc \in {"do", "record"} => Consistent(rec.old.spec, rec.old.anno, rec.old.status)'
  BY <1>1 DEF OutcomeInductive, Consistent, Observes, RollbackObserved, HoldsObserved,
         Continued, Released, RollsOn, GivenBack
<1>5. pc \in {"do", "record"} => OnlyUsersActed(rec.old)'
  BY <1>1 DEF OutcomeInductive, OnlyUsersActed, SameRelease, MayBe, Observed
<1>. QED
  BY <1>1, <1>2, <1>3, <1>4, <1>5 DEF OutcomeInductive, GivenBack

(* The inductive invariant behind the theorems holds after every step.     *)
LEMMA NextOutcome ==
  ASSUME StaleReads = FALSE, Patient = TRUE, TypeOK, StableRecorded, OutcomeInductive,
         [Next]_vars
  PROVE  OutcomeInductive'
<1>1. CASE Do
  BY <1>1, DoOutcome
<1>2. CASE StartReconcile
  BY <1>2, StartOutcome
<1>3. CASE SyncStatus
  BY <1>3, SyncOutcome
<1>4. CASE EndReconcile \/ Crash
  <2>1. UNCHANGED <<spec, anno, status, de, approved>> /\ pc' = "idle"
    BY <1>4 DEF EndReconcile, Crash, api, hist
  <2>. QED
    BY <2>1, IdleOutcome
<1>5. CASE DeliverBatchRelease
  BY <1>5, DeliverOutcome
<1>6. CASE UserApprove
  BY <1>6, ApproveOutcome
<1>7. ASSUME NEW t \in Templates, NEW k \in PlanLengths, UserReleases(t, k)
      PROVE  OutcomeInductive'
  BY <1>7, ReleasesOutcome
<1>8. CASE UserRollsBack
  BY <1>8, RollsBackOutcome
<1>9. ~UserCancelsRollback /\ \A k \in PlanLengths : ~UserReplans(k)
  BY DEF UserCancelsRollback, UserReplans
<1>10. CASE PodsReady \/ DeploymentControllerScales \/ UserScales \/ UNCHANGED vars
  <2>1. UNCHANGED <<spec, anno, status, de, cache, pc, rec, approved>>
    BY <1>10 DEF PodsReady, DeploymentControllerScales, UserScales, vars, api, hist
  <2>. QED
    BY <2>1, UnseenOutcome
<1>. QED
  BY <1>1, <1>2, <1>3, <1>4, <1>5, <1>6, <1>7, <1>8, <1>9, <1>10 DEF Next, Reconcile, User

(* Nothing has been observed, continued or released when a BatchRelease    *)
(* has just been created.                                                  *)
LEMMA InitOutcome ==
  ASSUME Init
  PROVE  OutcomeInductive
<1>1. /\ status.phase = "" /\ status.observed = None /\ status.idx = 0
      /\ ~anno.rollback /\ pc = "idle"
  BY DEF Init
<1>. QED
  BY <1>1 DEF OutcomeInductive, Consistent, Observes, RollbackObserved, HoldsObserved, Continued,
    Released, RollsOn, RollingPhases, EarlyPhases

(* The invariant of all the theorems below.                                *)
LEMMA Outcome ==
  ASSUME StaleReads = FALSE, Patient = TRUE
  PROVE  Spec => [](RecordInductive /\ PausedInductive /\ OutcomeInductive)
<1>1. Init => RecordInductive /\ PausedInductive /\ OutcomeInductive
  <2>. SUFFICES ASSUME Init PROVE PausedInductive
    BY InitRecorded, InitOutcome
  <2>. QED
    BY DEF Init, PausedInductive, PausedWhileRolling, RollingPhases
<1>2. RecordInductive /\ PausedInductive /\ OutcomeInductive /\ [Next]_vars =>
        (RecordInductive /\ PausedInductive /\ OutcomeInductive)'
  BY NextRecorded, NextPaused, NextOutcome DEF RecordInductive
<1>. QED
  BY <1>1, <1>2, PTL DEF Spec

(***************************************************************************)
(* What it says about releases                                             *)
(***************************************************************************)
(* No batch is passed that nobody has continued, whatever fails on the     *)
(* way: stepByStep moves the index only over steps continued by hand since *)
(* the release began.                                                      *)
THEOREM NoStepSkipped ==
  ASSUME StaleReads = FALSE, Patient = TRUE PROVE Spec => []StepsApproved
<1>1. OutcomeInductive => StepsApproved
  BY DEF OutcomeInductive, Consistent, Continued, StepsApproved
<1>. QED
  BY <1>1, Outcome, PTL

(* The replicas a reconcile moves are those of the template the user asked *)
(* for, in a Deployment that this release holds (rollingUpdate).           *)
THEOREM ScalesWhatItHolds ==
  ASSUME StaleReads = FALSE, Patient = TRUE PROVE Spec => []ScalesOwnRelease
<1>1. RecordInductive /\ PausedInductive /\ OutcomeInductive => ScalesOwnRelease
  <2>. SUFFICES ASSUME TypeOK, PausedInductive, OutcomeInductive, Rolling
                PROVE  de.paused /\ de.owned /\ Hash[de.template] = Hash[rec.br.spec.template]
    BY DEF RecordInductive, ScalesOwnRelease
  <2>1. Hash[de.template] = Hash[rec.br.spec.template]
    BY RollingCopy, Copy
  <2>2. status.phase \in RollingPhases
    BY RollingSame
  <2>. QED
    BY <2>1, <2>2 DEF PausedInductive, PausedWhileRolling
<1>. QED
  BY <1>1, Outcome, PTL

(* A completed release has given the Deployment back as it took it over,   *)
(* fenceposts included (finalize).                                         *)
THEOREM GivesTheDeploymentBack ==
  ASSUME StaleReads = FALSE, Patient = TRUE PROVE Spec => []ReleasedWhenCompleted
<1>1. OutcomeInductive => ReleasedWhenCompleted
  BY DEF OutcomeInductive, Consistent, Released, GivenBack, ReleasedWhenCompleted
<1>. QED
  BY <1>1, Outcome, PTL

(* The next rollback after a completed release goes to a version with the  *)
(* hash that release has observed (finalize, recordStableVersion).         *)
THEOREM RecordsWhatItReleased ==
  ASSUME StaleReads = FALSE, Patient = TRUE PROVE Spec => []StableIsReleased
<1>1. OutcomeInductive => StableIsReleased
  BY DEF OutcomeInductive, Consistent, Released, StableIsReleased
<1>. QED
  BY <1>1, Outcome, PTL

(***************************************************************************)
(* Stable versions have been deployed                                      *)
(***************************************************************************)
HashInjective == \A s, t \in Templates : Hash[s] = Hash[t] => s = t

(* Only the reconcile records versions, and only init deploys them.        *)
LEMMA DeployedKept ==
  ASSUME DeployedInductive, anno'.cur = anno.cur, anno'.last = anno.last,
         de'.template = de.template, rec'.de.template \in {rec.de.template, de.template},
         deployed' = deployed
  PROVE  DeployedInductive'
  BY DEF DeployedInductive, StableWasDeployed

(* recordStableVersion of a version that has been deployed.                *)
LEMMA DeployedRecord ==
  ASSUME TypeOK, DeployedInductive, NEW a0, a0.cur = anno.cur, NEW t \in deployed,
         RecordStableVersion(a0, t), UNCHANGED <<de, deployed>>, rec'.de = rec.de
  PROVE  DeployedInductive'
<1>1. anno'.cur = t /\ anno'.last \in {t, anno.cur} /\ (anno.cur = None => anno'.last = t)
  BY DEF RecordStableVersion, TypeOK, AnnoType
<1>. QED
  BY <1>1 DEF DeployedInductive, StableWasDeployed

(* Executor.init deploys what it takes over with.                          *)
LEMMA DeployedInit ==
  ASSUME TypeOK, OutcomeInductive, DeployedInductive, NEW b0, NEW target,
         Called(b0, target), InitRelease(b0, target)
  PROVE  DeployedInductive'
<1>1. CASE Fail(b0) \/ Fail(Restarted(b0)) \/ CaptureFence(b0)
  <2>1. UNCHANGED <<anno, de, deployed>> /\ rec'.de = rec.de
    BY <1>1 DEF Fail, CaptureFence, Return, api, hist, TypeOK, LocalsType
  <2>. QED
    BY <2>1, DeployedKept
<1>2. CASE RecordInitial(b0) /\ ~Fail(b0)
  <2>1. UNCHANGED <<de, deployed>> /\ rec'.de = rec.de
          /\ RecordStableVersion(b0.anno, rec.de.template)
    BY <1>2 DEF RecordInitial, Return, hist, TypeOK, LocalsType
  <2>2. b0.anno.cur = anno.cur /\ rec.de.template \in deployed
    BY DEF Called, OutcomeInductive, OnlyUsersActed, DeployedInductive
  <2>. QED
    BY <2>1, <2>2, DeployedRecord
<1>3. CASE TakeOver(b0, target) /\ ~Fail(Restarted(b0))
  <2>1. UNCHANGED anno /\ rec'.de = rec.de /\ de'.template = b0.spec.template
          /\ deployed' = deployed \cup {b0.spec.template}
    BY <1>3 DEF TakeOver, Return, TypeOK, LocalsType
  <2>. QED
    BY <2>1 DEF DeployedInductive, StableWasDeployed
<1>. QED
  BY <1>1, <1>2, <1>3 DEF InitRelease, RecordInitial, TakeOver

(* The version finalize records is the one the Deployment holds.           *)
LEMMA DeployedFinalize ==
  ASSUME HashInjective, TypeOK, OutcomeInductive, DeployedInductive, FinalizeRecord
  PROVE  DeployedInductive'
<1>. DEFINE o == rec.old
           t == rec.br.spec.template
<1>1. pc = "record" /\ UNCHANGED <<de, deployed>> /\ rec'.de = rec.de
        /\ (anno' = anno \/ RecordStableVersion(rec.br.anno, t))
  BY DEF FinalizeRecord, Return, Fail, api, hist, TypeOK, LocalsType
<1>2. /\ o.status.phase = "Finalizing" /\ o.status.observed = Hash[o.spec.template]
      /\ Consistent(o.spec, o.anno, o.status) /\ anno.cur = o.anno.cur
  BY <1>1 DEF OutcomeInductive, OnlyUsersActed
<1>3. Hash[o.spec.template] = Hash[de.template]
  BY <1>2 DEF Consistent, HoldsObserved
<1>4. t = o.spec.template /\ t \in Templates /\ de.template \in Templates
        /\ rec.br.anno.cur = anno.cur
  BY <1>1, <1>2, Copy DEF SpecType, TypeOK, DeploymentType
<1>5. t \in deployed
  BY <1>3, <1>4 DEF HashInjective, DeployedInductive
<1>6. CASE anno' = anno
  BY <1>1, <1>6, DeployedKept
<1>7. CASE RecordStableVersion(rec.br.anno, t)
  BY <1>1, <1>4, <1>5, <1>7, DeployedRecord
<1>. QED
  BY <1>1, <1>6, <1>7

(* Every handler keeps the record true.                                    *)
LEMMA DeployedDo ==
  ASSUME HashInjective, TypeOK, OutcomeInductive, DeployedInductive, Do
  PROVE  DeployedInductive'
<1>1. CASE PhaseInitial
  <2>. DEFINE b1 == [rec.br EXCEPT !.status.phase = "Initial"]
  <2>1. InitRelease(b1, "RollingUpdate") /\ Called(b1, "RollingUpdate")
    BY <1>1, InitialIsCalled DEF PhaseInitial
  <2>. HIDE DEF b1
  <2>. QED
    BY <2>1, DeployedInit
<1>2. CASE RollbackWhileRolling \/ RollbackAfterCompletion
  <2>1. Called(rec.br, "RollingBack")
    BY <1>2, RollbackIsCalled DEF RollbackWhileRolling, RollbackAfterCompletion, InPhase
  <2>2. CASE InitRelease(rec.br, "RollingBack")
    BY <2>1, <2>2, DeployedInit
  <2>3. CASE ~InitRelease(rec.br, "RollingBack")
    <3>1. UNCHANGED <<anno, de, deployed>> /\ rec'.de = rec.de
      BY <1>2, <2>3 DEF RollbackWhileRolling, RollbackAfterCompletion, PreRollback, RewriteSpec,
        Return, Fail, api, hist, TypeOK, LocalsType
    <3>. QED
      BY <3>1, DeployedKept
  <2>. QED
    BY <2>2, <2>3
<1>3. CASE FinalizeRecord
  BY <1>3, DeployedFinalize
<1>4. CASE RemoveRollbackMark
  <2>1. /\ UNCHANGED <<de, deployed>> /\ rec'.de = rec.de
        /\ anno'.cur = anno.cur /\ anno'.last = anno.last
    BY <1>4 DEF RemoveRollbackMark, Return, Fail, api, hist, TypeOK, LocalsType, AnnoType
  <2>. QED
    BY <2>1, DeployedKept
<1>5. CASE FinalizeDeployment
  <2>1. UNCHANGED <<anno, deployed>> /\ rec'.de = rec.de /\ de'.template = de.template
    BY <1>5 DEF FinalizeDeployment, Fail, api, hist, TypeOK, LocalsType, DeploymentType
  <2>. QED
    BY <2>1, DeployedKept
<1>6. CASE StepUpgradePanics
  <2>1. UNCHANGED <<anno, de, deployed>> /\ rec'.de = de
    BY <1>6 DEF StepUpgradePanics, Locals, api, hist
  <2>. QED
    BY <2>1, DeployedKept
<1>7. CASE \/ HandlePodTemplateUpdate \/ NothingToDo \/ SyncScaling \/ StepInitial
           \/ StepUpgrade \/ StepBlocking \/ StepCompleted
  <2>1. UNCHANGED <<anno, de, deployed>>
    BY <1>7 DEF HandlePodTemplateUpdate, NothingToDo, SyncScaling, StepInitial, StepUpgrade,
      StepBlocking, StepCompleted, Fail, api, hist
  <2>2. rec'.de = rec.de
    BY <1>7 DEF HandlePodTemplateUpdate, NothingToDo, SyncScaling, StepInitial, StepUpgrade,
      StepBlocking, StepCompleted, Return, Fail, TypeOK, LocalsType
  <2>. QED
    BY <2>1, <2>2, DeployedKept
<1>. QED
  BY <1>1, <1>2, <1>3, <1>4, <1>5, <1>6, <1>7 DEF Do

(* So does every other step.                                               *)
LEMMA DeployedNext ==
  ASSUME HashInjective, TypeOK, OutcomeInductive, DeployedInductive, [Next]_vars
  PROVE  DeployedInductive'
<1>1. CASE Do
  BY <1>1, DeployedDo
<1>2. CASE ~Do
  <2>1. de' = de /\ deployed' = deployed
    BY <1>2 DEF Next, Reconcile, StartReconcile, SyncStatus, EndReconcile, DeliverBatchRelease,
      Crash, PodsReady, DeploymentControllerScales, User, UserApprove, UserReleases, UserReplans,
      UserRollsBack, UserCancelsRollback, UserScales, vars, api, hist
  <2>2. anno'.cur = anno.cur /\ anno'.last = anno.last
    BY <1>2 DEF Next, Reconcile, StartReconcile, SyncStatus, EndReconcile, DeliverBatchRelease,
      Crash, PodsReady, DeploymentControllerScales, User, UserApprove, UserReleases, UserReplans,
      UserRollsBack, UserCancelsRollback, UserScales, vars, api, hist, TypeOK, AnnoType
  <2>3. rec'.de = rec.de \/ rec'.de = de
    <3>1. CASE StartReconcile \/ EndReconcile \/ Crash
      <4>1. rec' = Locals(cache, de) \/ rec' = Locals(Current, de)
        BY <3>1 DEF StartReconcile, EndReconcile, Crash
      <4>2. Locals(cache, de).de = de /\ Locals(Current, de).de = de
        BY DEF Locals
      <4>. QED
        BY <4>1, <4>2
    <3>2. CASE SyncStatus
      BY <3>2 DEF SyncStatus, TypeOK, LocalsType
    <3>3. CASE ~(StartReconcile \/ EndReconcile \/ Crash \/ SyncStatus)
      BY <1>2, <3>3 DEF Next, Reconcile, DeliverBatchRelease, PodsReady,
        DeploymentControllerScales, User, UserApprove, UserReleases, UserReplans, UserRollsBack,
        UserCancelsRollback, UserScales, vars
    <3>. QED
      BY <3>1, <3>2, <3>3
  <2>. QED
    BY <2>1, <2>2, <2>3, DeployedKept
<1>. QED
  BY <1>1, <1>2

(* A rollback only ever goes to a version the Deployment has run, unless   *)
(* two templates have one hash: then finalize may record the other one     *)
(* (recordStableVersion, preRollback).                                     *)
THEOREM StableVersionsRan ==
  ASSUME StaleReads = FALSE, Patient = TRUE, HashInjective PROVE Spec => []StableWasDeployed
<1>1. Init => DeployedInductive
  <2>. SUFFICES ASSUME Init PROVE DeployedInductive
    OBVIOUS
  <2>1. anno.cur = None /\ anno.last = None /\ rec.de = de /\ deployed = {de.template}
    BY DEF Init, Locals
  <2>. QED
    BY <2>1 DEF DeployedInductive, StableWasDeployed
<1>2. RecordInductive /\ OutcomeInductive /\ DeployedInductive /\ [Next]_vars
        => DeployedInductive'
  BY DeployedNext DEF RecordInductive
<1>3. DeployedInductive => StableWasDeployed
  BY DEF DeployedInductive
<1>. QED
  BY <1>1, <1>2, <1>3, Outcome, PTL DEF Spec
=============================================================================
