--------------------------- MODULE NewReplicaSet ---------------------------
(***************************************************************************)
(* How the executor finds, adopts or creates the ReplicaSet of the version *)
(* being released: getAllReplicaSetsAndSyncRevision and getNewReplicaSet   *)
(* (internal/controller/partition/executor.go), as the reconciles of a     *)
(* rolling release call them, with sizes and pods left out.                *)
(*                                                                         *)
(* A reconcile reads the Deployment and lists the ReplicaSets from two     *)
(* informer caches, each of which may be behind, and then calls            *)
(* getNewReplicaSet up to twice on that list.  A ReplicaSet is named by    *)
(* the hash of its template and the Deployment's collision count, so that  *)
(* creating it again fails; what the name stands for is looked up in the   *)
(* cache.  The Deployment controller numbers the revisions of a paused     *)
(* Deployment too, and deletes old ReplicaSets; other owners have          *)
(* ReplicaSets whose names may be in the way.                              *)
(*                                                                         *)
(* Abstracted: a Deployment or ReplicaSet that equals its read copy counts *)
(* as unchanged (gen and the revisions keep it from going back); of the    *)
(* annotations copied from the Deployment only the control info is kept,   *)
(* as "marked": a Deployment has it from the first take-over on;          *)
(* minReadySeconds never changes; a revision history has room for a number *)
(* of revisions rather than of characters; no two ReplicaSets are created  *)
(* in the same second.                                                     *)
(***************************************************************************)
EXTENDS Naturals, Sequences, SequencesExt, FiniteSets, FiniteSetsExt

CONSTANTS
  Templates,    \* pod templates
  First,        \* the template before the first release
  Hash,         \* ComputeHash of a template and a collision count
  Foreign,      \* names of ReplicaSets with another owner
  Deadline,     \* does the Deployment have a progress deadline?
  PromptCache,  \* does the informer know the ReplicaSets of the releases
                \* before, when a release begins?
  HistoryLimit, \* how many revisions a revision history has room for
  MaxCount,     \* bound on the collision count
  MaxTakeOvers, \* bound on releases that begin
  MaxScales,    \* bound on reconciles that find spec.replicas changed
  MaxRevision,  \* bound on the revisions the Deployment controller gives
  MaxDeletes,   \* bound on ReplicaSets the Deployment controller deletes
  MaxFaults     \* bound on API calls that fail for no reason of ours, and crashes

ASSUME TemplateAssumption == First \in Templates
ASSUME HashAssumption     == DOMAIN Hash = Templates \X (0 .. MaxCount)
ASSUME BoundAssumption    == /\ {Deadline, PromptCache} \subseteq BOOLEAN
                             /\ {MaxCount, MaxTakeOvers, MaxScales, MaxRevision,
                                MaxDeletes, MaxFaults} \subseteq Nat
                             /\ HistoryLimit \in Nat \ {0}
(* Names are unique: nobody else has that of the Deployment's ReplicaSet.  *)
ASSUME ForeignAssumption  == IsFiniteSet(Foreign) /\ Hash[First, 0] \notin Foreign

VARIABLES
  sets,     \* the ReplicaSets on the API server, by their time of creation
  de,       \* the Deployment: template, gen (take-overs so far), count
            \* (Status.CollisionCount), revision (its annotation), cond
            \* (the Progressing condition's reason)
  setCache, \* the informer's copy of the ReplicaSets
  deCache,  \* and that of the Deployment
  stage,    \* "upgrade" while a step is, "settled" once it waits for a user
  queued,   \* is a request for the BatchRelease in the work queue?
  pc,       \* where the reconcile in progress is
  rec,      \* its locals: list, de (its copies), call (which of the calls of
            \* getNewReplicaSet), adopted (the set was there already)
  scales,   \* how many reconciles have found spec.replicas changed
  deletes,  \* how many deletions so far
  faults    \* how many failed calls and crashes so far

vars == <<sets, de, setCache, deCache, stage, queued, pc, rec, scales, deletes, faults>>

Reasons == {"None", "Found", "Created", "CreateError", "Paused"}

DeploymentType == [template : Templates, gen : 0 .. MaxTakeOvers, count : 0 .. MaxCount,
                   revision : Nat, cond : Reasons]
SetType == [name : Range(Hash) \cup Foreign, template : Templates, own : BOOLEAN,
            dying : BOOLEAN, marked : BOOLEAN, revision : Nat, history : Seq(Nat)]

(* A set made from the copy d of the Deployment, with its annotations.     *)
NewSet(name, d, revision) ==
  [name |-> name, template |-> d.template, own |-> TRUE, dying |-> FALSE,
   marked |-> d.gen > 0, revision |-> revision, history |-> <<>>]

FirstDeployment == [template |-> First, gen |-> 0, count |-> 0, revision |-> 1,
                    cond |-> IF Deadline THEN "Paused" ELSE "None"]
NoLocals == [list |-> <<>>, de |-> FirstDeployment, call |-> "none", adopted |-> FALSE]

Init ==
  /\ sets = [i \in 0 .. Cardinality(Foreign) |->
               IF i = 0 THEN NewSet(Hash[First, 0], FirstDeployment, 1)
               ELSE [NewSet(SetToSeq(Foreign)[i], FirstDeployment, 0) EXCEPT !.own = FALSE]]
  /\ de = FirstDeployment
  /\ setCache = sets
  /\ deCache = de
  /\ stage = "settled"
  /\ queued = FALSE
  /\ pc = "idle"
  /\ rec = NoLocals
  /\ scales = 0
  /\ deletes = 0
  /\ faults = 0

(***************************************************************************)
(* Lists of ReplicaSets                                                    *)
(***************************************************************************)
Named(list, name) == {s \in Range(list) : s.name = name}

(* getReplicaSetsForDeployment                                             *)
Listed(list) == Restrict(list, {i \in DOMAIN list : list[i].own /\ ~list[i].dying})

(* The oldest set of the list with template t, as the set of the answers;  *)
(* EqualIgnoreHash compares templates without the hash label.              *)
FindNewReplicaSet(list, t) ==
  LET equal == {i \in DOMAIN list : list[i].template = t}
  IN {list[i] : i \in {j \in equal : \A k \in equal : j <= k}}

(* MaxRevision of the old ones, plus one.                                  *)
NewRevision(list, t) ==
  1 + Max({0} \cup {s.revision : s \in Range(list) \ FindNewReplicaSet(list, t)})

(* setNewReplicaSetAnnotations for a set that exists: it gets the          *)
(* annotations that the copy d of the Deployment has and, unless its       *)
(* revision is that high already, the new revision; the revision it had    *)
(* joins its history, whose oldest entries make room.                      *)
Fitting(history) ==
  SubSeq(history, Max({1, Len(history) - HistoryLimit + 1}), Len(history))
Annotated(s, d, newRevision) ==
  [s EXCEPT !.marked = @ \/ d.gen > 0,
            !.revision = Max({@, newRevision}),
            !.history = IF s.revision < newRevision
                          THEN Fitting(Append(@, s.revision)) ELSE @]

Added(s) ==
  LET now == 1 + Max({0} \cup DOMAIN sets)
  IN [i \in DOMAIN sets \cup {now} |-> IF i = now THEN s ELSE sets[i]]

Replaced(s, t) == [i \in DOMAIN sets |-> IF sets[i] = s THEN t ELSE sets[i]]

(***************************************************************************)
(* A reconcile of a release that is rolling                                *)
(***************************************************************************)
StartReconcile ==
  /\ pc = "idle"
  /\ queued
  /\ de.gen > 0
  /\ queued' = FALSE
  /\ pc' = "call"
  /\ rec' = [list |-> Listed(setCache), de |-> deCache, call |-> "scaling", adopted |-> FALSE]
  /\ UNCHANGED <<sets, de, setCache, deCache, stage, scales, deletes, faults>>

(* An error ends the reconcile; controller-runtime tries again.            *)
Fails ==
  /\ pc' = "idle"
  /\ queued' = TRUE
  /\ rec' = NoLocals
  /\ UNCHANGED <<stage, scales>>

(* Mutant: the locals of a reconcile outlive it.                           *)
MutantEnds == pc' = "idle" /\ UNCHANGED rec

Ends ==
  /\ pc' = "idle"
  /\ rec' = NoLocals

(* getNewReplicaSet answers without an error, its copy of the Deployment   *)
(* being d.  After isScalingEvent, sync and stepByStep call it again on    *)
(* the same list.  Every step asks for a replica, so that it settles only  *)
(* once the set exists, and the reconcile is repeated until then.          *)
Returns(d) ==
  \/ /\ rec.call = "scaling"
     /\ \/ /\ scales < MaxScales
           /\ scales' = scales + 1
           /\ rec' = [rec EXCEPT !.call = "sync", !.de = d]
        \/ /\ stage = "upgrade"
           /\ rec' = [rec EXCEPT !.call = "upgrade", !.de = d]
           /\ UNCHANGED scales
     /\ pc' = "call"
     /\ UNCHANGED <<stage, queued>>
  \/ /\ rec.call = "scaling"
     /\ stage = "settled"
     /\ Ends
     /\ UNCHANGED <<stage, queued, scales>>
  \/ /\ rec.call = "sync"
     /\ stage' = "upgrade"
     /\ queued' = TRUE
     /\ Ends
     /\ UNCHANGED scales
  \/ /\ rec.call = "upgrade"
     /\ \/ UNCHANGED stage /\ queued' = TRUE
        \/ /\ FindNewReplicaSet(Listed(sets), rec.de.template) # {}
           /\ stage' = "settled"
           /\ UNCHANGED queued
     /\ Ends
     /\ UNCHANGED scales

(* Status().Update of the Deployment, refused if it is not what was read.  *)
Persists(d) == de = rec.de /\ de' = d

Found == FindNewReplicaSet(rec.list, rec.de.template)
Revised(s) == Annotated(s, rec.de, NewRevision(rec.list, rec.de.template))

(* Mutant: a patch without the optimistic lock.                            *)
MutantPatchExisting ==
  /\ pc = "call"
  /\ \E s \in Found :
       /\ s # Revised(s)
       /\ sets' = [i \in DOMAIN sets |-> IF sets[i].name = s.name THEN Revised(s) ELSE sets[i]]
       /\ Returns(rec.de)
  /\ UNCHANGED <<de, setCache, deCache, deletes, faults>>

(* The set exists and its annotations are due: a patch with the optimistic *)
(* lock, refused if the set is not what was listed.                        *)
PatchExisting ==
  /\ pc = "call"
  /\ \E s \in Found :
       /\ s # Revised(s)
       /\ IF s \in Range(sets)
            THEN sets' = Replaced(s, Revised(s)) /\ Returns(rec.de)
            ELSE Fails /\ UNCHANGED sets
  /\ UNCHANGED <<de, setCache, deCache, deletes, faults>>

(* The set exists and is up to date: its revision becomes the Deployment's.*)
FollowExisting ==
  /\ pc = "call"
  /\ \E s \in Found :
       /\ s = Revised(s)
       /\ LET d == [rec.de EXCEPT !.revision = s.revision,
                                  !.cond = IF Deadline /\ @ = "None" THEN "Found" ELSE @]
          IN \/ d = rec.de /\ Returns(d) /\ UNCHANGED de
             \/ d # rec.de /\ Persists(d) /\ Returns(d)
             \/ d # rec.de /\ de # rec.de /\ Fails /\ UNCHANGED de
  /\ UNCHANGED <<sets, setCache, deCache, deletes, faults>>

(* There is none and createIfNotExisted is false.                          *)
FindNone ==
  /\ pc = "call"
  /\ rec.call # "upgrade"
  /\ Found = {}
  /\ Returns(rec.de)
  /\ UNCHANGED <<sets, de, setCache, deCache, deletes, faults>>

(* There is none: it is created, unless the name is taken.                 *)
Name == Hash[rec.de.template, rec.de.count]
CreatesNew == pc = "call" /\ rec.call = "upgrade" /\ Found = {}

CreateNew ==
  /\ CreatesNew
  /\ IF Named(sets, Name) = {}
       THEN /\ sets' = Added(NewSet(Name, rec.de,
                                   NewRevision(rec.list, rec.de.template)))
            /\ pc' = "revise"
       ELSE UNCHANGED sets /\ pc' = "taken"
  /\ UNCHANGED <<de, setCache, deCache, stage, queued, rec, scales, deletes, faults>>

(* Create fails otherwise: the condition says so, if it can be written.    *)
CreateFails ==
  /\ CreatesNew
  /\ faults < MaxFaults
  /\ faults' = faults + 1
  /\ de' = IF Deadline /\ de = rec.de THEN [de EXCEPT !.cond = "CreateError"] ELSE de
  /\ Fails
  /\ UNCHANGED <<sets, setCache, deCache, deletes>>

(* The name is taken: what by is looked up in the cache.                   *)
(* Mutant: a set that is being deleted counts as a collision.              *)
MutantOursAlive(s) == s.own /\ ~s.dying /\ s.template = rec.de.template

(* Mutant: whatever holds the name is adopted.                             *)
MutantAnyIsOurs(s) == TRUE

IsOurs(s) == s.own /\ s.template = rec.de.template

(* Mutant: a set the cache does not know yet counts as a collision.        *)
MutantNameTaken ==
  /\ pc = "taken"
  /\ LET taken == Named(setCache, Name)
         bumped == [rec.de EXCEPT !.count = @ + 1]
     IN \/ /\ \E s \in taken : IsOurs(s)
           /\ pc' = "revise"
           /\ rec' = [rec EXCEPT !.adopted = TRUE]
           /\ UNCHANGED <<de, stage, queued, scales>>
        \/ /\ \A s \in taken : ~IsOurs(s)
           /\ rec.de.count < MaxCount
           /\ Persists(bumped) \/ (de # rec.de /\ UNCHANGED de)
           /\ Fails
  /\ UNCHANGED <<sets, setCache, deCache, deletes, faults>>

NameTaken ==
  /\ pc = "taken"
  /\ LET taken == Named(setCache, Name)
         bumped == [rec.de EXCEPT !.count = @ + 1]
     IN \/ /\ \E s \in taken : IsOurs(s)
           /\ pc' = "revise"
           /\ rec' = [rec EXCEPT !.adopted = TRUE]
           /\ UNCHANGED <<de, stage, queued, scales>>
        \/ /\ \E s \in taken : ~IsOurs(s)
           /\ rec.de.count < MaxCount
           /\ Persists(bumped) \/ (de # rec.de /\ UNCHANGED de)
           /\ Fails
        \/ taken = {} /\ Fails /\ UNCHANGED de
  /\ UNCHANGED <<sets, setCache, deCache, deletes, faults>>

(* The set was created or adopted: the Deployment gets its revision.       *)
Revise ==
  /\ pc = "revise"
  /\ LET d == [rec.de EXCEPT !.revision = NewRevision(rec.list, rec.de.template),
                             !.cond = IF Deadline /\ ~rec.adopted THEN "Created" ELSE @]
         needsUpdate == d # rec.de \/ (Deadline /\ ~rec.adopted)
     IN \/ ~needsUpdate /\ Returns(d) /\ UNCHANGED de
        \/ needsUpdate /\ Persists(d) /\ Returns(d)
        \/ needsUpdate /\ de # rec.de /\ Fails /\ UNCHANGED de
  /\ UNCHANGED <<sets, setCache, deCache, deletes, faults>>

(* Any other call of the API server may fail.                              *)
CallFails ==
  /\ pc # "idle"
  /\ faults < MaxFaults
  /\ faults' = faults + 1
  /\ Fails
  /\ UNCHANGED <<sets, de, setCache, deCache, deletes>>

(* A restart: the caches are filled and every BatchRelease is queued.      *)
Crash ==
  /\ faults < MaxFaults
  /\ faults' = faults + 1
  /\ setCache' = sets
  /\ deCache' = de
  /\ Fails
  /\ UNCHANGED <<sets, de, deletes>>

Reconcile == \/ StartReconcile \/ PatchExisting \/ FollowExisting \/ FindNone
             \/ CreateNew \/ NameTaken \/ Revise

(***************************************************************************)
(* The informers, the users and the Deployment controller.  Paused by a    *)
(* release, the Deployment controller creates nothing, but it numbers      *)
(* revisions, reports that it is paused and cleans up old ReplicaSets,     *)
(* with the same optimistic locks.                                         *)
(***************************************************************************)
DeliverSets ==
  /\ setCache # sets
  /\ setCache' = sets
  /\ UNCHANGED <<sets, de, deCache, stage, queued, pc, rec, scales, deletes, faults>>

DeliverDeployment ==
  /\ deCache # de
  /\ deCache' = de
  /\ UNCHANGED <<sets, de, setCache, stage, queued, pc, rec, scales, deletes, faults>>

NativeAnnotates ==
  /\ de.gen > 0
  /\ \E s \in FindNewReplicaSet(Listed(sets), de.template) :
       LET t == Annotated(s, de, NewRevision(Listed(sets), de.template))
       IN IF s # t
            THEN /\ t.revision <= MaxRevision
                 /\ sets' = Replaced(s, t)
                 /\ UNCHANGED de
            ELSE /\ de.revision # s.revision
                 /\ de' = [de EXCEPT !.revision = s.revision]
                 /\ UNCHANGED sets
  /\ UNCHANGED <<setCache, deCache, stage, queued, pc, rec, scales, deletes, faults>>

NativeReports ==
  /\ de.gen > 0
  /\ Deadline
  /\ de.cond # "Paused"
  /\ de' = [de EXCEPT !.cond = "Paused"]
  /\ UNCHANGED <<sets, setCache, deCache, stage, queued, pc, rec, scales, deletes, faults>>

NativeCleansUp ==
  /\ deletes < MaxDeletes
  /\ \E i \in DOMAIN sets :
       /\ sets[i].own
       /\ ~sets[i].dying
       /\ sets[i].template # de.template
       /\ sets' = [sets EXCEPT ![i] = [sets[i] EXCEPT !.dying = TRUE]]
  /\ deletes' = deletes + 1
  /\ UNCHANGED <<de, setCache, deCache, stage, queued, pc, rec, scales, faults>>

Removed ==
  /\ \E s \in Range(sets) : s.dying
  /\ sets' = Restrict(sets, {i \in DOMAIN sets : ~sets[i].dying})
  /\ UNCHANGED <<de, setCache, deCache, stage, queued, pc, rec, scales, deletes, faults>>

(* A release of another template begins: the executor's init.              *)
TakeOver ==
  /\ pc = "idle"
  /\ de.gen < MaxTakeOvers
  /\ PromptCache => setCache = sets
  /\ \E t \in Templates \ {de.template} :
       de' = [de EXCEPT !.template = t, !.gen = @ + 1]
  /\ stage' = "upgrade"
  /\ queued' = TRUE
  /\ UNCHANGED <<sets, setCache, deCache, pc, rec, scales, deletes, faults>>

(* A user lets the next step begin.                                        *)
UserContinues ==
  /\ pc = "idle"
  /\ de.gen > 0
  /\ stage = "settled"
  /\ stage' = "upgrade"
  /\ queued' = TRUE
  /\ UNCHANGED <<sets, de, setCache, deCache, pc, rec, scales, deletes, faults>>

Environment == \/ DeliverSets \/ DeliverDeployment
               \/ NativeAnnotates \/ NativeReports \/ NativeCleansUp \/ Removed
               \/ TakeOver \/ UserContinues \/ CreateFails \/ CallFails \/ Crash

Next == Reconcile \/ Environment

Fairness == /\ WF_vars(Reconcile)
            /\ WF_vars(DeliverSets)
            /\ WF_vars(DeliverDeployment)
            /\ WF_vars(Removed)

Spec == Init /\ [][Next]_vars /\ Fairness

(***************************************************************************)
(* Properties                                                              *)
(***************************************************************************)
IsList(s) == /\ DOMAIN s \subseteq Nat /\ IsFiniteSet(DOMAIN s)
             /\ s \in [DOMAIN s -> SetType]

LocalsTyped ==
  /\ rec = [list |-> rec.list, de |-> rec.de, call |-> rec.call, adopted |-> rec.adopted]
  /\ IsList(rec.list)
  /\ rec.de \in DeploymentType
  /\ rec.call \in {"none", "scaling", "sync", "upgrade"}
  /\ rec.adopted \in BOOLEAN

TypeOK ==
  /\ IsList(sets)
  /\ IsList(setCache)
  /\ de \in DeploymentType
  /\ deCache \in DeploymentType
  /\ stage \in {"upgrade", "settled"}
  /\ queued \in BOOLEAN
  /\ pc \in {"idle", "call", "taken", "revise"}
  /\ LocalsTyped
  /\ (pc = "idle") = (rec.call = "none")
  /\ scales \in 0 .. MaxScales
  /\ deletes \in 0 .. MaxDeletes
  /\ faults \in 0 .. MaxFaults

(* Creating is idempotent: however stale the lists, however often it is    *)
(* tried again, no template ever has two ReplicaSets of the Deployment     *)
(* (one that is being deleted does not count).                             *)
OneSetPerTemplate ==
  LET ours == Listed(sets)
  IN \A i, j \in DOMAIN ours : ours[i].template = ours[j].template => i = j

(* A collision is counted only where there is one: the name is held, on    *)
(* the API server, by a set that is not the one being released.            *)
CollisionIsReal ==
  [][ de'.count # de.count =>
        \E s \in Named(sets, Hash[de.template, de.count]) :
          ~(s.own /\ s.template = de.template) ]_de

(* No revision is lost: when a ReplicaSet gets another revision, it is a   *)
(* higher one, and the one it had is the last of its history, whoever      *)
(* wrote it and whatever they had read.                                    *)
RevisionsRecorded ==
  [][ \A s \in Range(sets) : \A t \in Named(sets', s.name) :
        t.revision # s.revision =>
          t.revision > s.revision /\ t.history = Fitting(Append(s.history, s.revision)) ]_sets

(* A release gets its ReplicaSet: once a reconcile that has read the       *)
(* release's Deployment reaches the upgrade of a step, the set appears,    *)
(* unless another release begins; also if one of the same template is      *)
(* still being deleted and is adopted first, or the name is taken.         *)
HasNew == FindNewReplicaSet(Listed(sets), de.template) # {}

NewSetAppears ==
  \A g \in 1 .. MaxTakeOvers :
    (de.gen = g /\ rec.de.gen = g /\ rec.call = "upgrade") ~> (HasNew \/ de.gen # g)

(***************************************************************************)
(* Inductive invariants                                                    *)
(***************************************************************************)
(* Names: they are unique, the Deployment's own are made of template and   *)
(* count, and those of others, which nobody here deletes, stay taken.      *)
Held(list, name) == \E s \in Named(list, name) : ~s.own /\ ~s.dying

NamesUnique == \A i, j \in DOMAIN sets : sets[i].name = sets[j].name => i = j
OwnName(s) == \E c \in 0 .. MaxCount : s.name = Hash[s.template, c]
NamesMade(list) ==
  \A i \in DOMAIN list : IF list[i].own THEN OwnName(list[i]) ELSE Held(sets, list[i].name)
NamesInductive == NamesUnique /\ NamesMade(sets) /\ NamesMade(setCache)

(* Copies of the Deployment are behind it, and where its count has gone on *)
(* since, the names in between were taken by others.                       *)
Before(d, e) == d.gen <= e.gen /\ d.count <= e.count /\ (d.gen = e.gen => d.template = e.template)
Passed(d)    == \A k \in d.count .. de.count - 1 : Held(sets, Hash[d.template, k])

CopiesInductive ==
  /\ Before(deCache, de) /\ Passed(deCache)
  /\ pc # "idle" => Before(rec.de, deCache) /\ Passed(rec.de)

(* A set that a list does not show is the one that would be created again, *)
(* so that its name is in the way.                                         *)
Unseen(list, s) == \A i \in DOMAIN list : list[i].template # s.template
InTheWay(d, s)  == d.template = s.template => s.name = Hash[d.template, d.count]

UnseenInductive ==
  \A i \in DOMAIN Listed(sets) :
    LET s == sets[i]
    IN /\ Unseen(Listed(setCache), s) => InTheWay(de, s) /\ InTheWay(deCache, s)
       /\ pc # "idle" /\ Unseen(rec.list, s) => InTheWay(rec.de, s)

Inductive == NamesInductive /\ CopiesInductive /\ UnseenInductive
=============================================================================
