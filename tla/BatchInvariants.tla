-------------------------- MODULE BatchInvariants --------------------------
(***************************************************************************)
(* What stays true of BatchRollout between any two of its steps, beyond    *)
(* the types and counts stated there: the inductive invariants from which  *)
(* BatchRolloutProofs proves its theorems.                                 *)
(***************************************************************************)
EXTENDS BatchRollout

StepIndices == 0 .. Len(Steps) - 1

(***************************************************************************)
(* Inductive invariants of what happens to old ReplicaSets                 *)
(***************************************************************************)
(* What reconcileOldReplicaSets has yet to patch, and the ReplicaSets      *)
(* listed as they are once it is done with that.                           *)
Pending(todo) == {p \in Range(todo) : p.size \in Nat}
Sizes(s, todo, r) ==
  {s[r].size} \cup {p.size : p \in {q \in Pending(todo) : q.rs = r}}
Done(s, todo) ==
  [r \in DOMAIN s |->
     [s[r] EXCEPT !.size = CHOOSE k \in Sizes(s, todo, r) : \A m \in Sizes(s, todo, r) : k <= m]]

(* It only patches old ReplicaSets, each patch takes something away, and   *)
(* all of them leave the partition its share and the Deployment its pods.  *)
OnlyOlds(s, todo) ==
  todo \in Seq(Range(todo)) /\ \A p \in Range(todo) : p.rs \in Olds \cap DOMAIN s

Shrinks(s, todo) ==
  \A i \in DOMAIN todo : todo[i].size \in Nat =>
    /\ todo[i].size < s[todo[i].rs].size
    /\ \A j \in 1 .. i - 1 : todo[j].rs = todo[i].rs /\ todo[j].size \in Nat =>
         todo[i].size < todo[j].size

LeavesOlds(s, todo, n, i) ==
  Total(Done(s, todo), Olds) >= n - Greater(Limit(i, n), s[New].size)

LeavesAvailable(s, todo, n, k) ==
  \/ \A p \in Pending(todo) : p.size >= s[p.rs].ready
  \/ Kept(Done(s, todo)) + k >= MinAvailable(n)

PlanInductive ==
  /\ pc = "create" => Surplus(rec.rs) = rec.surplus
  /\ pc = "down" =>
       /\ OnlyOlds(rec.rs, rec.todo)
       /\ Shrinks(rec.rs, rec.todo)
       /\ LeavesOlds(rec.rs, rec.todo, rec.replicas, idx)
       /\ ~rec.missed => LeavesAvailable(rec.rs, rec.todo, rec.replicas, rec.surplus)

(* What has become (s) of what was listed (l), k pods having failed since: *)
(* nobody else has resized a ReplicaSet, or the Deployment controller only *)
(* the single active one, or only the one that is left to patch; or it     *)
(* takes the old ones away as the new one has all the replicas, or scales  *)
(* the new one alone.                                                      *)
Unresized(s, l, S)   == \A q \in DOMAIN s \cap S : s[q].size = l[q].size
KeptSince(s, l, k)   == Kept(s) + k >= Kept(l)
NoneKept(l, S)       == \A q \in DOMAIN l \cap S : Lesser(l[q].size, l[q].ready) = 0

Single(s, l, r) ==
  /\ s[r].size > 0
  /\ \A q \in DOMAIN s \ {r} : s[q].size = 0 /\ l[q].size = 0

OthersUnresized(s, l, todo, n, k) ==
  /\ s[New].size > 0 => s[New].desired = n
  /\ \A p \in Pending(todo) : s[p.rs].size > 0 /\ Unresized(s, l, Sets \ {p.rs})
  /\ \/ KeptSince(s, l, k)
     \/ \A p \in Pending(todo) : NoneKept(l, Sets \ {p.rs})

Saturated(s, n, k) ==
  s[New].size >= n /\ Lesser(s[New].size, s[New].ready) + k >= n

Alone(s, todo) == s[New].size > 0 /\ \A p \in Pending(todo) : s[p.rs].size = 0

CreatesSince(s, l, k) ==
  \/ KeptSince(s, l, k) /\ Unresized(s, l, Sets)
  \/ \E r \in DOMAIN s : Single(s, l, r)

PatchesSince(s, l, todo, n, k) ==
  OthersUnresized(s, l, todo, n, k) \/ Saturated(s, n, k) \/ Alone(s, todo)

(* The same of the informer's copy, before anything is planned.            *)
Undisturbed(s, l, k) ==
  /\ KeptSince(s, l, k) /\ Unresized(s, l, Sets)
  /\ New \in DOMAIN s => s[New].desired = l[New].desired

Filled(s, l, k) ==
  /\ New \in DOMAIN s /\ s[New].size > 0
  /\ l[New].size > 0 /\ Saturated(s, l[New].desired, k)

NewAlone(s) ==
  New \in DOMAIN s /\ s[New].size > 0 /\ \A q \in DOMAIN s \ {New} : s[q].size = 0

CopiedSince(s, l, k) ==
  \/ Undisturbed(s, l, k)
  \/ \E r \in DOMAIN s : Single(s, l, r)
  \/ Filled(s, l, k)
  \/ NewAlone(s)

(* Nobody scales the Deployment to nothing.                                *)
Inhabited == 0 \notin Replicas \cup Targets

SinceInductive ==
  /\ replicas > 0 /\ (pc # "idle" => rec.replicas > 0)
  /\ ~cache.missed => CopiedSince(rs, cache.rs, failures - cache.failures)
  /\ pc = "create" /\ ~rec.missed => CreatesSince(rs, rec.rs, lost)
  /\ pc = "down" /\ ~rec.missed => PatchesSince(rs, rec.rs, rec.todo, rec.replicas, lost)

(* Patches that take ready pods away are sent by revision: whatever has a  *)
(* larger one is at 0 by then.                                             *)
InTurn(s, todo) ==
  \A i \in DOMAIN todo, q \in Olds \cap DOMAIN s :
    /\ todo[i].size \in Nat /\ todo[i].size < s[todo[i].rs].ready
    /\ Revision[q] > Revision[todo[i].rs] /\ s[q].size > 0
    => \E j \in 1 .. i - 1 : todo[j].rs = q /\ todo[j].size = 0

(* What was listed without replicas (l) and has some (s) is the only old   *)
(* one with any: the Deployment controller has scaled it.  No patch of     *)
(* ours gives an old one replicas that has none.                           *)
FreshAlone(s, l) ==
  \A q \in Olds \cap DOMAIN s : l[q].size = 0 /\ s[q].size > 0 =>
    \A r \in (Olds \cap DOMAIN s) \ {q} : s[r].size = 0

StartsNone(s, todo) ==
  /\ todo \in Seq(Range(todo))
  /\ \A i \in DOMAIN todo : todo[i].size \in Nat /\ todo[i].rs \in Olds =>
       /\ s[todo[i].rs].size > 0
       /\ \A j \in 1 .. i - 1 : todo[j].rs = todo[i].rs => todo[j].size # 0

OrderInductive ==
  /\ FreshAlone(rs, cache.rs)
  /\ pc # "idle" => FreshAlone(rs, rec.rs) /\ StartsNone(rec.rs, rec.todo)
  /\ pc = "down" => InTurn(rec.rs, rec.todo)

(***************************************************************************)
(* Inductive invariants of a Deployment nobody scales                      *)
(***************************************************************************)
(* Either the new version is a new one, or surge leaves it room to start.  *)
RoomToStart == NewExists => \A n \in Replicas : MaxSurge(n) > 0

(* No step asks for less than the one before, and a rollback does not      *)
(* start beyond its first step.                                            *)
LowerBound(n) == NewRSReplicasLowerBound(n, MaxSurge(n))
RisingPlan ==
  \A n \in Replicas :
    /\ \A i \in StepIndices : i + 1 \in StepIndices => Limit(i, n) <= Limit(i + 1, n)
    /\ NewExists => n - 1 <= Greater(Limit(0, n), LowerBound(n))

(* The ReplicaSets of a Deployment of n replicas: while there is no new    *)
(* one, the old ones have them all, and so they have while it is empty.    *)
WithinAll(s, n) ==
  /\ \A r \in DOMAIN s : s[r].desired = n
  /\ New \in DOMAIN s => s[New].size <= n
  /\ New \notin DOMAIN s => Total(s, Olds) = n

WithinStart(s, n) ==
  New \in DOMAIN s => /\ s[New].size >= LowerBound(n)
                      /\ s[New].size = 0 => Total(s, Olds) = n

WithinSurge(s, n) ==
  /\ Total(s, Olds) <= n
  /\ New \in DOMAIN s => Total(s, Olds) + s[New].size <= n + Greater(MaxSurge(n), 1)

WithinStep(s, n, i) ==
  New \in DOMAIN s /\ Active(s, Olds) # {} => s[New].size <= Greater(Limit(i, n), LowerBound(n))

(* What has become (s) of what was listed (l), whatever is stale: the new  *)
(* one grows, and no old one comes back.                                   *)
OnlyNewGrows(s, l) ==
  /\ DOMAIN l \subseteq DOMAIN s /\ Olds \subseteq DOMAIN l
  /\ New \in DOMAIN l => s[New].size >= l[New].size
  /\ \A q \in Olds : l[q].size = 0 => s[q].size = 0

(* If no patch of ours is missed, the new one grows only when no old one is*)
(* left, and no old one grows.                                             *)
NoOldGrows(s, l) ==
  /\ New \in DOMAIN l /\ Active(s, Olds) # {} => s[New].size = l[New].size
  /\ \A q \in Olds : s[q].size <= l[q].size

(* The patches of each stage, and what they leave.                         *)
PatchWithin(stage, l, p, n, i) ==
  \/ /\ stage = "new" /\ p.rs = New
     /\ p.size >= l[New].size /\ p.size <= n
     /\ p.size <= Limit(i, n) \/ Active(l, Olds) = {}
  \/ stage = "up" /\ p.rs \in Active(l, Olds)
  \/ stage = "down" /\ p.rs \in Active(l, Olds) /\ p.size < l[p.rs].size

PatchStarts(stage, l) == stage \in {"up", "down"} => l[New].size > 0

PatchSurges(stage, l, p, n) ==
  /\ stage = "new" => Active(l, Olds) = {} \/ Total(l, Olds) + p.size <= n + MaxSurge(n)
  /\ stage = "up" => Total(l, Olds) - l[p.rs].size + p.size <= n - l[New].size

PlannedWithin(stage, l, todo, n, i) ==
  todo # <<>> =>
    /\ stage \in {"new", "up"} => todo = <<Head(todo)>> /\ PatchWithin(stage, l, Head(todo), n, i)
    /\ RoomToStart => PatchStarts(stage, l)
    /\ stage \in {"new", "up", "down"}

SizesWithin(s, n, i) ==
  /\ WithinAll(s, n)
  /\ RoomToStart => WithinStart(s, n)
  /\ RisingPlan => WithinStep(s, n, i)

ListedWithin(s, l, n) ==
  /\ WithinAll(l, n) /\ OnlyNewGrows(s, l)
  /\ RoomToStart => WithinStart(l, n)

Unscaled ==
  /\ replicas \in Replicas /\ pc # "sync"
  /\ SizesWithin(rs, replicas, idx)
  /\ ListedWithin(rs, cache.rs, replicas)
  /\ pc # "idle" => /\ rec.replicas = replicas
                    /\ ListedWithin(rs, rec.rs, replicas)
                    /\ PlannedWithin(pc, rec.rs, rec.todo, replicas, idx)

UnscaledInductive == scales = 0 => Unscaled

(* As long as no reconcile has worked with a list that lacks a patch of    *)
(* ours.                                                                   *)
Surges ==
  /\ WithinSurge(rs, replicas) /\ WithinSurge(cache.rs, replicas)
  /\ ~cache.missed => NoOldGrows(rs, cache.rs)
  /\ pc # "idle" => /\ WithinSurge(rec.rs, replicas) /\ NoOldGrows(rs, rec.rs)
                    /\ rec.todo # <<>> =>
                         PatchSurges(pc, rec.rs, Head(rec.todo), replicas)

SurgeInductive == scales = 0 => Surges

(* The pods of the new version that are reported were asked for.           *)
ReportedWithin(s, d) ==
  d.observed /\ d.updated > 0 => New \in DOMAIN s /\ d.updated <= s[New].size

Reports ==
  /\ New \in DOMAIN rs => rs[New].pods <= rs[New].size
  /\ ReportedWithin(rs, deStatus)
  /\ pc # "idle" => ReportedWithin(rs, rec.deStatus)

ReportsInductive == scales = 0 => Reports

(* What TLC can check of all of this, on a small instance.                 *)
Inductive ==
  /\ TypeInductive /\ ProtocolInductive /\ GrowthInductive
  /\ PlanInductive /\ SinceInductive /\ OrderInductive
  /\ UnscaledInductive /\ ReportsInductive
=============================================================================
