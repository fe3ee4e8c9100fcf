------------------------ MODULE NewReplicaSetProofs ------------------------
(***************************************************************************)
(* Theorems about NewReplicaSet, for any templates, names, bounds and      *)
(* lengths of history: types, what a revision leaves behind, and that      *)
(* names which do not collide make creating idempotent.                    *)
(***************************************************************************)
EXTENDS NewReplicaSet, SumLemmas, SequenceTheorems, TLAPS

(***************************************************************************)
(* Maxima                                                                  *)
(***************************************************************************)
(* A finite set of numbers has a bound: a smallest set without one would   *)
(* have one but for a single element.                                      *)
LEMMA FiniteIsBounded ==
  ASSUME NEW S, S \subseteq Nat, IsFiniteSet(S)
  PROVE  \E b \in Nat : \A x \in S : x <= b
<1>. DEFINE Bounded(s) == \E b \in Nat : \A x \in s : x <= b
            Sizes == {n \in Nat : \E s \in SUBSET S : Cardinality(s) = n /\ ~Bounded(s)}
<1>1. SUFFICES ASSUME ~Bounded(S) PROVE FALSE
  OBVIOUS
<1>2. Cardinality(S) \in Sizes
  BY <1>1, FS_CardinalityType
<1>3. PICK n \in Sizes : \A m \in Sizes : n <= m
  <2>1. Sizes \in SUBSET Nat /\ Sizes # {}
    BY <1>2
  <2>. HIDE DEF Sizes
  <2>. QED BY <2>1, Least
<1>4. PICK s \in SUBSET S : Cardinality(s) = n /\ ~Bounded(s)
  BY <1>3
<1>5. PICK x \in s : TRUE
  BY <1>4
<1>6. /\ IsFiniteSet(s) /\ Cardinality(s \ {x}) = n - 1
      /\ Cardinality(s \ {x}) \in Nat /\ s \ {x} \in SUBSET S
  BY <1>4, FS_Subset, FS_RemoveElement, FS_CardinalityType
<1>7. n - 1 \notin Sizes
  <2>1. n \in Nat /\ ~(n <= n - 1)
    OBVIOUS
  <2>. QED BY <1>3, <2>1
<1>8. Bounded(s \ {x})
  BY <1>6, <1>7
<1>9. PICK b \in Nat : \A y \in s \ {x} : y <= b
  BY <1>8
<1>10. b + x \in Nat /\ \A y \in s : y <= b + x
  BY <1>5, <1>9
<1>. QED
  BY <1>4, <1>10

LEMMA MaxOfFinite ==
  ASSUME NEW S, S \subseteq Nat, IsFiniteSet(S), S # {}
  PROVE  Max(S) \in S /\ \A x \in S : Max(S) >= x
<1>. DEFINE Bounds == {b \in Nat : \A x \in S : x <= b}
<1>1. PICK b \in Bounds : \A c \in Bounds : b <= c
  <2>1. Bounds \in SUBSET Nat /\ Bounds # {}
    BY FiniteIsBounded
  <2>. HIDE DEF Bounds
  <2>. QED BY <2>1, Least
<1>2. b \in S
  <2>1. SUFFICES ASSUME b \notin S PROVE FALSE
    OBVIOUS
  <2>2. \A x \in S : x \in Nat /\ x < b
    BY <2>1
  <2>3. PICK y \in S : TRUE
    OBVIOUS
  <2>4. b \in Nat /\ b # 0
    BY <2>2, <2>3
  <2>5. b - 1 \in Nat /\ \A x \in S : x <= b - 1
    BY <2>2, <2>4
  <2>6. b - 1 \in Bounds
    BY <2>5
  <2>. HIDE DEF Bounds
  <2>. QED
    BY <1>1, <2>4, <2>6
<1>3. b \in S /\ \A x \in S : b >= x
  BY <1>2
<1>. QED
  BY <1>3 DEF Max

LEMMA MaxOfTwo ==
  ASSUME NEW a \in Nat, NEW b \in Nat
  PROVE  Max({a, b}) = IF a >= b THEN a ELSE b
<1>1. PICK m \in {a, b} : \A x \in {a, b} : m >= x
  OBVIOUS
<1>2. Max({a, b}) \in {a, b} /\ \A x \in {a, b} : Max({a, b}) >= x
  BY <1>1 DEF Max
<1>. QED
  BY <1>2

(***************************************************************************)
(* Lists                                                                   *)
(***************************************************************************)
LEMMA ListedType ==
  ASSUME NEW list, IsList(list)
  PROVE  /\ IsList(Listed(list)) /\ DOMAIN Listed(list) \subseteq DOMAIN list
         /\ \A i \in DOMAIN list : i \in DOMAIN Listed(list) <=> list[i].own /\ ~list[i].dying
         /\ \A i \in DOMAIN Listed(list) : Listed(list)[i] = list[i]
<1>. DEFINE D == {i \in DOMAIN list : list[i].own /\ ~list[i].dying}
<1>1. IsFiniteSet(D)
  BY FS_Subset DEF IsList
<1>2. Listed(list) = [i \in D |-> list[i]]
  BY DEF Listed, Restrict
<1>. QED
  BY <1>1, <1>2 DEF IsList

LEMMA FiniteImage ==
  ASSUME NEW f, IsFiniteSet(DOMAIN f), f = [x \in DOMAIN f |-> f[x]]
  PROVE  IsFiniteSet({f[x] : x \in DOMAIN f})
<1>. DEFINE T == {f[x] : x \in DOMAIN f}
<1>1. f \in Surjection(DOMAIN f, T)
  BY DEF Surjection
<1>. HIDE DEF T
<1>2. IsFiniteSet(T)
  BY <1>1, FS_Surjection DEF ExistsSurjection
<1>. QED
  BY <1>2 DEF T

LEMMA RangeOfList ==
  ASSUME NEW list, IsList(list)
  PROVE  IsFiniteSet(Range(list)) /\ Range(list) \subseteq SetType
<1>1. Range(list) = {list[i] : i \in DOMAIN list}
  BY DEF Range
<1>2. IsFiniteSet({list[i] : i \in DOMAIN list})
  BY FiniteImage DEF IsList
<1>. QED
  BY <1>1, <1>2 DEF IsList

LEMMA FoundIsListed ==
  ASSUME NEW list, NEW t, NEW s \in FindNewReplicaSet(list, t)
  PROVE  s \in Range(list) /\ s.template = t
BY DEF FindNewReplicaSet, Range

LEMMA NoneFound ==
  ASSUME NEW list, IsList(list), NEW t, FindNewReplicaSet(list, t) = {}
  PROVE  \A i \in DOMAIN list : list[i].template # t
<1>. DEFINE equal == {i \in DOMAIN list : list[i].template = t}
<1>1. SUFFICES ASSUME equal # {} PROVE FALSE
  OBVIOUS
<1>2. equal \in SUBSET Nat
  BY DEF IsList
<1>3. PICK i \in equal : \A k \in equal : i <= k
  <2>. HIDE DEF equal
  <2>. QED BY <1>1, <1>2, Least
<1>. QED
  BY <1>3 DEF FindNewReplicaSet

LEMMA NewRevisionType ==
  ASSUME NEW list, IsList(list), NEW t
  PROVE  NewRevision(list, t) \in Nat
<1>. DEFINE olds == Range(list) \ FindNewReplicaSet(list, t)
            revisions == {s.revision : s \in olds}
<1>1. IsFiniteSet(olds) /\ olds \subseteq SetType
  BY RangeOfList, FS_Subset
<1>2. IsFiniteSet(revisions) /\ revisions \subseteq Nat
  <2>1. IsFiniteSet(revisions)
    <3>. DEFINE f == [s \in olds |-> s.revision]
    <3>. HIDE DEF olds
    <3>1. DOMAIN f = olds /\ f = [s \in olds |-> f[s]]
      OBVIOUS
    <3>2. {f[s] : s \in olds} = revisions
      OBVIOUS
    <3>. HIDE DEF f, revisions
    <3>. QED BY <1>1, <3>1, <3>2, FiniteImage
  <2>2. revisions \subseteq Nat
    BY <1>1 DEF SetType
  <2>. QED BY <2>1, <2>2
<1>. HIDE DEF revisions
<1>3. IsFiniteSet({0} \cup revisions)
  BY <1>2, FS_Singleton, FS_Union
<1>4. {0} \cup revisions \subseteq Nat /\ {0} \cup revisions # {}
  BY <1>2
<1>5. Max({0} \cup revisions) \in Nat
  BY <1>3, <1>4, MaxOfFinite
<1>. QED
  BY <1>5 DEF NewRevision, revisions

(***************************************************************************)
(* What the writes do to a ReplicaSet                                      *)
(***************************************************************************)
(* Name, template and owner are for life, and so is being deleted.         *)
Alike(s, t) == /\ t.name = s.name /\ t.template = s.template /\ t.own = s.own
               /\ s.dying => t.dying
Recorded(s, t) ==
  t.revision # s.revision =>
    t.revision > s.revision /\ t.history = Fitting(Append(s.history, s.revision))

LEMMA FittingType ==
  ASSUME NEW h \in Seq(Nat), NEW r \in Nat
  PROVE  Fitting(Append(h, r)) \in Seq(Nat)
<1>. DEFINE a == Append(h, r)
            m == Max({1, Len(a) - HistoryLimit + 1})
<1>1. a \in Seq(Nat) /\ Len(a) \in Nat /\ Len(a) >= 1 /\ HistoryLimit \in Nat /\ HistoryLimit >= 1
  BY BoundAssumption
<1>. HIDE DEF a
<1>2. m \in Int /\ m >= 1
  <2>. DEFINE k == Len(a) - HistoryLimit + 1
  <2>1. k \in Int
    BY <1>1
  <2>. HIDE DEF k
  <2>2. PICK x \in {1, k} : \A y \in {1, k} : x >= y
    BY <2>1
  <2>3. Max({1, k}) \in {1, k} /\ \A y \in {1, k} : Max({1, k}) >= y
    BY <2>2 DEF Max
  <2>. QED
    BY <2>1, <2>3 DEF k
<1>. HIDE DEF m
<1>3. \A i \in m .. Len(a) : a[i] \in Nat
  BY <1>1, <1>2
<1>4. SubSeq(a, m, Len(a)) \in Seq(Nat)
  BY <1>1, <1>2, <1>3, SubSeqProperties
<1>. QED
  BY <1>4 DEF Fitting, a, m

LEMMA AnnotatedSet ==
  ASSUME NEW s \in SetType, NEW d \in DeploymentType, NEW n \in Nat
  PROVE  /\ Annotated(s, d, n) \in SetType /\ Alike(s, Annotated(s, d, n))
         /\ Recorded(s, Annotated(s, d, n)) /\ Annotated(s, d, n).dying = s.dying
<1>. DEFINE m == s.marked \/ d.gen > 0
            r == Max({s.revision, n})
            h == IF s.revision < n THEN Fitting(Append(s.history, s.revision)) ELSE s.history
<1>1. s.revision \in Nat /\ s.history \in Seq(Nat)
  BY DEF SetType
<1>2. r = IF s.revision >= n THEN s.revision ELSE n
  BY <1>1, MaxOfTwo
<1>3. r \in Nat /\ h \in Seq(Nat)
  <2>1. r \in Nat
    BY <1>1, <1>2
  <2>2. h \in Seq(Nat)
    BY <1>1, FittingType
  <2>. QED BY <2>1, <2>2
<1>4. Annotated(s, d, n) = [s EXCEPT !.marked = m, !.revision = r, !.history = h]
  BY DEF Annotated
<1>5. r # s.revision => r > s.revision /\ h = Fitting(Append(s.history, s.revision))
  BY <1>1, <1>2
<1>. HIDE DEF r, h
<1>6. Annotated(s, d, n) \in SetType
  <2>1. m \in BOOLEAN
    OBVIOUS
  <2>. HIDE DEF m
  <2>. QED BY <1>3, <1>4, <2>1 DEF SetType
<1>. HIDE DEF m
<1>7. Alike(s, Annotated(s, d, n)) /\ Annotated(s, d, n).dying = s.dying
  BY <1>4 DEF SetType, Alike
<1>8. Annotated(s, d, n).revision = r /\ Annotated(s, d, n).history = h
  BY <1>4 DEF SetType
<1>9. Recorded(s, Annotated(s, d, n))
  BY <1>5, <1>8 DEF Recorded
<1>. QED
  BY <1>6, <1>7, <1>9

(* All sets go on under their names; only one that is being deleted goes.  *)
Kept ==
  /\ DOMAIN sets' \subseteq DOMAIN sets
  /\ \A i \in DOMAIN sets' : Alike(sets[i], sets'[i]) /\ Recorded(sets[i], sets'[i])
  /\ \A i \in DOMAIN sets \ DOMAIN sets' : sets[i].dying
  /\ \A i \in DOMAIN sets' : ~sets[i].own => sets'[i].dying = sets[i].dying

LEMMA UnchangedKept ==
  ASSUME IsList(sets), UNCHANGED sets
  PROVE  Kept /\ IsList(sets')
BY DEF Kept, Alike, Recorded, IsList

LEMMA ReplacedKept ==
  ASSUME IsList(sets), NEW s \in SetType, NEW d \in DeploymentType, NEW n \in Nat,
         sets' = Replaced(s, Annotated(s, d, n))
  PROVE  Kept /\ IsList(sets')
<1>. DEFINE t == Annotated(s, d, n)
<1>1. t \in SetType /\ Alike(s, t) /\ Recorded(s, t) /\ t.dying = s.dying
  BY AnnotatedSet
<1>. HIDE DEF t
<1>2. sets' = [i \in DOMAIN sets |-> IF sets[i] = s THEN t ELSE sets[i]]
  BY DEF Replaced, t
<1>3. IsList(sets')
  BY <1>1, <1>2 DEF IsList
<1>4. \A i \in DOMAIN sets : sets'[i] = IF sets[i] = s THEN t ELSE sets[i]
  BY <1>2
<1>5. \A i \in DOMAIN sets : Alike(sets[i], sets[i]) /\ Recorded(sets[i], sets[i])
  BY DEF Alike, Recorded
<1>6. DOMAIN sets' = DOMAIN sets
  BY <1>2
<1>7. \A i \in DOMAIN sets' : Alike(sets[i], sets'[i]) /\ Recorded(sets[i], sets'[i])
                              /\ sets'[i].dying = sets[i].dying
  <2>. TAKE i \in DOMAIN sets'
  <2>1. CASE sets[i] = s
    BY <1>1, <1>4, <1>6, <2>1
  <2>2. CASE sets[i] # s
    BY <1>4, <1>5, <1>6, <2>2
  <2>. QED BY <2>1, <2>2
<1>. QED
  BY <1>3, <1>6, <1>7 DEF Kept

(* A new set gets a place of its own.                                      *)
LEMMA AddedSet ==
  ASSUME IsList(sets), NEW s \in SetType, sets' = Added(s)
  PROVE  /\ IsList(sets')
         /\ \E now \in Nat : /\ now \notin DOMAIN sets /\ DOMAIN sets' = DOMAIN sets \cup {now}
                             /\ sets'[now] = s
                             /\ \A i \in DOMAIN sets : sets'[i] = sets[i]
<1>. DEFINE times == {0} \cup DOMAIN sets
            now == 1 + Max(times)
<1>1. IsFiniteSet(times) /\ times \subseteq Nat /\ times # {}
  <2>1. IsFiniteSet({0}) /\ IsFiniteSet(DOMAIN sets) /\ DOMAIN sets \subseteq Nat
    BY FS_Singleton DEF IsList
  <2>2. IsFiniteSet(times)
    BY <2>1, FS_Union
  <2>. QED BY <2>1, <2>2
<1>2. Max(times) \in Nat /\ \A i \in times : Max(times) >= i
  <2>. HIDE DEF times
  <2>. QED BY <1>1, MaxOfFinite
<1>3. now \in Nat /\ now \notin DOMAIN sets
  <2>1. now \in Nat /\ \A i \in times : i \in Nat /\ now > i
    <3>. HIDE DEF times
    <3>. QED BY <1>1, <1>2
  <2>. QED BY <2>1
<1>4. sets' = [i \in DOMAIN sets \cup {now} |-> IF i = now THEN s ELSE sets[i]]
  BY DEF Added
<1>. HIDE DEF now
<1>5. IsFiniteSet(DOMAIN sets \cup {now})
  BY FS_Singleton, FS_Union DEF IsList
<1>6. IsList(sets')
  BY <1>3, <1>4, <1>5 DEF IsList
<1>7. /\ DOMAIN sets' = DOMAIN sets \cup {now} /\ sets'[now] = s
      /\ \A i \in DOMAIN sets : sets'[i] = sets[i]
  BY <1>3, <1>4
<1>. QED
  BY <1>3, <1>6, <1>7

(***************************************************************************)
(* The Deployment and the locals                                           *)
(***************************************************************************)
SameRelease(d, e) == d.template = e.template /\ d.gen = e.gen /\ d.count = e.count

LEMMA RevisedDeployment ==
  ASSUME NEW e \in DeploymentType, NEW r \in Nat, NEW c \in Reasons
  PROVE  /\ [e EXCEPT !.revision = r, !.cond = c] \in DeploymentType
         /\ SameRelease([e EXCEPT !.revision = r, !.cond = c], e)
BY DEF DeploymentType, SameRelease

LEMMA ReportedDeployment ==
  ASSUME NEW e \in DeploymentType, NEW c \in Reasons
  PROVE  [e EXCEPT !.cond = c] \in DeploymentType /\ SameRelease([e EXCEPT !.cond = c], e)
BY DEF DeploymentType, SameRelease

LEMMA BumpedDeployment ==
  ASSUME NEW e \in DeploymentType, e.count < MaxCount
  PROVE  LET d == [e EXCEPT !.count = @ + 1]
         IN /\ d \in DeploymentType
            /\ d.template = e.template /\ d.gen = e.gen /\ d.count = e.count + 1
BY BoundAssumption DEF DeploymentType

LEMMA NoLocalsType ==
  /\ IsList(NoLocals.list) /\ NoLocals.de \in DeploymentType
  /\ NoLocals.call = "none" /\ NoLocals.adopted \in BOOLEAN
  /\ NoLocals = [list |-> NoLocals.list, de |-> NoLocals.de, call |-> NoLocals.call,
                 adopted |-> NoLocals.adopted]
<1>1. IsList(<<>>)
  <2>1. DOMAIN <<>> = {} /\ <<>> \in [{} -> SetType]
    OBVIOUS
  <2>. QED BY <2>1, FS_EmptySet DEF IsList
<1>2. FirstDeployment \in DeploymentType
  BY TemplateAssumption, BoundAssumption DEF FirstDeployment, DeploymentType, Reasons
<1>. QED
  BY <1>1, <1>2 DEF NoLocals

Stored  == IsList(sets) /\ IsList(setCache) /\ de \in DeploymentType /\ deCache \in DeploymentType
Control == /\ stage \in {"upgrade", "settled"} /\ queued \in BOOLEAN
           /\ pc \in {"idle", "call", "taken", "revise"}
           /\ LocalsTyped
           /\ (pc = "idle") = (rec.call = "none")
           /\ scales \in 0 .. MaxScales
Counted == deletes \in 0 .. MaxDeletes /\ faults \in 0 .. MaxFaults

LEMMA TypeParts == TypeOK <=> Stored /\ Control /\ Counted
BY DEF TypeOK, Stored, Control, Counted

LEMMA TypePartsNext == TypeOK' <=> Stored' /\ Control' /\ Counted'
BY DEF TypeOK, Stored, Control, Counted

LEMMA IdleLocals == rec' = NoLocals => LocalsTyped' /\ rec'.call = "none"
<1>1. ASSUME rec' = NoLocals PROVE LocalsTyped' /\ rec'.call = "none"
  <2>. DEFINE l == NoLocals
  <2>1. /\ IsList(l.list) /\ l.de \in DeploymentType /\ l.call = "none" /\ l.adopted \in BOOLEAN
        /\ l = [list |-> l.list, de |-> l.de, call |-> l.call, adopted |-> l.adopted]
    BY NoLocalsType
  <2>2. rec' = l
    BY <1>1
  <2>. HIDE DEF l
  <2>. QED BY <2>1, <2>2 DEF LocalsTyped
<1>. QED BY <1>1

LEMMA FailsType ==
  ASSUME Control, Fails
  PROVE  Control'
<1>1. LocalsTyped' /\ rec'.call = "none" /\ pc' = "idle"
  BY IdleLocals DEF Fails
<1>. QED
  BY <1>1 DEF Fails, Control

(* A call that answers goes on to the next one with what it made of the    *)
(* Deployment, or ends the reconcile.                                      *)
LEMMA ReturnsCases ==
  ASSUME LocalsTyped, NEW d \in DeploymentType, Returns(d)
  PROVE  \/ pc' = "idle" /\ rec' = NoLocals
         \/ /\ pc' = "call"
            /\ rec'.list = rec.list /\ rec'.de = d /\ rec'.adopted = rec.adopted
            /\ rec'.call \in {"sync", "upgrade"}
            /\ rec' = [list |-> rec'.list, de |-> rec'.de, call |-> rec'.call,
                       adopted |-> rec'.adopted]
<1>1. CASE pc' = "idle" /\ rec' = NoLocals
  BY <1>1
<1>2. ASSUME NEW c \in {"sync", "upgrade"},
             rec' = [rec EXCEPT !.call = c, !.de = d]
      PROVE  /\ rec'.list = rec.list /\ rec'.de = d /\ rec'.adopted = rec.adopted
             /\ rec'.call = c
             /\ rec' = [list |-> rec'.list, de |-> rec'.de, call |-> rec'.call,
                        adopted |-> rec'.adopted]
  <2>. DEFINE l == [list |-> rec.list, de |-> d, call |-> c, adopted |-> rec.adopted]
  <2>1. rec' = l
    BY <1>2 DEF LocalsTyped
  <2>. QED BY <2>1
<1>3. \/ pc' = "idle" /\ rec' = NoLocals
      \/ pc' = "call" /\ \E c \in {"sync", "upgrade"} : rec' = [rec EXCEPT !.call = c, !.de = d]
  BY DEF Returns, Ends
<1>. QED
  BY <1>2, <1>3

LEMMA ReturnsType ==
  ASSUME Control, NEW d \in DeploymentType, Returns(d)
  PROVE  Control'
<1>1. /\ stage' \in {"upgrade", "settled"} /\ queued' \in BOOLEAN
      /\ scales' \in 0 .. MaxScales
  <2>1. /\ stage' \in {"upgrade", "settled", stage} /\ (queued' = TRUE \/ queued' = queued)
        /\ scales' = scales \/ (scales < MaxScales /\ scales' = scales + 1)
    BY DEF Returns
  <2>2. stage' \in {"upgrade", "settled"} /\ queued' \in BOOLEAN
    BY <2>1, Zenon DEF Control
  <2>3. scales' \in 0 .. MaxScales
    BY <2>1, BoundAssumption DEF Control
  <2>. QED
    BY <2>2, <2>3
<1>2. LocalsTyped /\ (\/ pc' = "idle" /\ rec' = NoLocals
                      \/ /\ pc' = "call"
                         /\ rec'.list = rec.list /\ rec'.de = d /\ rec'.adopted = rec.adopted
                         /\ rec'.call \in {"sync", "upgrade"}
                         /\ rec' = [list |-> rec'.list, de |-> rec'.de, call |-> rec'.call,
                                    adopted |-> rec'.adopted])
  BY ReturnsCases DEF Control
<1>3. /\ pc' \in {"idle", "call", "taken", "revise"} /\ LocalsTyped'
      /\ (pc' = "idle") = (rec'.call = "none")
  <2>1. CASE pc' = "idle" /\ rec' = NoLocals
    BY <2>1, IdleLocals
  <2>2. CASE ~(pc' = "idle" /\ rec' = NoLocals)
    BY <1>2, <2>2 DEF LocalsTyped
  <2>. QED BY <2>1, <2>2
<1>. QED
  BY <1>1, <1>3 DEF Control

(***************************************************************************)
(* What a step may do                                                      *)
(***************************************************************************)
(* Most steps keep the sets, the release and what the reconcile has read.  *)
LocalsGoOn ==
  pc' = "idle" \/ (pc # "idle" /\ rec'.list = rec.list /\ SameRelease(rec'.de, rec.de))
Quiet == /\ Kept /\ SameRelease(de', de) /\ LocalsGoOn
         /\ UNCHANGED <<setCache, deCache>>

LEMMA SameIsSame == \A d : SameRelease(d, d)
BY DEF SameRelease

LEMMA FailsGoesOn == Fails => LocalsGoOn
BY DEF Fails, LocalsGoOn

LEMMA ReturnsGoesOn ==
  ASSUME LocalsTyped, NEW d \in DeploymentType, Returns(d), SameRelease(d, rec.de), pc # "idle"
  PROVE  LocalsGoOn
BY ReturnsCases DEF LocalsGoOn

LEMMA PatchExistingStep ==
  ASSUME TypeOK, PatchExisting
  PROVE  TypeOK' /\ Quiet
<1>0. Stored /\ Control /\ Counted /\ LocalsTyped
  BY TypeParts DEF Control
<1>1. IsList(rec.list) /\ rec.de \in DeploymentType
  BY <1>0 DEF LocalsTyped
<1>2. NewRevision(rec.list, rec.de.template) \in Nat
  BY <1>1, NewRevisionType
<1>3. PICK s \in Found :
        IF s \in Range(sets)
          THEN sets' = Replaced(s, Revised(s)) /\ Returns(rec.de)
          ELSE Fails /\ UNCHANGED sets
  BY DEF PatchExisting
<1>4. s \in SetType
  BY <1>1, <1>3, FoundIsListed, RangeOfList DEF Found
<1>5. /\ UNCHANGED <<de, setCache, deCache, deletes, faults>> /\ pc # "idle"
  BY DEF PatchExisting
<1>6. Kept /\ IsList(sets')
  <2>1. CASE s \in Range(sets)
    BY <1>0, <1>1, <1>2, <1>3, <1>4, <2>1, ReplacedKept DEF Revised, Stored
  <2>2. CASE s \notin Range(sets)
    BY <1>0, <1>3, <2>2, UnchangedKept DEF Stored
  <2>. QED BY <2>1, <2>2
<1>7. Control' /\ LocalsGoOn
  BY <1>0, <1>1, <1>3, <1>5, FailsType, FailsGoesOn, ReturnsType, ReturnsGoesOn, SameIsSame
<1>8. Stored' /\ Counted'
  BY <1>0, <1>5, <1>6 DEF Stored, Counted
<1>. QED
  BY <1>5, <1>6, <1>7, <1>8, TypePartsNext, SameIsSame DEF Quiet

(* A write of the Deployment that only revises or reports it.              *)
LEMMA AnswerStep ==
  ASSUME TypeOK, pc # "idle", UNCHANGED <<sets, setCache, deCache, deletes, faults>>,
         NEW d \in DeploymentType, SameRelease(d, rec.de),
         \/ Returns(d) /\ UNCHANGED de
         \/ Persists(d) /\ Returns(d)
         \/ Fails /\ UNCHANGED de
  PROVE  TypeOK' /\ Quiet
<1>0. Stored /\ Control /\ Counted /\ LocalsTyped
  BY TypeParts DEF Control
<1>1. Kept /\ IsList(sets')
  BY <1>0, UnchangedKept DEF Stored
<1>2. Control' /\ LocalsGoOn
  BY <1>0, FailsType, FailsGoesOn, ReturnsType, ReturnsGoesOn
<1>3. de' \in DeploymentType /\ SameRelease(de', de)
  BY <1>0, SameIsSame DEF Persists, Stored
<1>4. Stored' /\ Counted'
  BY <1>0, <1>1, <1>3 DEF Stored, Counted
<1>. QED
  BY <1>1, <1>2, <1>3, <1>4, TypePartsNext DEF Quiet

LEMMA FollowExistingStep ==
  ASSUME TypeOK, FollowExisting
  PROVE  TypeOK' /\ Quiet
<1>1. IsList(rec.list) /\ rec.de \in DeploymentType
  BY TypeParts DEF Control, LocalsTyped
<1>2. PICK s \in Found :
        LET d == [rec.de EXCEPT !.revision = s.revision,
                                !.cond = IF Deadline /\ @ = "None" THEN "Found" ELSE @]
        IN \/ d = rec.de /\ Returns(d) /\ UNCHANGED de
           \/ d # rec.de /\ Persists(d) /\ Returns(d)
           \/ d # rec.de /\ de # rec.de /\ Fails /\ UNCHANGED de
  BY DEF FollowExisting
<1>3. s \in SetType
  BY <1>1, <1>2, FoundIsListed, RangeOfList DEF Found
<1>. DEFINE c == IF Deadline /\ rec.de.cond = "None" THEN "Found" ELSE rec.de.cond
            d == [rec.de EXCEPT !.revision = s.revision, !.cond = c]
<1>4. c \in Reasons /\ s.revision \in Nat
  BY <1>1, <1>3 DEF Reasons, DeploymentType, SetType
<1>5. \/ Returns(d) /\ UNCHANGED de
      \/ Persists(d) /\ Returns(d)
      \/ Fails /\ UNCHANGED de
  BY <1>2
<1>. HIDE DEF c
<1>6. d \in DeploymentType /\ SameRelease(d, rec.de)
  BY <1>1, <1>4, RevisedDeployment
<1>. HIDE DEF d
<1>. QED
  BY <1>5, <1>6, AnswerStep DEF FollowExisting

LEMMA FindNoneStep ==
  ASSUME TypeOK, FindNone
  PROVE  TypeOK' /\ Quiet
<1>1. rec.de \in DeploymentType
  BY TypeParts DEF Control, LocalsTyped
<1>. QED
  BY <1>1, AnswerStep, SameIsSame DEF FindNone

LEMMA ReviseStep ==
  ASSUME TypeOK, Revise
  PROVE  TypeOK' /\ Quiet
<1>1. IsList(rec.list) /\ rec.de \in DeploymentType
  BY TypeParts DEF Control, LocalsTyped
<1>. DEFINE n == NewRevision(rec.list, rec.de.template)
            c == IF Deadline /\ ~rec.adopted THEN "Created" ELSE rec.de.cond
            d == [rec.de EXCEPT !.revision = n, !.cond = c]
<1>2. c \in Reasons
  BY <1>1 DEF Reasons, DeploymentType
<1>3. n \in Nat
  BY <1>1, NewRevisionType
<1>4. \/ Returns(d) /\ UNCHANGED de
      \/ Persists(d) /\ Returns(d)
      \/ Fails /\ UNCHANGED de
  BY DEF Revise
<1>. HIDE DEF c, n
<1>5. d \in DeploymentType /\ SameRelease(d, rec.de)
  BY <1>1, <1>2, <1>3, RevisedDeployment
<1>. HIDE DEF d
<1>. QED
  BY <1>4, <1>5, AnswerStep DEF Revise

(* A set is created, under a name that is free.                            *)
Creation ==
  /\ pc = "call" /\ Found = {}
  /\ \A i \in DOMAIN sets : sets[i].name # Name
  /\ \E now \in Nat :
       /\ now \notin DOMAIN sets /\ DOMAIN sets' = DOMAIN sets \cup {now}
       /\ sets'[now].name = Name /\ sets'[now].template = rec.de.template
       /\ sets'[now].own /\ ~sets'[now].dying
       /\ \A i \in DOMAIN sets : sets'[i] = sets[i]
  /\ UNCHANGED <<de, setCache, deCache, rec>>

LEMMA NameType ==
  ASSUME NEW d \in DeploymentType
  PROVE  Hash[d.template, d.count] \in Range(Hash)
<1>1. <<d.template, d.count>> \in DOMAIN Hash
  BY HashAssumption DEF DeploymentType
<1>. QED
  BY <1>1 DEF Range

LEMMA CreateNewStep ==
  ASSUME TypeOK, CreateNew
  PROVE  TypeOK' /\ (Quiet \/ Creation)
<1>0. Stored /\ Control /\ Counted
  BY TypeParts
<1>1. IsList(rec.list) /\ rec.de \in DeploymentType /\ LocalsTyped
  BY <1>0 DEF Control, LocalsTyped
<1>2. /\ UNCHANGED <<de, setCache, deCache, stage, queued, rec, scales, deletes, faults>>
      /\ pc = "call" /\ Found = {} /\ pc' \in {"revise", "taken"}
  BY DEF CreateNew, CreatesNew
<1>3. Control' /\ LocalsGoOn
  <2>1. LocalsTyped'
    BY <1>1, <1>2 DEF LocalsTyped
  <2>2. stage' \in {"upgrade", "settled"} /\ queued' \in BOOLEAN
    BY <1>0, <1>2, Zenon DEF Control
  <2>3. (pc' = "idle") = (rec'.call = "none") /\ scales' \in 0 .. MaxScales
    BY <1>0, <1>2 DEF Control
  <2>. QED
    BY <1>2, <2>1, <2>2, <2>3, SameIsSame DEF Control, LocalsGoOn
<1>4. CASE Named(sets, Name) = {}
  <2>. DEFINE q == NewSet(Name, rec.de, NewRevision(rec.list, rec.de.template))
  <2>1. sets' = Added(q)
    BY <1>4 DEF CreateNew
  <2>2. q \in SetType /\ q.name = Name /\ q.template = rec.de.template /\ q.own /\ ~q.dying
    <3>1. Name \in Range(Hash) /\ NewRevision(rec.list, rec.de.template) \in Nat
          /\ rec.de.template \in Templates
      BY <1>1, NameType, NewRevisionType DEF Name, DeploymentType
    <3>. QED
      BY <3>1 DEF NewSet, SetType
  <2>. HIDE DEF q
  <2>3. IsList(sets')
    BY <1>0, <2>1, <2>2, AddedSet DEF Stored
  <2>4. \E now \in Nat : /\ now \notin DOMAIN sets /\ DOMAIN sets' = DOMAIN sets \cup {now}
                         /\ sets'[now] = q
                         /\ \A i \in DOMAIN sets : sets'[i] = sets[i]
    BY <1>0, <2>1, <2>2, AddedSet DEF Stored
  <2>5. \A i \in DOMAIN sets : sets[i].name # Name
    BY <1>4 DEF Named, Range
  <2>6. Creation
    BY <1>2, <2>2, <2>4, <2>5 DEF Creation
  <2>7. Stored' /\ Counted'
    BY <1>0, <1>2, <2>3 DEF Stored, Counted
  <2>. QED
    BY <1>3, <2>6, <2>7, TypePartsNext
<1>5. CASE Named(sets, Name) # {}
  <2>1. UNCHANGED sets
    BY <1>5 DEF CreateNew
  <2>2. Kept /\ IsList(sets')
    BY <1>0, <2>1, UnchangedKept DEF Stored
  <2>3. Stored' /\ Counted'
    BY <1>0, <1>2, <2>2 DEF Stored, Counted
  <2>. QED
    BY <1>2, <1>3, <2>2, <2>3, TypePartsNext, SameIsSame DEF Quiet
<1>. QED
  BY <1>4, <1>5

(* The collision count goes on, because the cache shows another's set.     *)
Bump ==
  /\ pc # "idle" /\ pc' = "idle" /\ de = rec.de
  /\ de'.template = de.template /\ de'.gen = de.gen /\ de'.count = de.count + 1
  /\ \E i \in DOMAIN setCache : setCache[i].name = Hash[de.template, de.count]
                                /\ ~(setCache[i].own /\ setCache[i].template = de.template)
  /\ UNCHANGED <<sets, setCache, deCache>>

LEMMA NameTakenStep ==
  ASSUME TypeOK, NameTaken
  PROVE  TypeOK' /\ (Quiet \/ Bump)
<1>0. Stored /\ Control /\ Counted
  BY TypeParts
<1>1. LocalsTyped /\ rec.de \in DeploymentType
  BY <1>0 DEF Control, LocalsTyped
<1>2. UNCHANGED <<sets, setCache, deCache, deletes, faults>> /\ pc = "taken"
  BY DEF NameTaken
<1>3. Kept /\ IsList(sets')
  BY <1>0, <1>2, UnchangedKept DEF Stored
<1>4. CASE pc' = "revise" /\ rec' = [rec EXCEPT !.adopted = TRUE]
           /\ UNCHANGED <<de, stage, queued, scales>>
  <2>1. LocalsTyped' /\ rec'.list = rec.list /\ rec'.de = rec.de /\ rec'.call = rec.call
    <3>. DEFINE l == [list |-> rec.list, de |-> rec.de, call |-> rec.call, adopted |-> TRUE]
    <3>1. rec' = l
      BY <1>1, <1>4 DEF LocalsTyped
    <3>. QED
      BY <1>1, <3>1 DEF LocalsTyped
  <2>2. stage' \in {"upgrade", "settled"} /\ queued' \in BOOLEAN
    BY <1>0, <1>4, Zenon DEF Control
  <2>3. (pc' = "idle") = (rec'.call = "none") /\ scales' \in 0 .. MaxScales
    BY <1>0, <1>2, <1>4, <2>1 DEF Control
  <2>4. Control' /\ LocalsGoOn
    BY <1>2, <1>4, <2>1, <2>2, <2>3, SameIsSame DEF Control, LocalsGoOn
  <2>5. Stored' /\ Counted'
    BY <1>0, <1>2, <1>3, <1>4 DEF Stored, Counted
  <2>. QED
    BY <1>2, <1>3, <1>4, <2>4, <2>5, TypePartsNext, SameIsSame DEF Quiet
<1>5. CASE Fails /\ UNCHANGED de
  <2>1. Control' /\ LocalsGoOn
    BY <1>0, <1>5, FailsType, FailsGoesOn
  <2>2. Stored' /\ Counted'
    BY <1>0, <1>2, <1>3, <1>5 DEF Stored, Counted
  <2>. QED
    BY <1>2, <1>3, <1>5, <2>1, <2>2, TypePartsNext, SameIsSame DEF Quiet
<1>6. ASSUME NEW s \in Named(setCache, Name), ~IsOurs(s), rec.de.count < MaxCount, Fails,
             Persists([rec.de EXCEPT !.count = @ + 1])
      PROVE  TypeOK' /\ Bump
  <2>. DEFINE d == [rec.de EXCEPT !.count = @ + 1]
  <2>1. d \in DeploymentType /\ d.template = rec.de.template /\ d.gen = rec.de.gen
        /\ d.count = rec.de.count + 1
    BY <1>1, <1>6, BumpedDeployment
  <2>. HIDE DEF d
  <2>2. de = rec.de /\ de' = d
    BY <1>6 DEF Persists, d
  <2>3. Stored' /\ Counted' /\ Control'
    BY <1>0, <1>2, <1>3, <1>6, <2>1, <2>2, FailsType DEF Stored, Counted
  <2>4. PICK i \in DOMAIN setCache : s = setCache[i] /\ s.name = Name
    BY <1>6 DEF Named, Range
  <2>5. Bump
    BY <1>2, <1>6, <2>1, <2>2, <2>4 DEF Bump, Fails, Name, IsOurs
  <2>. QED
    BY <2>3, <2>5, TypePartsNext
<1>. QED
  BY <1>4, <1>5, <1>6 DEF NameTaken

LEMMA FaultStep ==
  ASSUME TypeOK, CreateFails \/ CallFails
  PROVE  TypeOK' /\ Quiet
<1>0. Stored /\ Control /\ Counted
  BY TypeParts
<1>1. /\ UNCHANGED <<sets, setCache, deCache, deletes>> /\ Fails
      /\ faults < MaxFaults /\ faults' = faults + 1
  BY DEF CreateFails, CallFails
<1>2. de' = de \/ de' = [de EXCEPT !.cond = "CreateError"]
  BY DEF CreateFails, CallFails
<1>3. de' \in DeploymentType /\ SameRelease(de', de)
  <2>1. de \in DeploymentType /\ "CreateError" \in Reasons
    BY <1>0 DEF Stored, Reasons
  <2>. QED
    BY <1>2, <2>1, ReportedDeployment, SameIsSame
<1>4. Kept /\ IsList(sets')
  BY <1>0, <1>1, UnchangedKept DEF Stored
<1>5. Control' /\ LocalsGoOn
  BY <1>0, <1>1, FailsType, FailsGoesOn
<1>6. Stored' /\ Counted'
  BY <1>0, <1>1, <1>3, <1>4, BoundAssumption DEF Stored, Counted
<1>. QED
  BY <1>1, <1>3, <1>4, <1>5, <1>6, TypePartsNext DEF Quiet

(* Steps of others leave the reconcile alone.                              *)
LEMMA ControlStays ==
  ASSUME Control, UNCHANGED <<pc, rec, scales>>,
         stage' = stage \/ stage' = "upgrade", queued' = queued \/ queued' = TRUE
  PROVE  Control' /\ LocalsGoOn
<1>1. LocalsTyped'
  BY DEF Control, LocalsTyped
<1>2. stage' \in {"upgrade", "settled"} /\ queued' \in BOOLEAN
  BY Zenon DEF Control
<1>3. (pc' = "idle") = (rec'.call = "none") /\ scales' \in 0 .. MaxScales
  BY DEF Control
<1>. QED
  BY <1>1, <1>2, <1>3, SameIsSame DEF Control, LocalsGoOn

LEMMA NativeAnnotatesStep ==
  ASSUME TypeOK, NativeAnnotates
  PROVE  TypeOK' /\ Quiet
<1>0. Stored /\ Control /\ Counted
  BY TypeParts
<1>. DEFINE list == Listed(sets)
            n == NewRevision(list, de.template)
<1>1. PICK s \in FindNewReplicaSet(list, de.template) :
        \/ sets' = Replaced(s, Annotated(s, de, n)) /\ UNCHANGED de
        \/ de' = [de EXCEPT !.revision = s.revision] /\ UNCHANGED sets
  BY DEF NativeAnnotates
<1>2. IsList(list)
  BY <1>0, ListedType DEF Stored
<1>. HIDE DEF list
<1>3. s \in SetType /\ n \in Nat
  BY <1>1, <1>2, FoundIsListed, RangeOfList, NewRevisionType
<1>. HIDE DEF n
<1>4. UNCHANGED <<setCache, deCache, stage, queued, pc, rec, scales, deletes, faults>>
  BY DEF NativeAnnotates
<1>5. Kept /\ IsList(sets')
  BY <1>0, <1>1, <1>3, ReplacedKept, UnchangedKept DEF Stored
<1>6. de' \in DeploymentType /\ SameRelease(de', de)
  BY <1>0, <1>1, <1>3, SameIsSame DEF Stored, SetType, DeploymentType, SameRelease
<1>7. Control' /\ LocalsGoOn
  BY <1>0, <1>4, ControlStays
<1>8. Stored' /\ Counted'
  BY <1>0, <1>4, <1>5, <1>6 DEF Stored, Counted
<1>. QED
  BY <1>4, <1>5, <1>6, <1>7, <1>8, TypePartsNext DEF Quiet

LEMMA NativeReportsStep ==
  ASSUME TypeOK, NativeReports
  PROVE  TypeOK' /\ Quiet
<1>0. Stored /\ Control /\ Counted
  BY TypeParts
<1>1. /\ UNCHANGED <<sets, setCache, deCache, stage, queued, pc, rec, scales, deletes, faults>>
      /\ de' = [de EXCEPT !.cond = "Paused"]
  BY DEF NativeReports
<1>2. de' \in DeploymentType /\ SameRelease(de', de)
  BY <1>0, <1>1, ReportedDeployment DEF Stored, Reasons
<1>3. Kept /\ IsList(sets')
  BY <1>0, <1>1, UnchangedKept DEF Stored
<1>4. Control' /\ LocalsGoOn
  BY <1>0, <1>1, ControlStays
<1>5. Stored' /\ Counted'
  BY <1>0, <1>1, <1>2, <1>3 DEF Stored, Counted
<1>. QED
  BY <1>1, <1>2, <1>3, <1>4, <1>5, TypePartsNext DEF Quiet

LEMMA CleanUpStep ==
  ASSUME TypeOK, NativeCleansUp \/ Removed
  PROVE  TypeOK' /\ Quiet
<1>0. Stored /\ Control /\ Counted
  BY TypeParts
<1>1. /\ UNCHANGED <<de, setCache, deCache, stage, queued, pc, rec, scales, faults>>
      /\ deletes' = deletes \/ (deletes < MaxDeletes /\ deletes' = deletes + 1)
  BY DEF NativeCleansUp, Removed
<1>2. \A s \in SetType : Alike(s, s) /\ Recorded(s, s)
  BY DEF Alike, Recorded
<1>3. ASSUME NativeCleansUp PROVE Kept /\ IsList(sets')
  <2>1. PICK i \in DOMAIN sets :
          sets[i].own /\ ~sets[i].dying /\ sets' = [sets EXCEPT ![i] = [sets[i] EXCEPT !.dying = TRUE]]
    BY <1>3 DEF NativeCleansUp
  <2>. DEFINE s == sets[i]
              t == [s EXCEPT !.dying = TRUE]
  <2>2. s \in SetType
    BY <1>0 DEF Stored, IsList
  <2>3. t \in SetType /\ Alike(s, t) /\ Recorded(s, t)
    <3>. HIDE DEF s
    <3>. QED BY <2>2 DEF SetType, Alike, Recorded
  <2>. HIDE DEF t
  <2>4. sets' = [sets EXCEPT ![i] = t]
    BY <2>1 DEF t
  <2>5. IsList(sets') /\ DOMAIN sets' = DOMAIN sets
    BY <1>0, <2>3, <2>4 DEF Stored, IsList
  <2>6. \A j \in DOMAIN sets : sets[j] \in SetType /\ sets'[j] = IF j = i THEN t ELSE sets[j]
    BY <1>0, <2>4 DEF Stored, IsList
  <2>7. \A j \in DOMAIN sets' : Alike(sets[j], sets'[j]) /\ Recorded(sets[j], sets'[j])
    <3>. TAKE j \in DOMAIN sets'
    <3>1. CASE j = i
      BY <2>3, <2>5, <2>6, <3>1
    <3>2. CASE j # i
      BY <1>2, <2>5, <2>6, <3>2
    <3>. QED BY <3>1, <3>2
  <2>8. \A j \in DOMAIN sets' : ~sets[j].own => sets'[j].dying = sets[j].dying
    BY <2>1, <2>5, <2>6
  <2>. QED
    BY <2>5, <2>7, <2>8 DEF Kept
<1>4. ASSUME Removed PROVE Kept /\ IsList(sets')
  <2>. DEFINE D == {i \in DOMAIN sets : ~sets[i].dying}
  <2>1. sets' = [i \in D |-> sets[i]]
    BY <1>4 DEF Removed, Restrict
  <2>2. IsFiniteSet(D)
    BY <1>0, FS_Subset DEF Stored, IsList
  <2>3. IsList(sets')
    BY <1>0, <2>1, <2>2 DEF Stored, IsList
  <2>4. DOMAIN sets' = D /\ \A i \in D : sets'[i] = sets[i] /\ sets[i] \in SetType
    BY <1>0, <2>1 DEF Stored, IsList
  <2>5. \A i \in D : Alike(sets[i], sets'[i]) /\ Recorded(sets[i], sets'[i])
    BY <1>2, <2>4
  <2>. QED
    BY <2>3, <2>4, <2>5 DEF Kept
<1>5. Kept /\ IsList(sets')
  BY <1>3, <1>4
<1>6. Control' /\ LocalsGoOn
  BY <1>0, <1>1, ControlStays
<1>7. Stored'
  BY <1>0, <1>1, <1>5 DEF Stored
<1>8. Counted'
  BY <1>0, <1>1, BoundAssumption DEF Counted
<1>. QED
  BY <1>1, <1>5, <1>6, <1>7, <1>8, TypePartsNext, SameIsSame DEF Quiet

(* The other steps: what is read, delivered, and taken over.               *)
Begun == /\ pc = "idle" /\ rec'.list = Listed(setCache) /\ rec'.de = deCache
         /\ UNCHANGED <<sets, de, setCache, deCache>>
SetsSeen == setCache' = sets /\ LocalsGoOn /\ UNCHANGED <<sets, de, deCache>>
DeploymentSeen == deCache' = de /\ LocalsGoOn /\ UNCHANGED <<sets, de, setCache>>
Restarted == /\ setCache' = sets /\ deCache' = de /\ pc' = "idle" /\ UNCHANGED <<sets, de>>
TakenOver == /\ PromptCache => setCache = sets
             /\ de'.gen = de.gen + 1 /\ de'.count = de.count
             /\ pc' = "idle" /\ UNCHANGED <<sets, setCache, deCache>>

LEMMA StartReconcileStep ==
  ASSUME TypeOK, StartReconcile
  PROVE  TypeOK' /\ Begun
<1>0. Stored /\ Control /\ Counted
  BY TypeParts
<1>1. /\ UNCHANGED <<sets, de, setCache, deCache, stage, scales, deletes, faults>>
      /\ pc = "idle" /\ pc' = "call" /\ queued' = FALSE
      /\ rec' = [list |-> Listed(setCache), de |-> deCache, call |-> "scaling", adopted |-> FALSE]
  BY DEF StartReconcile
<1>2. IsList(Listed(setCache))
  BY <1>0, ListedType DEF Stored
<1>3. LocalsTyped'
  BY <1>0, <1>1, <1>2 DEF LocalsTyped, Stored
<1>4. Control'
  BY <1>0, <1>1, <1>3 DEF Control
<1>5. Stored'
  BY <1>0, <1>1 DEF Stored, IsList
<1>6. Counted'
  BY <1>0, <1>1 DEF Counted
<1>. QED
  BY <1>1, <1>4, <1>5, <1>6, TypePartsNext DEF Begun

LEMMA DeliveryStep ==
  ASSUME TypeOK, DeliverSets \/ DeliverDeployment
  PROVE  TypeOK' /\ (SetsSeen \/ DeploymentSeen)
<1>0. Stored /\ Control /\ Counted
  BY TypeParts
<1>1. /\ UNCHANGED <<sets, de, stage, queued, pc, rec, scales, deletes, faults>>
      /\ \/ setCache' = sets /\ deCache' = deCache
         \/ deCache' = de /\ setCache' = setCache
  BY DEF DeliverSets, DeliverDeployment
<1>2. Control' /\ LocalsGoOn
  BY <1>0, <1>1, ControlStays
<1>3. Stored' /\ Counted'
  BY <1>0, <1>1 DEF Stored, Counted, IsList
<1>. QED
  BY <1>1, <1>2, <1>3, TypePartsNext DEF SetsSeen, DeploymentSeen

LEMMA CrashStep ==
  ASSUME TypeOK, Crash
  PROVE  TypeOK' /\ Restarted
<1>0. Stored /\ Control /\ Counted
  BY TypeParts
<1>1. /\ setCache' = sets /\ deCache' = de /\ UNCHANGED <<sets, de, deletes>> /\ Fails
      /\ faults < MaxFaults /\ faults' = faults + 1
  BY DEF Crash
<1>2. Control'
  BY <1>0, <1>1, FailsType
<1>3. Stored'
  BY <1>0, <1>1 DEF Stored, IsList
<1>4. Counted'
  BY <1>0, <1>1, BoundAssumption DEF Counted
<1>. QED
  BY <1>1, <1>2, <1>3, <1>4, TypePartsNext DEF Restarted, Fails

LEMMA TakeOverStep ==
  ASSUME TypeOK, TakeOver
  PROVE  TypeOK' /\ TakenOver
<1>0. Stored /\ Control /\ Counted
  BY TypeParts
<1>1. PICK t \in Templates : de' = [de EXCEPT !.template = t, !.gen = @ + 1]
  BY DEF TakeOver
<1>2. /\ UNCHANGED <<sets, setCache, deCache, pc, rec, scales, deletes, faults>>
      /\ stage' = "upgrade" /\ queued' = TRUE
      /\ pc = "idle" /\ de.gen < MaxTakeOvers /\ (PromptCache => setCache = sets)
  BY DEF TakeOver
<1>3. de' \in DeploymentType /\ de'.gen = de.gen + 1 /\ de'.count = de.count
  <2>. DEFINE g == de.gen + 1
  <2>1. de \in DeploymentType /\ g \in 0 .. MaxTakeOvers
    BY <1>0, <1>2, BoundAssumption DEF Stored, DeploymentType
  <2>2. de' = [de EXCEPT !.template = t, !.gen = g]
    BY <1>1
  <2>. HIDE DEF g
  <2>3. de' \in DeploymentType /\ de'.gen = g /\ de'.count = de.count
    BY <2>1, <2>2 DEF DeploymentType
  <2>. QED
    BY <2>3 DEF g
<1>4. Control'
  BY <1>0, <1>2, ControlStays
<1>5. Stored' /\ Counted'
  BY <1>0, <1>2, <1>3 DEF Stored, Counted, IsList
<1>. QED
  BY <1>2, <1>3, <1>4, <1>5, TypePartsNext DEF TakenOver

LEMMA UserContinuesStep ==
  ASSUME TypeOK, UserContinues \/ UNCHANGED vars
  PROVE  TypeOK' /\ Quiet
<1>0. Stored /\ Control /\ Counted
  BY TypeParts
<1>1. /\ UNCHANGED <<sets, de, setCache, deCache, pc, rec, scales, deletes, faults>>
      /\ stage' = stage \/ stage' = "upgrade"
      /\ queued' = queued \/ queued' = TRUE
  BY DEF UserContinues, vars
<1>2. Control' /\ LocalsGoOn
  BY <1>0, <1>1, ControlStays
<1>3. Kept /\ IsList(sets')
  BY <1>0, <1>1, UnchangedKept DEF Stored
<1>4. Stored' /\ Counted'
  BY <1>0, <1>1, <1>3 DEF Stored, Counted
<1>. QED
  BY <1>1, <1>2, <1>3, <1>4, TypePartsNext, SameIsSame DEF Quiet

LEMMA EachStep ==
  ASSUME TypeOK, [Next]_vars
  PROVE  TypeOK' /\ (Quiet \/ Creation \/ Bump \/ Begun \/ SetsSeen \/ DeploymentSeen
                     \/ Restarted \/ TakenOver)
BY PatchExistingStep, FollowExistingStep, FindNoneStep, ReviseStep, CreateNewStep, NameTakenStep,
   FaultStep, NativeAnnotatesStep, NativeReportsStep, CleanUpStep, StartReconcileStep,
   DeliveryStep, CrashStep, TakeOverStep, UserContinuesStep
   DEF Next, Reconcile, Environment

(* The sets there are at first: the Deployment's own and those of others.  *)
LEMMA FirstSets ==
  ASSUME Init
  PROVE  /\ IsList(sets) /\ DOMAIN sets = 0 .. Cardinality(Foreign)
         /\ sets[0].own /\ sets[0].template = First /\ sets[0].name = Hash[First, 0]
         /\ \A i \in DOMAIN sets : /\ ~sets[i].dying
                                   /\ i # 0 => ~sets[i].own /\ sets[i].name \in Foreign
         /\ NamesUnique
<1>. DEFINE n == Cardinality(Foreign)
            others == SetToSeq(Foreign)
            first == NewSet(Hash[First, 0], FirstDeployment, 1)
            other(i) == [NewSet(others[i], FirstDeployment, 0) EXCEPT !.own = FALSE]
<1>1. n \in Nat /\ others \in [1 .. n -> Foreign] /\ IsInjective(others)
  <2>1. n \in Nat /\ ExistsBijection(1 .. n, Foreign)
    BY ForeignAssumption, FS_CardinalityType
  <2>2. \E f \in [1 .. n -> Foreign] : IsInjective(f)
    BY <2>1 DEF ExistsBijection, Bijection, Injection, IsInjective
  <2>. QED
    BY <2>1, <2>2 DEF SetToSeq
<1>2. Hash[First, 0] \in Range(Hash)
  <2>1. <<First, 0>> \in DOMAIN Hash
    BY HashAssumption, TemplateAssumption, BoundAssumption
  <2>. QED BY <2>1 DEF Range
<1>3. /\ first \in SetType /\ first.own /\ first.template = First
      /\ first.name = Hash[First, 0] /\ ~first.dying
  <2>. DEFINE h == Hash[First, 0]
  <2>1. first = NewSet(h, FirstDeployment, 1) /\ h \in Range(Hash)
    BY <1>2
  <2>. HIDE DEF h, first
  <2>2. first \in SetType /\ first.own /\ first.template = First /\ first.name = h /\ ~first.dying
    BY <2>1, TemplateAssumption DEF NewSet, SetType, FirstDeployment
  <2>. QED
    BY <2>2 DEF h
<1>4. ASSUME NEW i \in 1 .. n
      PROVE  /\ other(i) \in SetType /\ ~other(i).own /\ other(i).name = others[i]
             /\ ~other(i).dying /\ others[i] \in Foreign
  <2>1. others[i] \in Foreign
    BY <1>1
  <2>. DEFINE q == NewSet(others[i], FirstDeployment, 0)
              t == other(i)
  <2>2. t = [q EXCEPT !.own = FALSE]
    OBVIOUS
  <2>. HIDE DEF others, other, t
  <2>3. q \in SetType /\ q.name = others[i] /\ ~q.dying
    BY <2>1, TemplateAssumption DEF NewSet, SetType, FirstDeployment
  <2>. HIDE DEF q
  <2>4. t \in SetType /\ ~t.own /\ t.name = others[i] /\ ~t.dying
    BY <2>2, <2>3 DEF SetType
  <2>. QED
    BY <2>1, <2>4 DEF t
<1>5. sets = [i \in 0 .. n |-> IF i = 0 THEN first ELSE other(i)]
  BY DEF Init
<1>. HIDE DEF first, other, others, n
<1>6. \A i \in 0 .. n : i = 0 \/ i \in 1 .. n
  BY <1>1
<1>7. IsList(sets)
  <2>1. IsFiniteSet(0 .. n)
    BY <1>1, FS_Interval
  <2>2. sets \in [0 .. n -> SetType]
    BY <1>3, <1>4, <1>5, <1>6
  <2>3. DOMAIN sets = 0 .. n /\ 0 .. n \subseteq Nat
    BY <1>1, <1>5
  <2>. QED BY <2>1, <2>2, <2>3 DEF IsList
<1>8. DOMAIN sets = 0 .. n /\ sets[0] = first /\ 0 \in 0 .. n
  BY <1>1, <1>5
<1>9. \A i \in 1 .. n : sets[i] = other(i) /\ sets[i].name = others[i] /\ others[i] \in Foreign
                        /\ ~sets[i].own /\ ~sets[i].dying
  BY <1>1, <1>4, <1>5
<1>10. NamesUnique
  <2>. SUFFICES ASSUME NEW i \in 0 .. n, NEW j \in 0 .. n, sets[i].name = sets[j].name
                PROVE  i = j
    BY <1>8 DEF NamesUnique
  <2>1. CASE i \in 1 .. n /\ j \in 1 .. n
    BY <1>1, <1>9, <2>1 DEF IsInjective
  <2>2. CASE i = 0 /\ j \in 1 .. n
    BY <1>3, <1>8, <1>9, <2>2, ForeignAssumption
  <2>3. CASE j = 0 /\ i \in 1 .. n
    BY <1>3, <1>8, <1>9, <2>3, ForeignAssumption
  <2>. QED
    BY <1>6, <2>1, <2>2, <2>3
<1>. QED
  BY <1>3, <1>6, <1>7, <1>8, <1>9, <1>10 DEF n

LEMMA TypeInit == Init => TypeOK
<1>. SUFFICES ASSUME Init PROVE TypeOK
  OBVIOUS
<1>0. /\ rec = NoLocals /\ setCache = sets /\ de = FirstDeployment /\ deCache = de
      /\ stage = "settled" /\ queued = FALSE /\ pc = "idle"
      /\ scales = 0 /\ deletes = 0 /\ faults = 0
  BY Zenon DEF Init
<1>1. LocalsTyped /\ rec.call = "none"
  <2>. DEFINE l == NoLocals
  <2>1. /\ IsList(l.list) /\ l.de \in DeploymentType /\ l.call = "none" /\ l.adopted \in BOOLEAN
        /\ l = [list |-> l.list, de |-> l.de, call |-> l.call, adopted |-> l.adopted]
    BY NoLocalsType
  <2>2. rec = l
    BY <1>0
  <2>. HIDE DEF l
  <2>. QED BY <2>1, <2>2 DEF LocalsTyped
<1>2. de \in DeploymentType
  BY <1>0, NoLocalsType DEF NoLocals
<1>3. IsList(sets)
  BY FirstSets
<1>4. IsList(setCache)
  BY <1>0, <1>3 DEF IsList
<1>5. deletes \in 0 .. MaxDeletes /\ faults \in 0 .. MaxFaults /\ scales \in 0 .. MaxScales
  BY <1>0, BoundAssumption
<1>. QED
  BY <1>0, <1>1, <1>2, <1>3, <1>4, <1>5 DEF TypeOK

(* Every ReplicaSet and every copy of one has all its fields, and history  *)
(* and revision stay numbers, however often getNewReplicaSet and the       *)
(* Deployment controller number it and whatever of it is cut off.          *)
THEOREM TypeCorrect == Spec => []TypeOK
<1>1. TypeOK /\ [Next]_vars => TypeOK'
  BY EachStep
<1>. QED
  BY <1>1, TypeInit, PTL DEF Spec

(***************************************************************************)
(* Names                                                                   *)
(***************************************************************************)
LEMMA NamesInit == Init => NamesInductive
<1>. SUFFICES ASSUME Init PROVE NamesInductive
  OBVIOUS
<1>1. \A i \in DOMAIN sets : ~sets[i].own => Held(sets, sets[i].name)
  BY FirstSets DEF Held, Named, Range
<1>2. \A i \in DOMAIN sets : sets[i].own => sets[i].template = First /\ sets[i].name = Hash[First, 0]
  BY FirstSets
<1>3. 0 \in 0 .. MaxCount
  BY BoundAssumption
<1>4. NamesMade(sets)
  BY <1>1, <1>2, <1>3 DEF NamesMade, OwnName
<1>. QED
  BY <1>4, FirstSets DEF NamesInductive, Init

(* The three ways the sets change: as they were, kept, or one more.        *)
LEMMA SetsChange ==
  ASSUME IsList(sets),
         Quiet \/ Creation \/ Bump \/ Begun \/ SetsSeen \/ DeploymentSeen \/ Restarted \/ TakenOver
  PROVE  Kept \/ Creation
BY UnchangedKept DEF Quiet, Bump, Begun, SetsSeen, DeploymentSeen, Restarted, TakenOver

LEMMA HeldStays ==
  ASSUME IsList(sets), Kept \/ Creation, NEW name, Held(sets, name)
  PROVE  Held(sets', name)
<1>1. PICK i \in DOMAIN sets : sets[i].name = name /\ ~sets[i].own /\ ~sets[i].dying
  BY DEF Held, Named, Range
<1>2. i \in DOMAIN sets' /\ sets'[i].name = name /\ ~sets'[i].own /\ ~sets'[i].dying
  <2>1. CASE Kept
    BY <1>1, <2>1 DEF Kept, Alike
  <2>2. CASE Creation
    BY <1>1, <2>2 DEF Creation
  <2>. QED BY <2>1, <2>2
<1>. QED
  BY <1>2 DEF Held, Named, Range

LEMMA MadeStays ==
  ASSUME IsList(sets), Kept \/ Creation, NEW list, NamesMade(list)
  PROVE  \A i \in DOMAIN list : IF list[i].own THEN OwnName(list[i]) ELSE Held(sets', list[i].name)
BY HeldStays DEF NamesMade

LEMMA NamesKept ==
  ASSUME IsList(sets), Kept, NamesUnique, NamesMade(sets)
  PROVE  NamesUnique' /\ NamesMade(sets)'
<1>1. \A i \in DOMAIN sets' :
        /\ i \in DOMAIN sets /\ sets'[i].name = sets[i].name
        /\ sets'[i].template = sets[i].template /\ sets'[i].own = sets[i].own
  BY DEF Kept, Alike
<1>2. NamesUnique'
  BY <1>1 DEF NamesUnique
<1>3. \A i \in DOMAIN sets :
        IF sets[i].own THEN OwnName(sets[i]) ELSE Held(sets', sets[i].name)
  BY MadeStays
<1>4. \A i \in DOMAIN sets' : OwnName(sets[i]) => OwnName(sets'[i])
  BY <1>1 DEF OwnName
<1>5. NamesMade(sets)'
  BY <1>1, <1>3, <1>4 DEF NamesMade
<1>. QED
  BY <1>2, <1>5

LEMMA NamesCreated ==
  ASSUME IsList(sets), rec.de \in DeploymentType, Creation, NamesUnique, NamesMade(sets)
  PROVE  NamesUnique' /\ NamesMade(sets)'
<1>1. PICK now \in Nat :
        /\ now \notin DOMAIN sets /\ DOMAIN sets' = DOMAIN sets \cup {now}
        /\ sets'[now].name = Name /\ sets'[now].template = rec.de.template
        /\ sets'[now].own
        /\ \A i \in DOMAIN sets : sets'[i] = sets[i] /\ sets[i].name # Name
  BY DEF Creation
<1>2. NamesUnique'
  BY <1>1 DEF NamesUnique
<1>3. \A i \in DOMAIN sets :
        IF sets[i].own THEN OwnName(sets[i]) ELSE Held(sets', sets[i].name)
  BY MadeStays
<1>4. OwnName(sets'[now])
  <2>1. rec.de.count \in 0 .. MaxCount /\ Name = Hash[rec.de.template, rec.de.count]
    BY DEF DeploymentType, Name
  <2>. QED BY <1>1, <2>1 DEF OwnName
<1>5. NamesMade(sets)'
  BY <1>1, <1>3, <1>4 DEF NamesMade
<1>. QED
  BY <1>2, <1>5

LEMMA NamesNext == TypeOK /\ NamesInductive /\ [Next]_vars => NamesInductive'
<1>. SUFFICES ASSUME TypeOK, NamesInductive, [Next]_vars PROVE NamesInductive'
  OBVIOUS
<1>1. /\ IsList(sets) /\ rec.de \in DeploymentType
      /\ Quiet \/ Creation \/ Bump \/ Begun \/ SetsSeen \/ DeploymentSeen \/ Restarted \/ TakenOver
  BY EachStep, TypeParts DEF Stored, Control, LocalsTyped
<1>2. Kept \/ Creation
  BY <1>1, SetsChange
<1>3. NamesUnique' /\ NamesMade(sets)'
  BY <1>1, <1>2, NamesKept, NamesCreated DEF NamesInductive
<1>4. NamesMade(setCache)'
  <2>1. CASE setCache' = setCache
    <3>1. \A i \in DOMAIN setCache :
            IF setCache[i].own THEN OwnName(setCache[i]) ELSE Held(sets', setCache[i].name)
      BY <1>1, <1>2, MadeStays DEF NamesInductive
    <3>. QED
      BY <2>1, <3>1 DEF NamesMade
  <2>2. CASE setCache' = sets /\ sets' = sets
    BY <1>3, <2>2 DEF NamesMade
  <2>. QED
    BY <1>1, <2>1, <2>2
       DEF Quiet, Creation, Bump, Begun, SetsSeen, DeploymentSeen, Restarted, TakenOver
<1>. QED
  BY <1>3, <1>4 DEF NamesInductive

LEMMA RevisionStep ==
  ASSUME TypeOK, NamesInductive, [Next]_vars,
         NEW s \in Range(sets), NEW t \in Named(sets', s.name)
  PROVE  Recorded(s, t)
<1>1. IsList(sets) /\ (Kept \/ Creation)
  BY EachStep, SetsChange, TypeParts DEF Stored
<1>2. PICK i \in DOMAIN sets : s = sets[i]
  BY DEF Range
<1>3. PICK j \in DOMAIN sets' : t = sets'[j] /\ t.name = s.name
  BY DEF Named, Range
<1>4. CASE Kept
  <2>1. j \in DOMAIN sets /\ sets[j].name = sets[i].name /\ Recorded(sets[j], sets'[j])
    BY <1>2, <1>3, <1>4 DEF Kept, Alike
  <2>2. j = i
    BY <2>1 DEF NamesInductive, NamesUnique
  <2>. QED
    BY <1>2, <1>3, <2>1, <2>2
<1>5. CASE Creation
  <2>1. j \in DOMAIN sets /\ sets'[j] = sets[j]
    BY <1>2, <1>3, <1>5 DEF Creation
  <2>2. j = i
    BY <1>2, <1>3, <2>1 DEF NamesInductive, NamesUnique
  <2>. QED
    BY <1>2, <1>3, <2>1, <2>2 DEF Recorded
<1>. QED
  BY <1>1, <1>4, <1>5

(* No revision is lost: whoever gives a ReplicaSet another revision, the   *)
(* executor from a list of any age or the Deployment controller, gives it  *)
(* a higher one and records the one before, for any length of history.     *)
THEOREM RevisionsAreRecorded == Spec => RevisionsRecorded
<1>1. TypeOK /\ NamesInductive /\ [Next]_vars =>
        [\A s \in Range(sets) : \A t \in Named(sets', s.name) :
           t.revision # s.revision =>
             t.revision > s.revision /\ t.history = Fitting(Append(s.history, s.revision))]_sets
  BY RevisionStep DEF Recorded
<1>. QED
  BY <1>1, TypeInit, EachStep, NamesInit, NamesNext, PTL DEF Spec, RevisionsRecorded

(***************************************************************************)
(* Collisions                                                              *)
(***************************************************************************)
LEMMA NamesDiffer ==
  ASSUME IsInjective(Hash), NEW t \in Templates, NEW u \in Templates,
         NEW c \in 0 .. MaxCount, NEW k \in 0 .. MaxCount, Hash[t, c] = Hash[u, k]
  PROVE  t = u /\ c = k
<1>1. <<t, c>> \in DOMAIN Hash /\ <<u, k>> \in DOMAIN Hash
  BY HashAssumption
<1>2. <<t, c>> = <<u, k>>
  BY <1>1 DEF IsInjective
<1>. QED
  BY <1>2

(* What looks like a collision in the cache is another owner's set, and    *)
(* that is still there.                                                    *)
LEMMA BumpHeld ==
  ASSUME IsInjective(Hash), TypeOK, NamesInductive, Bump
  PROVE  Held(sets, Hash[de.template, de.count])
<1>. DEFINE h == Hash[de.template, de.count]
<1>1. PICK i \in DOMAIN setCache :
        setCache[i].name = h /\ ~(setCache[i].own /\ setCache[i].template = de.template)
  BY DEF Bump
<1>2. /\ setCache[i].template \in Templates
      /\ de.template \in Templates /\ de.count \in 0 .. MaxCount
  BY TypeParts DEF Stored, IsList, SetType, DeploymentType
<1>3. ~setCache[i].own
  <2>1. SUFFICES ASSUME setCache[i].own PROVE FALSE
    OBVIOUS
  <2>2. PICK c \in 0 .. MaxCount : setCache[i].name = Hash[setCache[i].template, c]
    BY <2>1 DEF NamesInductive, NamesMade, OwnName
  <2>3. setCache[i].template = de.template
    <3>. DEFINE t == setCache[i].template
                u == de.template
                k == de.count
    <3>1. /\ t \in Templates /\ u \in Templates /\ k \in 0 .. MaxCount
          /\ Hash[t, c] = Hash[u, k]
      BY <1>1, <1>2, <2>2
    <3>. HIDE DEF t, u, k
    <3>2. t = u
      BY <3>1, NamesDiffer
    <3>. QED BY <3>2 DEF t, u
  <2>. QED
    BY <1>1, <2>1, <2>3
<1>4. Held(sets, setCache[i].name)
  BY <1>3 DEF NamesInductive, NamesMade
<1>. QED
  BY <1>1, <1>4

(* If names do not collide by themselves, the collision count only goes on *)
(* where another owner's ReplicaSet has the name, however old the cache    *)
(* that getNewReplicaSet looks it up in.                                   *)
THEOREM CollisionsAreReal ==
  ASSUME IsInjective(Hash)
  PROVE  Spec => CollisionIsReal
<1>1. TypeOK /\ NamesInductive /\ [Next]_vars =>
        [de'.count # de.count =>
           \E s \in Named(sets, Hash[de.template, de.count]) :
             ~(s.own /\ s.template = de.template)]_de
  <2>. SUFFICES ASSUME TypeOK, NamesInductive, [Next]_vars, de'.count # de.count
                PROVE  \E s \in Named(sets, Hash[de.template, de.count]) :
                         ~(s.own /\ s.template = de.template)
    OBVIOUS
  <2>0. Quiet \/ Creation \/ Bump \/ Begun \/ SetsSeen \/ DeploymentSeen \/ Restarted \/ TakenOver
    BY EachStep
  <2>1. Bump
    <3>1. CASE Quiet
      BY <3>1 DEF Quiet, SameRelease
    <3>2. CASE Creation \/ Begun \/ SetsSeen \/ DeploymentSeen \/ Restarted \/ TakenOver
      BY <3>2 DEF Creation, Begun, SetsSeen, DeploymentSeen, Restarted, TakenOver
    <3>. QED BY <2>0, <3>1, <3>2
  <2>. QED
    BY <2>1, BumpHeld DEF Held
<1>. QED
  BY <1>1, TypeInit, EachStep, NamesInit, NamesNext, PTL DEF Spec, CollisionIsReal

(***************************************************************************)
(* Copies of the Deployment                                                *)
(***************************************************************************)
(* Whatever equals the Deployment has passed no name.                      *)
LEMMA EqualCopy ==
  ASSUME NEW d \in DeploymentType, NEW e \in DeploymentType, SameRelease(d, e)
  PROVE  Before(d, e) /\ (\A k \in d.count .. e.count - 1 : FALSE)
BY DEF DeploymentType, SameRelease, Before

LEMMA CopiesInit == Init => CopiesInductive
<1>. SUFFICES ASSUME Init PROVE CopiesInductive
  OBVIOUS
<1>1. pc = "idle" /\ deCache = de /\ de \in DeploymentType
  BY TypeInit, TypeParts DEF Init, Stored
<1>2. Before(de, de) /\ \A k \in de.count .. de.count - 1 : FALSE
  BY <1>1, EqualCopy, SameIsSame
<1>3. Passed(de)
  BY <1>2 DEF Passed
<1>. QED
  BY <1>1, <1>2, <1>3 DEF CopiesInductive

LEMMA BeforeIsTransitive ==
  ASSUME NEW a \in DeploymentType, NEW b \in DeploymentType, NEW c \in DeploymentType,
         Before(a, b), Before(b, c)
  PROVE  Before(a, c)
BY DEF Before, DeploymentType

(* A copy that has passed names does so when the count stays or the sets   *)
(* change.                                                                 *)
LEMMA PassedStays ==
  ASSUME IsList(sets), Kept \/ Creation, de'.count = de.count, NEW d \in DeploymentType,
         NEW e \in DeploymentType, SameRelease(e, d), Passed(d)
  PROVE  \A k \in e.count .. de'.count - 1 : Held(sets', Hash[e.template, k])
<1>1. e.count = d.count /\ e.template = d.template
  BY DEF SameRelease
<1>2. \A k \in d.count .. de.count - 1 : Held(sets, Hash[d.template, k])
  BY DEF Passed
<1>3. \A k \in d.count .. de.count - 1 : Held(sets', Hash[d.template, k])
  <2>. TAKE k \in d.count .. de.count - 1
  <2>. DEFINE h == Hash[d.template, k]
  <2>1. Held(sets, h)
    BY <1>2
  <2>. HIDE DEF h
  <2>2. Held(sets', h)
    BY <2>1, HeldStays
  <2>. QED BY <2>2 DEF h
<1>. QED
  BY <1>1, <1>3

LEMMA BeforeStays ==
  ASSUME NEW d \in DeploymentType, NEW e \in DeploymentType, NEW f \in DeploymentType,
         NEW g \in DeploymentType, SameRelease(f, d), SameRelease(g, e), Before(d, e)
  PROVE  Before(f, g)
BY DEF Before, SameRelease

LEMMA CopiesBump ==
  ASSUME IsInjective(Hash), TypeOK, TypeOK', NamesInductive, CopiesInductive, Bump
  PROVE  CopiesInductive'
<1>. DEFINE h == Hash[de.template, de.count]
<1>1. Held(sets, h)
  BY BumpHeld
<1>. HIDE DEF h
<1>2. /\ de \in DeploymentType /\ deCache \in DeploymentType /\ de' \in DeploymentType
  BY TypeParts, TypePartsNext DEF Stored
<1>3. /\ sets' = sets /\ deCache' = deCache /\ pc' = "idle"
      /\ de'.template = de.template /\ de'.gen = de.gen /\ de'.count = de.count + 1
      /\ Before(de, deCache) /\ Before(deCache, de)
  BY DEF Bump, CopiesInductive
<1>4. deCache.gen = de.gen /\ deCache.count = de.count /\ deCache.template = de.template
  BY <1>2, <1>3 DEF Before, DeploymentType
<1>5. Before(deCache', de')
  BY <1>2, <1>3, <1>4 DEF Before, DeploymentType
<1>6. \A k \in deCache'.count .. de'.count - 1 : k = de.count
  BY <1>2, <1>3, <1>4 DEF DeploymentType
<1>7. \A k \in deCache'.count .. de'.count - 1 : Held(sets', Hash[deCache'.template, k])
  <2>. TAKE k \in deCache'.count .. de'.count - 1
  <2>1. Hash[deCache'.template, k] = h
    BY <1>3, <1>4, <1>6 DEF h
  <2>. QED BY <1>1, <1>3, <2>1
<1>. QED
  BY <1>3, <1>5, <1>7 DEF CopiesInductive, Passed

LEMMA CopiesNext ==
  ASSUME IsInjective(Hash), TypeOK, NamesInductive, CopiesInductive, [Next]_vars
  PROVE  CopiesInductive'
<1>0. /\ TypeOK'
      /\ Quiet \/ Creation \/ Bump \/ Begun \/ SetsSeen \/ DeploymentSeen \/ Restarted \/ TakenOver
  BY EachStep
<1>1. /\ de \in DeploymentType /\ deCache \in DeploymentType /\ rec.de \in DeploymentType
      /\ de' \in DeploymentType /\ deCache' \in DeploymentType /\ rec'.de \in DeploymentType
      /\ IsList(sets)
  BY <1>0, TypeParts, TypePartsNext DEF Stored, Control, LocalsTyped
<1>2. Kept \/ Creation
  BY <1>0, <1>1, SetsChange
<1>3. /\ Before(deCache, de) /\ Passed(deCache)
      /\ pc # "idle" => Before(rec.de, deCache) /\ Passed(rec.de)
  BY DEF CopiesInductive
<1>4. CASE Bump
  BY <1>0, <1>4, CopiesBump
<1>5. ASSUME SameRelease(de', de), deCache' = deCache
      PROVE  Before(deCache', de') /\ Passed(deCache)'
  <2>1. Before(deCache', de')
    BY <1>1, <1>3, <1>5, SameIsSame, BeforeStays
  <2>2. de'.count = de.count /\ SameRelease(deCache', deCache)
    BY <1>5, SameIsSame DEF SameRelease
  <2>3. \A k \in deCache'.count .. de'.count - 1 : Held(sets', Hash[deCache'.template, k])
    BY <1>1, <1>2, <1>3, <2>2, PassedStays
  <2>. QED BY <2>1, <2>3 DEF Passed
<1>6. ASSUME SameRelease(de', de), LocalsGoOn, pc' # "idle",
             deCache' \in {deCache, de}
      PROVE  Before(rec'.de, deCache') /\ Passed(rec.de)'
  <2>1. SameRelease(rec'.de, rec.de) /\ Before(rec.de, deCache) /\ Passed(rec.de)
    BY <1>3, <1>6 DEF LocalsGoOn
  <2>2. Before(rec.de, deCache')
    BY <1>1, <1>3, <1>6, <2>1, BeforeIsTransitive
  <2>3. Before(rec'.de, deCache')
    BY <1>1, <2>1, <2>2, SameIsSame, BeforeStays
  <2>4. de'.count = de.count
    BY <1>6 DEF SameRelease
  <2>5. \A k \in rec'.de.count .. de'.count - 1 : Held(sets', Hash[rec'.de.template, k])
    BY <1>1, <1>2, <2>1, <2>4, PassedStays
  <2>. QED BY <2>3, <2>5 DEF Passed
<1>7. CASE Quiet \/ SetsSeen \/ Creation
  <2>1. SameRelease(de', de) /\ deCache' = deCache /\ LocalsGoOn
    BY <1>7, SameIsSame DEF Quiet, SetsSeen, Creation, LocalsGoOn
  <2>. QED
    BY <1>5, <1>6, <2>1 DEF CopiesInductive
<1>8. ASSUME deCache' = de, SameRelease(de', de)
      PROVE  Before(deCache', de') /\ Passed(deCache)'
  <2>1. SameRelease(deCache', de')
    BY <1>8 DEF SameRelease
  <2>2. Before(deCache', de') /\ \A k \in deCache'.count .. de'.count - 1 : FALSE
    BY <1>1, <2>1, EqualCopy
  <2>. QED BY <2>2 DEF Passed
<1>9. CASE DeploymentSeen
  <2>1. SameRelease(de', de) /\ deCache' = de /\ LocalsGoOn
    BY <1>9, SameIsSame DEF DeploymentSeen
  <2>. QED
    BY <1>6, <1>8, <2>1 DEF CopiesInductive
<1>10. CASE Restarted
  <2>1. SameRelease(de', de) /\ deCache' = de /\ pc' = "idle"
    BY <1>10, SameIsSame DEF Restarted
  <2>. QED
    BY <1>8, <2>1 DEF CopiesInductive
<1>11. CASE Begun
  <2>1. SameRelease(de', de) /\ deCache' = deCache /\ rec'.de = deCache'
    BY <1>11, SameIsSame DEF Begun
  <2>2. Before(deCache', de') /\ Passed(deCache)'
    BY <1>5, <2>1
  <2>3. Before(rec'.de, deCache')
    BY <1>1, <2>1, EqualCopy, SameIsSame
  <2>4. Passed(rec.de)'
    BY <2>1, <2>2 DEF Passed
  <2>. QED
    BY <2>2, <2>3, <2>4 DEF CopiesInductive
<1>12. CASE TakenOver
  <2>1. /\ de'.gen = de.gen + 1 /\ de'.count = de.count /\ deCache' = deCache /\ pc' = "idle"
    BY <1>12 DEF TakenOver
  <2>2. Before(deCache', de')
    BY <1>1, <1>3, <2>1 DEF Before, DeploymentType
  <2>3. SameRelease(deCache', deCache)
    BY <2>1, SameIsSame
  <2>4. \A k \in deCache'.count .. de'.count - 1 : Held(sets', Hash[deCache'.template, k])
    BY <1>1, <1>2, <1>3, <2>1, <2>3, PassedStays
  <2>. QED
    BY <2>1, <2>2, <2>4 DEF CopiesInductive, Passed
<1>. QED
  BY <1>0, <1>4, <1>7, <1>9, <1>10, <1>11, <1>12

(***************************************************************************)
(* One set for each template                                               *)
(***************************************************************************)
Live(list, i) == i \in DOMAIN list /\ list[i].own /\ ~list[i].dying

LEMMA LiveIsListed ==
  ASSUME NEW list, IsList(list)
  PROVE  /\ \A i : i \in DOMAIN Listed(list) <=> Live(list, i)
         /\ \A i : Live(list, i) => Listed(list)[i] = list[i]
BY ListedType DEF Live

(* A new set is made by a copy of the count there is: the names before it  *)
(* are taken.                                                              *)
LEMMA CreationIsCurrent ==
  ASSUME TypeOK, CopiesInductive, Creation
  PROVE  rec.de.count = de.count /\ deCache.count = de.count
<1>1. /\ rec.de.count \in Nat /\ deCache.count \in Nat /\ de.count \in Nat
  BY TypeParts, BoundAssumption DEF Stored, Control, LocalsTyped, DeploymentType
<1>2. /\ rec.de.count <= deCache.count /\ deCache.count <= de.count
      /\ \A k \in rec.de.count .. de.count - 1 : Held(sets, Hash[rec.de.template, k])
  BY DEF CopiesInductive, Creation, Before, Passed
<1>3. ~Held(sets, Name)
  BY DEF Creation, Held, Named, Range
<1>4. rec.de.count \notin rec.de.count .. de.count - 1
  BY <1>2, <1>3 DEF Name
<1>5. /\ rec.de.count <= deCache.count /\ deCache.count <= de.count
  BY <1>2
<1>. QED
  BY <1>1, <1>4, <1>5

(* A set that was there and is live was live, and was the same.            *)
LEMMA LiveBefore ==
  ASSUME Kept \/ Creation, NEW i, Live(sets', i), i \in DOMAIN sets
  PROVE  /\ Live(sets, i)
         /\ sets'[i].name = sets[i].name /\ sets'[i].template = sets[i].template
<1>1. CASE Kept
  BY <1>1 DEF Live, Kept, Alike
<1>2. CASE Creation
  BY <1>2 DEF Live, Creation
<1>. QED
  BY <1>1, <1>2

Sighted(i) ==
  /\ Unseen(Listed(setCache), sets[i]) => InTheWay(de, sets[i]) /\ InTheWay(deCache, sets[i])
  /\ pc # "idle" /\ Unseen(rec.list, sets[i]) => InTheWay(rec.de, sets[i])

LEMMA UnseenIs ==
  ASSUME IsList(sets)
  PROVE  UnseenInductive <=> \A i : Live(sets, i) => Sighted(i)
BY LiveIsListed DEF UnseenInductive, Sighted

LEMMA UnseenIsNext ==
  ASSUME IsList(sets')
  PROVE  UnseenInductive' <=> \A i : Live(sets', i) => Sighted(i)'
BY LiveIsListed DEF UnseenInductive, Sighted

LEMMA UnseenInit == Init => UnseenInductive
<1>. SUFFICES ASSUME Init PROVE UnseenInductive
  OBVIOUS
<1>1. IsList(sets) /\ setCache = sets /\ pc = "idle"
  BY TypeInit DEF Init, TypeOK
<1>2. \A i : Live(sets, i) => ~Unseen(Listed(sets), sets[i])
  BY <1>1, LiveIsListed DEF Unseen
<1>. QED
  BY <1>1, <1>2, UnseenIs DEF Sighted

(* The sets of a list are seen in it.                                      *)
LEMMA Seen ==
  ASSUME IsList(sets), NEW i, Live(sets, i)
  PROVE  ~Unseen(Listed(sets), sets[i])
BY LiveIsListed DEF Unseen

LEMMA WayStays ==
  ASSUME NEW s, NEW t, t.name = s.name, t.template = s.template
  PROVE  /\ \A list : Unseen(list, t) <=> Unseen(list, s)
         /\ \A d, e : SameRelease(e, d) /\ InTheWay(d, s) => InTheWay(e, t)
BY DEF Unseen, InTheWay, SameRelease

LEMMA SightedBump ==
  ASSUME IsInjective(Hash), TypeOK, NamesInductive, NEW i, Live(sets, i), Sighted(i), Bump
  PROVE  Sighted(i)'
<1>. DEFINE h == Hash[de.template, de.count]
<1>1. /\ sets' = sets /\ setCache' = setCache /\ deCache' = deCache /\ pc' = "idle"
      /\ de'.template = de.template
  BY DEF Bump
<1>2. Held(sets, h)
  BY BumpHeld
<1>3. sets[i].name # h
  <2>1. PICK j \in DOMAIN sets : sets[j].name = h /\ ~sets[j].own
    BY <1>2 DEF Held, Named, Range
  <2>. HIDE DEF h
  <2>. QED
    BY <2>1 DEF NamesInductive, NamesUnique, Live
<1>4. InTheWay(de, sets[i]) => InTheWay(de', sets[i])
  BY <1>1, <1>3 DEF InTheWay
<1>. QED
  BY <1>1, <1>4 DEF Sighted

LEMMA SightedOld ==
  ASSUME PromptCache, IsInjective(Hash), TypeOK, NamesInductive, CopiesInductive,
         NEW i, Live(sets, i), Sighted(i), i \in DOMAIN sets',
         sets'[i].name = sets[i].name, sets'[i].template = sets[i].template,
         Quiet \/ Creation \/ Bump \/ Begun \/ SetsSeen \/ DeploymentSeen \/ Restarted \/ TakenOver
  PROVE  Sighted(i)'
<1>. DEFINE s == sets[i]
            t == sets'[i]
<1>0. IsList(sets)
  BY TypeParts DEF Stored
<1>1. ~Unseen(Listed(sets), s)
  BY <1>0, Seen
<1>2. /\ \A list : Unseen(list, t) <=> Unseen(list, s)
      /\ \A d, e : SameRelease(e, d) /\ InTheWay(d, s) => InTheWay(e, t)
  BY WayStays
<1>3. CASE Bump
  BY <1>3, SightedBump
<1>4. /\ Unseen(Listed(setCache), s) => InTheWay(de, s) /\ InTheWay(deCache, s)
      /\ pc # "idle" /\ Unseen(rec.list, s) => InTheWay(rec.de, s)
  BY DEF Sighted
<1>5. SUFFICES ASSUME ~Bump
      PROVE  /\ Unseen(Listed(setCache'), t) => InTheWay(de', t) /\ InTheWay(deCache', t)
             /\ pc' # "idle" /\ Unseen(rec'.list, t) => InTheWay(rec'.de, t)
  BY <1>3 DEF Sighted
<1>. HIDE DEF s, t
<1>6. CASE Quiet \/ SetsSeen \/ DeploymentSeen \/ Creation
  <2>1. /\ SameRelease(de', de) /\ setCache' \in {setCache, sets} /\ deCache' \in {deCache, de}
        /\ LocalsGoOn
    BY <1>6, SameIsSame DEF Quiet, SetsSeen, DeploymentSeen, Creation, LocalsGoOn
  <2>2. Unseen(Listed(setCache'), t) => InTheWay(de, s) /\ InTheWay(deCache, s)
    BY <1>1, <1>2, <1>4, <2>1
  <2>3. Unseen(Listed(setCache'), t) => InTheWay(de', t) /\ InTheWay(deCache', t)
    BY <1>2, <2>1, <2>2, SameIsSame
  <2>4. pc' # "idle" /\ Unseen(rec'.list, t) => InTheWay(rec'.de, t)
    BY <1>2, <1>4, <2>1 DEF LocalsGoOn
  <2>. QED
    BY <2>3, <2>4
<1>7. CASE Begun
  BY <1>2, <1>4, <1>7, SameIsSame DEF Begun
<1>8. CASE Restarted \/ TakenOver
  <2>1. setCache' = sets /\ pc' = "idle"
    BY <1>8 DEF Restarted, TakenOver
  <2>. QED
    BY <1>1, <1>2, <2>1
<1>. QED
  BY <1>5, <1>6, <1>7, <1>8

LEMMA SightedNew ==
  ASSUME TypeOK, CopiesInductive, Creation, NEW i, i \notin DOMAIN sets, i \in DOMAIN sets'
  PROVE  Sighted(i)'
<1>1. sets'[i].name = Hash[rec.de.template, rec.de.count] /\ UNCHANGED <<de, deCache, rec>>
  BY DEF Creation, Name
<1>2. rec.de.count = de.count /\ deCache.count = de.count
  BY CreationIsCurrent
<1>3. sets'[i].template = rec.de.template
  BY DEF Creation
<1>. QED
  BY <1>1, <1>2, <1>3 DEF Sighted, InTheWay

LEMMA UnseenNext ==
  ASSUME PromptCache, IsInjective(Hash), TypeOK, NamesInductive, CopiesInductive,
         UnseenInductive, [Next]_vars
  PROVE  UnseenInductive'
<1>0. /\ TypeOK'
      /\ Quiet \/ Creation \/ Bump \/ Begun \/ SetsSeen \/ DeploymentSeen \/ Restarted \/ TakenOver
  BY EachStep
<1>1. IsList(sets) /\ IsList(sets')
  BY <1>0, TypeParts, TypePartsNext DEF Stored
<1>2. Kept \/ Creation
  BY <1>0, <1>1, SetsChange
<1>3. SUFFICES ASSUME NEW i, Live(sets', i) PROVE Sighted(i)'
  BY <1>1, UnseenIsNext
<1>4. CASE i \in DOMAIN sets
  <2>1. Live(sets, i) /\ sets'[i].name = sets[i].name /\ sets'[i].template = sets[i].template
    BY <1>2, <1>3, <1>4, LiveBefore
  <2>2. Sighted(i) /\ i \in DOMAIN sets'
    BY <1>1, <1>3, <2>1, UnseenIs DEF Live
  <2>. QED
    BY <1>0, <2>1, <2>2, SightedOld
<1>5. CASE i \notin DOMAIN sets
  <2>1. i \in DOMAIN sets' /\ Creation
    BY <1>2, <1>3, <1>5 DEF Live, Kept
  <2>. QED
    BY <1>5, <2>1, SightedNew
<1>. QED
  BY <1>4, <1>5

OneLive(list) == \A i, j : Live(list, i) /\ Live(list, j) /\ list[i].template = list[j].template => i = j

LEMMA OneIs ==
  ASSUME IsList(sets)
  PROVE  OneSetPerTemplate <=> OneLive(sets)
BY LiveIsListed DEF OneSetPerTemplate, OneLive

LEMMA OneIsNext ==
  ASSUME IsList(sets')
  PROVE  OneSetPerTemplate' <=> OneLive(sets')
BY LiveIsListed DEF OneSetPerTemplate, OneLive

LEMMA OneInit == Init => OneSetPerTemplate
<1>. SUFFICES ASSUME Init PROVE OneSetPerTemplate
  OBVIOUS
<1>1. IsList(sets) /\ \A i : Live(sets, i) => i = 0
  BY FirstSets DEF Live
<1>. QED
  BY <1>1, OneIs DEF OneLive

(* A live set of the template would be in the list, or in the way.         *)
LEMMA CreationIsFirst ==
  ASSUME TypeOK, UnseenInductive, Creation, NEW i, Live(sets, i)
  PROVE  sets[i].template # rec.de.template
<1>1. SUFFICES ASSUME sets[i].template = rec.de.template PROVE FALSE
  OBVIOUS
<1>2. IsList(sets) /\ IsList(rec.list)
  BY TypeParts DEF Stored, Control, LocalsTyped
<1>3. Unseen(rec.list, sets[i])
  BY <1>1, <1>2, NoneFound DEF Creation, Found, Unseen
<1>4. sets[i].name = Name
  BY <1>1, <1>2, <1>3, UnseenIs DEF Sighted, InTheWay, Creation, Name
<1>. QED
  BY <1>4 DEF Creation, Live

LEMMA OneNext ==
  ASSUME TypeOK, UnseenInductive, OneSetPerTemplate, [Next]_vars
  PROVE  OneSetPerTemplate'
<1>0. /\ TypeOK'
      /\ Quiet \/ Creation \/ Bump \/ Begun \/ SetsSeen \/ DeploymentSeen \/ Restarted \/ TakenOver
  BY EachStep
<1>1. IsList(sets) /\ IsList(sets')
  BY <1>0, TypeParts, TypePartsNext DEF Stored
<1>2. Kept \/ Creation
  BY <1>0, <1>1, SetsChange
<1>3. \A i, j : Live(sets, i) /\ Live(sets, j) /\ sets[i].template = sets[j].template => i = j
  BY <1>1, OneIs DEF OneLive
<1>4. \A i : Live(sets', i) /\ i \in DOMAIN sets =>
               Live(sets, i) /\ sets'[i].template = sets[i].template
  BY <1>2, LiveBefore
<1>5. CASE Kept
  <2>1. \A i : Live(sets', i) => i \in DOMAIN sets
    BY <1>5 DEF Live, Kept
  <2>. QED
    BY <1>1, <1>3, <1>4, <2>1, OneIsNext DEF OneLive
<1>6. CASE Creation
  <2>1. PICK now : DOMAIN sets' = DOMAIN sets \cup {now} /\ sets'[now].template = rec.de.template
    BY <1>6 DEF Creation
  <2>2. \A i : Live(sets', i) => i = now \/ i \in DOMAIN sets
    BY <2>1 DEF Live
  <2>3. \A i : Live(sets', i) /\ i \in DOMAIN sets => sets'[i].template # rec.de.template
    BY <1>4, <1>6, CreationIsFirst
  <2>4. OneLive(sets')
    BY <1>3, <1>4, <2>1, <2>2, <2>3 DEF OneLive
  <2>. QED
    BY <1>1, <2>4, OneIsNext
<1>. QED
  BY <1>2, <1>5, <1>6

(* Creating is idempotent.  If names do not collide by themselves and the  *)
(* informer knows the ReplicaSets of the releases before when one begins,  *)
(* the Deployment never has two ReplicaSets of one template, whatever      *)
(* getNewReplicaSet reads from its caches, however often it is tried again *)
(* and whoever else numbers, deletes and owns ReplicaSets.                 *)
THEOREM CreatedOnce ==
  ASSUME PromptCache, IsInjective(Hash)
  PROVE  Spec => []OneSetPerTemplate
<1>1. TypeOK /\ [Next]_vars => TypeOK'
  BY EachStep
<1>2. TypeOK /\ NamesInductive /\ CopiesInductive /\ [Next]_vars => CopiesInductive'
  BY CopiesNext
<1>3. TypeOK /\ NamesInductive /\ CopiesInductive /\ UnseenInductive /\ [Next]_vars => UnseenInductive'
  BY UnseenNext
<1>4. TypeOK /\ UnseenInductive /\ OneSetPerTemplate /\ [Next]_vars => OneSetPerTemplate'
  BY OneNext
<1>. QED
  BY <1>1, <1>2, <1>3, <1>4, TypeInit, NamesInit, NamesNext, CopiesInit, UnseenInit, OneInit,
     PTL DEF Spec
=============================================================================
