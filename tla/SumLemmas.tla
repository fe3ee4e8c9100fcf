----------------------------- MODULE SumLemmas -----------------------------
(***************************************************************************)
(* What SumFunctionOnSet of the community modules computes, and that       *)
(* finite sets can be listed in order.                                     *)
(***************************************************************************)
EXTENDS Functions, FiniteSets, FiniteSetTheorems, TLAPS

(* The recursive equation of the sum over the subsets of S.                *)
Picked(s) == CHOOSE x \in s : TRUE
SumOver(f, g, D) ==
  g = [s \in D |-> IF s = {} THEN 0 ELSE f[Picked(s)] + g[s \ {Picked(s)}]]
SumTable(f, S) == CHOOSE g : SumOver(f, g, SUBSET S)

LEMMA SumIsTable ==
  ASSUME NEW f, NEW S
  PROVE  SumFunctionOnSet(f, S) = SumTable(f, S)[S]
BY DEF SumFunctionOnSet, FoldFunctionOnSet, MapThenFoldSet, SumTable, SumOver, Picked

LEMMA Least ==
  ASSUME NEW T \in SUBSET Nat, T # {}
  PROVE  \E n \in T : \A m \in T : n <= m
<1>. DEFINE Less == {ss \in Nat \X Nat : ss[1] < ss[2]}
<1>1. OpToRel(<, Nat) = Less
  BY Zenon DEF OpToRel
<1>2. IsWellFoundedOn(Less, Nat)
  BY <1>1, NatLessThanWellFounded, Zenon
<1>. HIDE DEF Less
<1>3. PICK n \in T : \A m \in T : <<m, n>> \notin Less
  BY <1>2, WFMin
<1>4. \A m \in T : n <= m
  <2>. TAKE m \in T
  <2>1. <<m, n>> \in Nat \X Nat
    OBVIOUS
  <2>2. <<m, n>> \notin Less
    BY <1>3
  <2>3. ~ (<<m, n>>[1] < <<m, n>>[2])
    BY <2>1, <2>2, Zenon DEF Less
  <2>4. m \in Nat /\ n \in Nat
    OBVIOUS
  <2>. QED
    BY <2>3, <2>4
<1>. QED
  BY <1>4

(* The table exists, for all finite sets S: it can be filled in by size.   *)
LEMMA TableExists ==
  ASSUME NEW f, NEW S, IsFiniteSet(S)
  PROVE  SumOver(f, SumTable(f, S), SUBSET S)
<1>. DEFINE Level(n) == {s \in SUBSET S : Cardinality(s) <= n}
            Filled(n) == \E g : SumOver(f, g, Level(n))
            Missing == {n \in Nat : ~Filled(n)}
<1>0. \A s \in SUBSET S : IsFiniteSet(s) /\ Cardinality(s) \in Nat
  BY FS_Subset, FS_CardinalityType
<1>1. \A s \in SUBSET S : s # {} =>
         /\ Picked(s) \in s
         /\ s \ {Picked(s)} \in SUBSET S
         /\ Cardinality(s \ {Picked(s)}) = Cardinality(s) - 1
  BY <1>0, FS_RemoveElement DEF Picked
<1>2. Filled(0)
  <2>1. Level(0) = {{}}
    BY <1>0, FS_EmptySet
  <2>2. SumOver(f, [s \in {{}} |-> 0], {{}})
    BY DEF SumOver
  <2>. QED
    BY <2>1, <2>2
<1>3. ASSUME NEW n \in Nat, Filled(n) PROVE Filled(n + 1)
  <2>1. PICK g : SumOver(f, g, Level(n))
    BY <1>3
  <2>. DEFINE h == [s \in Level(n + 1) |->
                      IF s = {} THEN 0 ELSE f[Picked(s)] + g[s \ {Picked(s)}]]
  <2>2. \A s \in Level(n) : g[s] = IF s = {} THEN 0 ELSE f[Picked(s)] + g[s \ {Picked(s)}]
    <3>. HIDE DEF Level
    <3>. QED BY <2>1 DEF SumOver
  <2>3. \A s \in Level(n) : s \in Level(n + 1)
    BY <1>0
  <2>4. \A s \in Level(n) : h[s] = g[s]
    <3>. HIDE DEF Level
    <3>. QED BY <2>2, <2>3
  <2>5. \A s \in Level(n + 1) : s # {} => s \ {Picked(s)} \in Level(n)
    BY <1>0, <1>1
  <2>6. SumOver(f, h, Level(n + 1))
    <3>. HIDE DEF Level
    <3>1. \A s \in Level(n + 1) : s # {} => h[s \ {Picked(s)}] = g[s \ {Picked(s)}]
      BY <2>4, <2>5
    <3>2. h = [s \in Level(n + 1) |->
                IF s = {} THEN 0 ELSE f[Picked(s)] + h[s \ {Picked(s)}]]
      BY <3>1
    <3>. HIDE DEF h
    <3>. QED BY <3>2 DEF SumOver
  <2>. QED
    BY <2>6
<1>4. \A n \in Nat : Filled(n)
  <2>. HIDE DEF Filled
  <2>1. SUFFICES ASSUME Missing # {} PROVE FALSE
    OBVIOUS
  <2>2. PICK n \in Missing : \A m \in Missing : n <= m
    BY <2>1, Least
  <2>3. n # 0
    BY <1>2
  <2>4. n - 1 \in Nat /\ n - 1 \notin Missing
    BY <2>2, <2>3
  <2>5. Filled((n - 1) + 1)
    BY <1>3, <2>4
  <2>. QED
    BY <2>2, <2>5
<1>5. Level(Cardinality(S)) = SUBSET S
  BY <1>0, FS_Subset
<1>6. \E g : SumOver(f, g, SUBSET S)
  BY <1>0, <1>4, <1>5
<1>. QED
  BY <1>6 DEF SumTable

LEMMA TableRow ==
  ASSUME NEW f, NEW S, IsFiniteSet(S), NEW s \in SUBSET S
  PROVE  SumTable(f, S)[s] =
           IF s = {} THEN 0 ELSE f[Picked(s)] + SumTable(f, S)[s \ {Picked(s)}]
<1>. DEFINE a == SumTable(f, S)
<1>1. SumOver(f, a, SUBSET S)
  BY TableExists
<1>. HIDE DEF a
<1>2. a[s] = IF s = {} THEN 0 ELSE f[Picked(s)] + a[s \ {Picked(s)}]
  BY <1>1 DEF SumOver
<1>. QED
  BY <1>2 DEF a

(* It is the same, whatever larger set it is made for.                     *)
LEMMA TablesAgree ==
  ASSUME NEW f, NEW S, IsFiniteSet(S), NEW T \in SUBSET S
  PROVE  SumTable(f, T)[T] = SumTable(f, S)[T]
<1>. DEFINE a == SumTable(f, S)
            b == SumTable(f, T)
            Sizes == {n \in Nat : \E s \in SUBSET T : Cardinality(s) = n /\ a[s] # b[s]}
<1>0. IsFiniteSet(T) /\ \A s \in SUBSET T : IsFiniteSet(s) /\ Cardinality(s) \in Nat
  BY FS_Subset, FS_CardinalityType
<1>2. \A s \in SUBSET T :
        /\ a[s] = IF s = {} THEN 0 ELSE f[Picked(s)] + a[s \ {Picked(s)}]
        /\ b[s] = IF s = {} THEN 0 ELSE f[Picked(s)] + b[s \ {Picked(s)}]
  <2>. TAKE s \in SUBSET T
  <2>1. s \in SUBSET S
    OBVIOUS
  <2>2. a[s] = IF s = {} THEN 0 ELSE f[Picked(s)] + a[s \ {Picked(s)}]
    BY <2>1, TableRow
  <2>3. b[s] = IF s = {} THEN 0 ELSE f[Picked(s)] + b[s \ {Picked(s)}]
    BY <1>0, TableRow
  <2>. HIDE DEF a, b
  <2>. QED
    BY <2>2, <2>3
<1>. HIDE DEF a, b
<1>3. Sizes = {}
  <2>1. SUFFICES ASSUME Sizes # {} PROVE FALSE
    OBVIOUS
  <2>2. PICK n \in Sizes : \A m \in Sizes : n <= m
    BY <2>1, Least
  <2>3. PICK s \in SUBSET T : Cardinality(s) = n /\ a[s] # b[s]
    BY <2>2
  <2>4. s # {}
    BY <1>2, <2>3
  <2>. DEFINE r == s \ {Picked(s)}
  <2>5. r \in SUBSET T /\ Cardinality(r) = n - 1 /\ n - 1 \in Nat
    <3>1. Picked(s) \in s /\ r \in SUBSET T
      BY <2>4 DEF Picked
    <3>2. Cardinality(r) = Cardinality(s) - 1
      BY <1>0, <3>1, FS_RemoveElement
    <3>3. Cardinality(r) \in Nat
      BY <1>0, <3>1
    <3>. QED
      BY <2>3, <3>1, <3>2, <3>3
  <2>6. n - 1 \notin Sizes
    BY <2>2, <2>5
  <2>7. a[r] = b[r]
    <3>. HIDE DEF r
    <3>. QED BY <2>5, <2>6
  <2>. QED
    BY <1>2, <2>3, <2>4, <2>7
<1>4. a[T] = b[T]
  BY <1>0, <1>3
<1>. QED
  BY <1>4 DEF a, b

(* The sum over a finite set is that of one of its elements and the rest;  *)
(* the community modules say which one.                                    *)
LEMMA SumPicked ==
  ASSUME NEW f, NEW S, IsFiniteSet(S)
  PROVE  /\ S = {} => SumFunctionOnSet(f, S) = 0
         /\ S # {} => /\ Picked(S) \in S
                      /\ SumFunctionOnSet(f, S) =
                           f[Picked(S)] + SumFunctionOnSet(f, S \ {Picked(S)})
<1>. DEFINE a == SumTable(f, S)
<1>2. SumFunctionOnSet(f, S) = a[S]
  BY SumIsTable
<1>3. \A T \in SUBSET S : SumFunctionOnSet(f, T) = a[T]
  BY SumIsTable, TablesAgree
<1>4. a[S] = IF S = {} THEN 0 ELSE f[Picked(S)] + a[S \ {Picked(S)}]
  BY TableRow
<1>. HIDE DEF a
<1>5. S # {} => Picked(S) \in S /\ S \ {Picked(S)} \in SUBSET S
  BY DEF Picked
<1>. QED
  BY <1>2, <1>3, <1>4, <1>5

(* A sum of natural numbers, or of integers, is one.                       *)
LEMMA SumType ==
  ASSUME NEW f, NEW D \in {Nat, Int}, NEW S, IsFiniteSet(S), \A x \in S : f[x] \in D
  PROVE  SumFunctionOnSet(f, S) \in D
<1>. DEFINE sum(T) == SumFunctionOnSet(f, T)
            Sizes == {n \in Nat : \E s \in SUBSET S : Cardinality(s) = n /\ sum(s) \notin D}
<1>0. \A s \in SUBSET S : IsFiniteSet(s) /\ Cardinality(s) \in Nat
  BY FS_Subset, FS_CardinalityType
<1>1. \A s \in SUBSET S :
        /\ s = {} => sum(s) = 0
        /\ s # {} => Picked(s) \in s /\ sum(s) = f[Picked(s)] + sum(s \ {Picked(s)})
  BY <1>0, SumPicked
<1>. HIDE DEF sum
<1>2. SUFFICES ASSUME Sizes # {} PROVE FALSE
  BY <1>0 DEF sum
<1>3. PICK n \in Sizes : \A m \in Sizes : n <= m
  BY <1>2, Least
<1>4. PICK s \in SUBSET S : Cardinality(s) = n /\ sum(s) \notin D
  BY <1>3
<1>5. s # {}
  <2>1. 0 \in D
    OBVIOUS
  <2>2. s = {} => sum(s) = 0
    BY <1>1
  <2>. QED
    BY <1>4, <2>1, <2>2
<1>. DEFINE r == s \ {Picked(s)}
<1>6. Picked(s) \in s /\ r \in SUBSET S /\ Cardinality(r) = n - 1
  BY <1>0, <1>1, <1>4, <1>5, FS_RemoveElement
<1>7. n - 1 \in Nat /\ n - 1 \notin Sizes
  BY <1>0, <1>3, <1>6
<1>8. sum(r) \in D /\ f[Picked(s)] \in D /\ sum(s) = f[Picked(s)] + sum(r)
  <2>. HIDE DEF r
  <2>1. sum(r) \in D
    BY <1>6, <1>7
  <2>. QED
    BY <1>1, <1>5, <2>1 DEF r
<1>. HIDE DEF r
<1>. QED
  BY <1>4, <1>8

(* It does not matter which element is taken first.                        *)
LEMMA SumSplit ==
  ASSUME NEW f, NEW S, IsFiniteSet(S), \A x \in S : f[x] \in Int, NEW y \in S
  PROVE  SumFunctionOnSet(f, S) = f[y] + SumFunctionOnSet(f, S \ {y})
<1>. DEFINE sum(T) == SumFunctionOnSet(f, T)
            Good(s) == \A x \in s : sum(s) = f[x] + sum(s \ {x})
            Sizes == {n \in Nat : \E s \in SUBSET S : Cardinality(s) = n /\ ~Good(s)}
<1>0. \A s \in SUBSET S : IsFiniteSet(s) /\ Cardinality(s) \in Nat
  BY FS_Subset, FS_CardinalityType
<1>1. \A s \in SUBSET S :
        /\ s # {} => Picked(s) \in s /\ sum(s) = f[Picked(s)] + sum(s \ {Picked(s)})
        /\ sum(s) \in Int
  BY <1>0, SumPicked, SumType
<1>. HIDE DEF sum
<1>2. SUFFICES ASSUME Sizes # {} PROVE FALSE
  <2>1. Good(S)
    BY <1>0, <1>2
  <2>. QED
    BY <2>1 DEF sum
<1>3. PICK n \in Sizes : \A m \in Sizes : n <= m
  <2>. Sizes \in SUBSET Nat
    OBVIOUS
  <2>. QED
    BY <1>2, Least
<1>4. PICK s \in SUBSET S : Cardinality(s) = n /\ ~Good(s)
  BY <1>3
<1>5. PICK x \in s : sum(s) # f[x] + sum(s \ {x})
  BY <1>4
<1>. DEFINE a == Picked(s)
            r == s \ {a}
            t == s \ {x}
<1>6. a \in s /\ sum(s) = f[a] + sum(r) /\ a # x
  BY <1>1, <1>5
<1>7. Good(r) /\ Good(t)
  <2>1. \A u \in {r, t} : u \in SUBSET S /\ Cardinality(u) = n - 1
    <3>1. Cardinality(r) = n - 1
      BY <1>0, <1>4, <1>6, FS_RemoveElement
    <3>2. Cardinality(t) = n - 1
      BY <1>0, <1>4, <1>5, FS_RemoveElement
    <3>. QED
      BY <3>1, <3>2
  <2>2. n - 1 \in Nat
    BY <1>0, <2>1
  <2>3. n - 1 \notin Sizes
    BY <1>3
  <2>. HIDE DEF Good, r, t
  <2>. QED
    BY <2>1, <2>2, <2>3
<1>8. sum(r) = f[x] + sum(r \ {x}) /\ sum(t) = f[a] + sum(t \ {a})
  BY <1>5, <1>6, <1>7
<1>9. r \ {x} = t \ {a} /\ r \ {x} \in SUBSET S
  OBVIOUS
<1>10. f[x] \in Int /\ f[a] \in Int /\ sum(r \ {x}) \in Int
  BY <1>1, <1>5, <1>6, <1>9
<1>11. sum(s) = f[a] + (f[x] + sum(r \ {x})) /\ sum(t) = f[a] + sum(r \ {x})
  BY <1>6, <1>8, <1>9
<1>. QED
  BY <1>5, <1>10, <1>11

(* What the proofs below need to know of one sum.                          *)
LEMMA SumFacts ==
  ASSUME NEW f, NEW S, IsFiniteSet(S), \A x \in S : f[x] \in Int
  PROVE  \A s \in SUBSET S :
           /\ SumFunctionOnSet(f, s) \in Int
           /\ \A x \in s : SumFunctionOnSet(f, s) = f[x] + SumFunctionOnSet(f, s \ {x})
           /\ s = {} => SumFunctionOnSet(f, s) = 0
<1>. TAKE s \in SUBSET S
<1>1. IsFiniteSet(s) /\ \A x \in s : f[x] \in Int
  BY FS_Subset
<1>2. SumFunctionOnSet(f, s) \in Int
  <2>. DEFINE D == Int
  <2>1. \A x \in s : f[x] \in D
    BY <1>1
  <2>. HIDE DEF D
  <2>2. D = Int
    BY DEF D
  <2>. QED
    BY <1>1, <2>1, <2>2, SumType
<1>3. \A x \in s : SumFunctionOnSet(f, s) = f[x] + SumFunctionOnSet(f, s \ {x})
  BY <1>1, SumSplit
<1>4. s = {} => SumFunctionOnSet(f, s) = 0
  BY <1>1, SumPicked
<1>. QED
  BY <1>2, <1>3, <1>4

(* A sum is monotone and linear, in one formula.                           *)
LEMMA SumCompare ==
  ASSUME NEW f, NEW g, NEW h, NEW S, IsFiniteSet(S),
         \A x \in S : f[x] \in Int /\ g[x] \in Int /\ h[x] \in Int /\ f[x] <= g[x] + h[x]
  PROVE  SumFunctionOnSet(f, S) <= SumFunctionOnSet(g, S) + SumFunctionOnSet(h, S)
<1>. DEFINE F(T) == SumFunctionOnSet(f, T)
            G(T) == SumFunctionOnSet(g, T)
            H(T) == SumFunctionOnSet(h, T)
            Good(s) == F(s) <= G(s) + H(s)
            Sizes == {n \in Nat : \E s \in SUBSET S : Cardinality(s) = n /\ ~Good(s)}
<1>0. \A s \in SUBSET S : IsFiniteSet(s) /\ Cardinality(s) \in Nat
  BY FS_Subset, FS_CardinalityType
<1>1. \A s \in SUBSET S :
        /\ F(s) \in Int /\ G(s) \in Int /\ H(s) \in Int
        /\ \A x \in s : /\ F(s) = f[x] + F(s \ {x})
                        /\ G(s) = g[x] + G(s \ {x})
                        /\ H(s) = h[x] + H(s \ {x})
        /\ s = {} => F(s) = 0 /\ G(s) = 0 /\ H(s) = 0
  <2>1. \A s \in SUBSET S : /\ F(s) \in Int
                            /\ \A x \in s : F(s) = f[x] + F(s \ {x})
                            /\ s = {} => F(s) = 0
    BY SumFacts
  <2>2. \A s \in SUBSET S : /\ G(s) \in Int
                            /\ \A x \in s : G(s) = g[x] + G(s \ {x})
                            /\ s = {} => G(s) = 0
    BY SumFacts
  <2>3. \A s \in SUBSET S : /\ H(s) \in Int
                            /\ \A x \in s : H(s) = h[x] + H(s \ {x})
                            /\ s = {} => H(s) = 0
    BY SumFacts
  <2>. HIDE DEF F, G, H
  <2>. QED
    BY <2>1, <2>2, <2>3
<1>. HIDE DEF F, G, H
<1>2. SUFFICES ASSUME Sizes # {} PROVE FALSE
  <2>1. Good(S)
    BY <1>0, <1>2
  <2>. QED
    BY <2>1 DEF F, G, H
<1>3. PICK n \in Sizes : \A m \in Sizes : n <= m
  <2>. Sizes \in SUBSET Nat
    OBVIOUS
  <2>. QED
    BY <1>2, Least
<1>4. PICK s \in SUBSET S : Cardinality(s) = n /\ ~Good(s)
  BY <1>3
<1>5. s # {}
  BY <1>1, <1>4
<1>6. PICK x \in s : TRUE
  BY <1>5
<1>. DEFINE r == s \ {x}
<1>7. r \in SUBSET S /\ Cardinality(r) = n - 1 /\ n - 1 \in Nat
  <2>1. Cardinality(r) = n - 1
    BY <1>0, <1>4, <1>6, FS_RemoveElement
  <2>. QED
    BY <1>0, <2>1
<1>8. Good(r)
  <2>0. n \in Nat
    OBVIOUS
  <2>1. n - 1 \notin Sizes
    <3>. HIDE DEF Sizes
    <3>. QED
      BY <1>3, <2>0
  <2>. HIDE DEF Good, r
  <2>. QED
    BY <1>7, <2>1
<1>9. F(s) = f[x] + F(r) /\ G(s) = g[x] + G(r) /\ H(s) = h[x] + H(r)
  BY <1>1, <1>6
<1>10. /\ F(r) \in Int /\ G(r) \in Int /\ H(r) \in Int
       /\ f[x] \in Int /\ g[x] \in Int /\ h[x] \in Int /\ f[x] <= g[x] + h[x]
  BY <1>1, <1>6, <1>7
<1>. HIDE DEF r
<1>. QED
  BY <1>4, <1>8, <1>9, <1>10

(* A sum is that over a part and that over the rest.                       *)
LEMMA SumParts ==
  ASSUME NEW f, NEW S, IsFiniteSet(S), \A x \in S : f[x] \in Int, NEW T \in SUBSET S
  PROVE  SumFunctionOnSet(f, S) = SumFunctionOnSet(f, T) + SumFunctionOnSet(f, S \ T)
<1>. DEFINE sum(s) == SumFunctionOnSet(f, s)
            Good(t) == sum(S) = sum(t) + sum(S \ t)
            Sizes == {n \in Nat : \E t \in SUBSET S : Cardinality(t) = n /\ ~Good(t)}
<1>0. \A s \in SUBSET S : IsFiniteSet(s) /\ Cardinality(s) \in Nat
  BY FS_Subset, FS_CardinalityType
<1>1. \A s \in SUBSET S :
        /\ sum(s) \in Int
        /\ \A x \in s : sum(s) = f[x] + sum(s \ {x})
        /\ s = {} => sum(s) = 0
  BY SumFacts
<1>. HIDE DEF sum
<1>2. SUFFICES ASSUME Sizes # {} PROVE FALSE
  <2>1. Good(T)
    BY <1>0, <1>2
  <2>. QED
    BY <2>1 DEF sum
<1>3. PICK n \in Sizes : \A m \in Sizes : n <= m
  <2>. Sizes \in SUBSET Nat
    OBVIOUS
  <2>. QED
    BY <1>2, Least
<1>4. PICK t \in SUBSET S : Cardinality(t) = n /\ ~Good(t)
  BY <1>3
<1>5. t # {}
  <2>1. S \ {} = S /\ {} \in SUBSET S /\ S \in SUBSET S
    OBVIOUS
  <2>2. sum({}) = 0 /\ sum(S) \in Int
    BY <1>1, <2>1
  <2>3. Good({})
    BY <2>1, <2>2
  <2>. QED
    BY <1>4, <2>3
<1>6. PICK x \in t : TRUE
  BY <1>5
<1>. DEFINE r == t \ {x}
<1>7. r \in SUBSET S /\ Cardinality(r) = n - 1 /\ n - 1 \in Nat
  <2>1. Cardinality(r) = n - 1
    BY <1>0, <1>4, <1>6, FS_RemoveElement
  <2>. QED
    BY <1>0, <2>1
<1>8. Good(r)
  <2>0. n \in Nat
    OBVIOUS
  <2>1. n - 1 \notin Sizes
    <3>. HIDE DEF Sizes
    <3>. QED
      BY <1>3, <2>0
  <2>. HIDE DEF Good, r
  <2>. QED
    BY <1>7, <2>1
<1>9. sum(t) = f[x] + sum(r)
  BY <1>1, <1>6
<1>10. sum(S \ r) = f[x] + sum(S \ t)
  <2>1. x \in S \ r /\ (S \ r) \ {x} = S \ t /\ S \ r \in SUBSET S
    BY <1>6
  <2>. QED
    BY <1>1, <2>1
<1>11. /\ f[x] \in Int /\ sum(r) \in Int /\ sum(S \ t) \in Int
       /\ sum(S) = sum(r) + (f[x] + sum(S \ t))
  <2>1. S \ t \in SUBSET S /\ x \in S
    BY <1>6
  <2>. QED
    BY <1>1, <1>7, <1>8, <1>10, <2>1
<1>12. sum(S) = (f[x] + sum(r)) + sum(S \ t)
  <2>. HIDE DEF r
  <2>. QED BY <1>11
<1>. QED
  BY <1>4, <1>9, <1>12

(***************************************************************************)
(* Sorted lists                                                            *)
(***************************************************************************)
(* The elements of S by their numbers, all different.                      *)
InOrder(f, key, S) ==
  /\ f \in [1 .. Cardinality(S) -> S]
  /\ IsInjective(f)
  /\ \A i, j \in DOMAIN f : i < j => key[f[i]] < key[f[j]]

LEMMA OrderExists ==
  ASSUME NEW S, IsFiniteSet(S), NEW key, \A x \in S : key[x] \in Nat,
         \A x, y \in S : key[x] = key[y] => x = y
  PROVE  \E f : InOrder(f, key, S)
<1>. DEFINE Good(s) == \E f : InOrder(f, key, s)
            Sizes == {n \in Nat : \E s \in SUBSET S : Cardinality(s) = n /\ ~Good(s)}
<1>0. \A s \in SUBSET S : IsFiniteSet(s) /\ Cardinality(s) \in Nat
  BY FS_Subset, FS_CardinalityType
<1>1. SUFFICES ASSUME Sizes # {} PROVE FALSE
  BY <1>0
<1>2. PICK n \in Sizes : \A m \in Sizes : n <= m
  <2>. Sizes \in SUBSET Nat
    OBVIOUS
  <2>. QED
    BY <1>1, Least
<1>3. PICK s \in SUBSET S : Cardinality(s) = n /\ ~Good(s)
  BY <1>2
<1>4. s # {}
  <2>1. SUFFICES ASSUME s = {} PROVE Good(s)
    BY <1>3
  <2>2. Cardinality(s) = 0
    BY <2>1, FS_EmptySet
  <2>3. 1 .. 0 = {}
    OBVIOUS
  <2>. DEFINE f == [i \in 1 .. 0 |-> 0]
  <2>4. InOrder(f, key, s)
    BY <2>1, <2>2, <2>3 DEF InOrder, IsInjective
  <2>. QED
    BY <2>4
<1>5. PICK a \in s : \A x \in s : key[a] <= key[x]
  <2>. DEFINE keys == {key[x] : x \in s}
  <2>1. keys \in SUBSET Nat /\ keys # {}
    BY <1>4
  <2>2. PICK k \in keys : \A m \in keys : k <= m
    <3>. HIDE DEF keys
    <3>. QED BY <2>1, Least
  <2>. QED
    BY <2>2
<1>. DEFINE r == s \ {a}
<1>6. r \in SUBSET S /\ Cardinality(r) = n - 1 /\ n - 1 \in Nat
  <2>1. Cardinality(r) = n - 1
    BY <1>0, <1>3, <1>5, FS_RemoveElement
  <2>. QED
    BY <1>0, <2>1
<1>7. Good(r)
  <2>0. n \in Nat
    OBVIOUS
  <2>1. n - 1 \notin Sizes
    <3>. HIDE DEF Sizes
    <3>. QED
      BY <1>2, <2>0
  <2>. HIDE DEF Good, r
  <2>. QED
    BY <1>6, <2>1
<1>8. PICK g : InOrder(g, key, r)
  BY <1>7
<1>. DEFINE f == [i \in 1 .. n |-> IF i = 1 THEN a ELSE g[i - 1]]
<1>9. n \in Nat /\ g \in [1 .. n - 1 -> r] /\ IsInjective(g)
      /\ \A i, j \in 1 .. n - 1 : i < j => key[g[i]] < key[g[j]]
  BY <1>6, <1>8 DEF InOrder
<1>10. \A i \in 2 .. n : f[i] = g[i - 1] /\ i - 1 \in 1 .. n - 1 /\ g[i - 1] \in r
  BY <1>9
<1>11. \A x \in r : key[a] < key[x] /\ key[x] \in Nat /\ x \in s
  BY <1>5
<1>12. \A i \in 1 .. n : i = 1 \/ i \in 2 .. n
  BY <1>9
<1>13. f \in [1 .. n -> s]
  BY <1>5, <1>10, <1>12
<1>14. \A i, j \in 1 .. n : i < j => key[f[i]] < key[f[j]]
  <2>. TAKE i \in 1 .. n, j \in 1 .. n
  <2>. HAVE i < j
  <2>1. j \in 2 .. n
    BY <1>9
  <2>2. CASE i = 1
    BY <1>10, <1>11, <2>1, <2>2
  <2>3. CASE i \in 2 .. n
    <3>1. i - 1 < j - 1
      OBVIOUS
    <3>. QED
      BY <1>9, <1>10, <2>1, <2>3, <3>1
  <2>. QED
    BY <1>12, <2>2, <2>3
<1>15. IsInjective(f)
  <2>. SUFFICES ASSUME NEW i \in 1 .. n, NEW j \in 1 .. n, f[i] = f[j], i < j PROVE FALSE
    BY <1>9 DEF IsInjective
  <2>1. key[f[i]] \in Nat
    BY <1>13
  <2>. QED
    BY <1>14, <2>1
<1>. HIDE DEF f
<1>16. InOrder(f, key, s)
  BY <1>3, <1>13, <1>14, <1>15 DEF InOrder
<1>. QED
  BY <1>3, <1>16

(* The largest number first.                                               *)
LEMMA ReverseOrder ==
  ASSUME NEW S, IsFiniteSet(S), NEW key, NEW f, InOrder(f, key, S)
  PROVE  \E g \in [1 .. Cardinality(S) -> S] :
           /\ IsInjective(g)
           /\ \A i, j \in DOMAIN g : i < j => key[g[i]] > key[g[j]]
<1>. DEFINE n == Cardinality(S)
            g == [i \in 1 .. n |-> f[n + 1 - i]]
<1>1. n \in Nat
  BY FS_CardinalityType
<1>. HIDE DEF n
<1>2. f \in [1 .. n -> S] /\ IsInjective(f)
      /\ \A i, j \in 1 .. n : i < j => key[f[i]] < key[f[j]]
  BY DEF InOrder, n
<1>3. \A i \in 1 .. n : n + 1 - i \in 1 .. n /\ g[i] = f[n + 1 - i]
  BY <1>1
<1>4. g \in [1 .. n -> S]
  BY <1>2, <1>3
<1>5. IsInjective(g)
  <2>. SUFFICES ASSUME NEW i \in 1 .. n, NEW j \in 1 .. n, g[i] = g[j] PROVE i = j
    BY DEF IsInjective
  <2>1. n + 1 - i = n + 1 - j
    BY <1>2, <1>3 DEF IsInjective
  <2>. QED
    BY <1>1, <2>1
<1>6. \A i, j \in 1 .. n : i < j => key[g[i]] > key[g[j]]
  <2>. TAKE i \in 1 .. n, j \in 1 .. n
  <2>. HAVE i < j
  <2>1. n + 1 - j < n + 1 - i
    BY <1>1
  <2>2. key[f[n + 1 - j]] < key[f[n + 1 - i]]
    BY <1>2, <1>3, <2>1
  <2>. QED
    BY <1>3, <2>2
<1>. HIDE DEF g
<1>. QED
  BY <1>4, <1>5, <1>6 DEF n

(* A list of all its elements, each once, leaves none out.                 *)
LEMMA InjectiveIsOnto ==
  ASSUME NEW S, IsFiniteSet(S), NEW f \in [1 .. Cardinality(S) -> S], IsInjective(f), NEW x \in S
  PROVE  \E i \in 1 .. Cardinality(S) : f[i] = x
<1>. DEFINE n == Cardinality(S)
            T == S \ {x}
<1>0. n \in Nat
  BY FS_CardinalityType
<1>1. SUFFICES ASSUME \A i \in 1 .. n : f[i] # x PROVE FALSE
  OBVIOUS
<1>2. f \in [1 .. n -> T]
  BY <1>1
<1>3. IsFiniteSet(T) /\ Cardinality(T) = n - 1
  BY FS_RemoveElement
<1>4. IsFiniteSet(1 .. n) /\ Cardinality(1 .. n) = n
  BY <1>0, FS_Interval
<1>. HIDE DEF n, T
<1>5. Cardinality(T) < Cardinality(1 .. n)
  BY <1>0, <1>3, <1>4
<1>6. \E i, j \in 1 .. n : i # j /\ f[i] = f[j]
  BY <1>2, <1>3, <1>4, <1>5, FS_PigeonHole
<1>. QED
  BY <1>2, <1>6 DEF IsInjective

(* A sum, added up along a list of the elements.                           *)
AddsUp(t, f, list, n) ==
  t[0] = 0 /\ \A i \in 1 .. n : t[i - 1] \in Int /\ t[i] = t[i - 1] + f[list[i]]

LEMMA SumAlong ==
  ASSUME NEW S, IsFiniteSet(S), NEW list \in [1 .. Cardinality(S) -> S], IsInjective(list),
         NEW f, \A x \in S : f[x] \in Int,
         NEW t, AddsUp(t, f, list, Cardinality(S))
  PROVE  SumFunctionOnSet(f, S) = t[Cardinality(S)]
<1>. DEFINE n == Cardinality(S)
            sum(T) == SumFunctionOnSet(f, T)
            First(k) == {list[i] : i \in 1 .. k}
            Good(k) == sum(First(k)) = t[k]
            Bad == {k \in Nat : k <= n /\ ~Good(k)}
<1>0. n \in Nat
  BY FS_CardinalityType
<1>. USE DEF AddsUp
<1>1. \A s \in SUBSET S :
        /\ sum(s) \in Int
        /\ \A x \in s : sum(s) = f[x] + sum(s \ {x})
        /\ s = {} => sum(s) = 0
  BY SumFacts
<1>2. \A k \in 0 .. n : First(k) \in SUBSET S
  BY <1>0
<1>3. Good(0)
  <2>1. First(0) = {}
    OBVIOUS
  <2>2. sum({}) = 0
    <3>. HIDE DEF sum
    <3>. QED BY <1>1
  <2>. QED
    BY <2>1, <2>2
<1>4. ASSUME NEW k \in 1 .. n, Good(k - 1) PROVE Good(k)
  <2>. DEFINE x == list[k]
  <2>1. x \in First(k)
    BY <1>0
  <2>2. First(k) \ {x} = First(k - 1)
    <3>1. \A i \in 1 .. k : i # k => list[i] # x /\ i \in 1 .. k - 1
      BY <1>0 DEF IsInjective
    <3>2. \A i \in 1 .. k - 1 : list[i] # x /\ i \in 1 .. k
      BY <1>0 DEF IsInjective
    <3>. QED
      BY <3>1, <3>2
  <2>3. First(k) \in SUBSET S
    BY <1>0, <1>2
  <2>4. sum(First(k)) = f[x] + sum(First(k - 1))
    <3>. HIDE DEF sum, First, x
    <3>. QED BY <1>1, <2>1, <2>2, <2>3
  <2>5. sum(First(k - 1)) = t[k - 1]
    BY <1>4
  <2>6. t[k] = t[k - 1] + f[x] /\ t[k - 1] \in Int /\ f[x] \in Int
    BY <1>0
  <2>. HIDE DEF sum, First, x
  <2>. QED
    BY <2>4, <2>5, <2>6
<1>5. Bad = {}
  <2>1. SUFFICES ASSUME Bad # {} PROVE FALSE
    OBVIOUS
  <2>2. PICK k \in Bad : \A m \in Bad : k <= m
    <3>. Bad \in SUBSET Nat
      OBVIOUS
    <3>. HIDE DEF Bad
    <3>. QED BY <2>1, Least
  <2>3. k \in Nat /\ k <= n /\ ~Good(k)
    OBVIOUS
  <2>. HIDE DEF Good
  <2>4. k # 0
    BY <1>3, <2>3
  <2>5. k - 1 \in Nat /\ k \in 1 .. n
    BY <1>0, <2>3, <2>4
  <2>6. Good(k - 1)
    BY <1>0, <2>2, <2>3, <2>5
  <2>. QED
    BY <1>4, <2>3, <2>5, <2>6
<1>6. Good(n)
  <2>. HIDE DEF Good
  <2>. QED BY <1>0, <1>5
<1>7. First(n) = S
  BY <1>0, InjectiveIsOnto
<1>. QED
  BY <1>6, <1>7

(* What is 0 outside a part of the set adds nothing.                       *)
LEMMA SumZero ==
  ASSUME NEW f, NEW S, IsFiniteSet(S), \A x \in S : f[x] = 0
  PROVE  SumFunctionOnSet(f, S) = 0
<1>. DEFINE sum(T) == SumFunctionOnSet(f, T)
            Bad == {n \in Nat : \E s \in SUBSET S : Cardinality(s) = n /\ sum(s) # 0}
<1>0. \A s \in SUBSET S : IsFiniteSet(s) /\ Cardinality(s) \in Nat
  BY FS_Subset, FS_CardinalityType
<1>1. \A s \in SUBSET S :
        /\ s = {} => sum(s) = 0
        /\ s # {} => Picked(s) \in s /\ sum(s) = f[Picked(s)] + sum(s \ {Picked(s)})
  BY <1>0, SumPicked
<1>. HIDE DEF sum
<1>2. SUFFICES ASSUME Bad # {} PROVE FALSE
  <2>1. S \in SUBSET S /\ Cardinality(S) \in Nat
    BY <1>0
  <2>2. sum(S) = 0
    BY <1>2, <2>1
  <2>. QED
    BY <2>2 DEF sum
<1>3. PICK n \in Bad : \A m \in Bad : n <= m
  <2>. Bad \in SUBSET Nat
    OBVIOUS
  <2>. HIDE DEF Bad
  <2>. QED BY <1>2, Least
<1>4. PICK s \in SUBSET S : Cardinality(s) = n /\ sum(s) # 0
  OBVIOUS
<1>. DEFINE x == Picked(s)
            r == s \ {x}
<1>5. x \in s /\ sum(s) = f[x] + sum(r)
  BY <1>1, <1>4
<1>6. r \in SUBSET S /\ Cardinality(r) = n - 1 /\ n - 1 \in Nat
  <2>1. Cardinality(r) = n - 1
    BY <1>0, <1>4, <1>5, FS_RemoveElement
  <2>2. Cardinality(r) \in Nat
    BY <1>0
  <2>. QED
    BY <2>1, <2>2
<1>7. n - 1 \notin Bad
  <2>1. n \in Nat
    OBVIOUS
  <2>. HIDE DEF Bad
  <2>. QED BY <1>3, <2>1
<1>8. sum(r) = 0 /\ f[x] = 0
  <2>. HIDE DEF r, x
  <2>1. sum(r) = 0
    BY <1>6, <1>7
  <2>. QED
    BY <1>5, <2>1
<1>. HIDE DEF r, x
<1>. QED
  BY <1>4, <1>5, <1>8

LEMMA SumSupport ==
  ASSUME NEW f, NEW S, IsFiniteSet(S), \A x \in S : f[x] \in Int, NEW T \in SUBSET S,
         \A x \in S \ T : f[x] = 0
  PROVE  SumFunctionOnSet(f, S) = SumFunctionOnSet(f, T)
<1>1. SumFunctionOnSet(f, S) = SumFunctionOnSet(f, T) + SumFunctionOnSet(f, S \ T)
  BY SumParts
<1>2. SumFunctionOnSet(f, S \ T) = 0
  <2>1. IsFiniteSet(S \ T)
    BY FS_Subset
  <2>. QED
    BY <2>1, SumZero
<1>3. SumFunctionOnSet(f, T) \in Int
  BY SumFacts
<1>. QED
  BY <1>1, <1>2, <1>3

(* Sums are monotone.                                                      *)
LEMMA SumMonotone ==
  ASSUME NEW f, NEW g, NEW S, IsFiniteSet(S),
         \A x \in S : f[x] \in Int /\ g[x] \in Int /\ f[x] <= g[x]
  PROVE  SumFunctionOnSet(f, S) <= SumFunctionOnSet(g, S)
<1>. DEFINE h == [x \in S |-> 0]
<1>1. SumFunctionOnSet(h, S) = 0
  BY SumZero
<1>2. \A x \in S : h[x] = 0
  OBVIOUS
<1>. HIDE DEF h
<1>3. SumFunctionOnSet(f, S) <= SumFunctionOnSet(g, S) + SumFunctionOnSet(h, S)
  BY <1>2, SumCompare
<1>4. SumFunctionOnSet(f, S) \in Int /\ SumFunctionOnSet(g, S) \in Int
  <2>1. SumFunctionOnSet(f, S) \in Int
    BY SumFacts
  <2>2. SumFunctionOnSet(g, S) \in Int
    BY SumFacts
  <2>. QED
    BY <2>1, <2>2
<1>. QED
  BY <1>1, <1>3, <1>4

(* The sum of two functions.                                               *)
LEMMA SumPlus ==
  ASSUME NEW f, NEW g, NEW h, NEW S, IsFiniteSet(S),
         \A x \in S : f[x] \in Int /\ g[x] \in Int /\ h[x] = f[x] + g[x]
  PROVE  SumFunctionOnSet(h, S) = SumFunctionOnSet(f, S) + SumFunctionOnSet(g, S)
<1>. DEFINE F(T) == SumFunctionOnSet(f, T)
            G(T) == SumFunctionOnSet(g, T)
            H(T) == SumFunctionOnSet(h, T)
            Good(s) == H(s) = F(s) + G(s)
            Bad == {n \in Nat : \E s \in SUBSET S : Cardinality(s) = n /\ ~Good(s)}
<1>0. \A s \in SUBSET S : IsFiniteSet(s) /\ Cardinality(s) \in Nat
  BY FS_Subset, FS_CardinalityType
<1>1. \A s \in SUBSET S :
        /\ F(s) \in Int /\ G(s) \in Int
        /\ \A x \in s : /\ F(s) = f[x] + F(s \ {x})
                        /\ G(s) = g[x] + G(s \ {x})
                        /\ H(s) = h[x] + H(s \ {x})
        /\ s = {} => F(s) = 0 /\ G(s) = 0 /\ H(s) = 0
  <2>1. \A s \in SUBSET S : /\ F(s) \in Int
                            /\ \A x \in s : F(s) = f[x] + F(s \ {x})
                            /\ s = {} => F(s) = 0
    BY SumFacts
  <2>2. \A s \in SUBSET S : /\ G(s) \in Int
                            /\ \A x \in s : G(s) = g[x] + G(s \ {x})
                            /\ s = {} => G(s) = 0
    BY SumFacts
  <2>3. \A s \in SUBSET S : /\ \A x \in s : H(s) = h[x] + H(s \ {x})
                            /\ s = {} => H(s) = 0
    <3>1. \A x \in S : h[x] \in Int
      OBVIOUS
    <3>. QED
      BY <3>1, SumFacts
  <2>. HIDE DEF F, G, H
  <2>. QED
    BY <2>1, <2>2, <2>3
<1>. HIDE DEF F, G, H
<1>2. SUFFICES ASSUME Bad # {} PROVE FALSE
  <2>1. Good(S)
    BY <1>0, <1>2
  <2>. QED
    BY <2>1 DEF F, G, H
<1>3. PICK n \in Bad : \A m \in Bad : n <= m
  <2>. Bad \in SUBSET Nat
    OBVIOUS
  <2>. HIDE DEF Bad
  <2>. QED
    BY <1>2, Least
<1>4. PICK s \in SUBSET S : Cardinality(s) = n /\ ~Good(s)
  OBVIOUS
<1>5. s # {}
  BY <1>1, <1>4
<1>6. PICK x \in s : TRUE
  BY <1>5
<1>. DEFINE r == s \ {x}
<1>7. r \in SUBSET S /\ Cardinality(r) = n - 1 /\ n - 1 \in Nat
  <2>1. Cardinality(r) = n - 1
    BY <1>0, <1>4, <1>6, FS_RemoveElement
  <2>. QED
    BY <1>0, <2>1
<1>8. Good(r)
  <2>0. n \in Nat
    OBVIOUS
  <2>1. n - 1 \notin Bad
    <3>. HIDE DEF Bad
    <3>. QED
      BY <1>3, <2>0
  <2>. HIDE DEF Good, r
  <2>. QED
    BY <1>7, <2>1
<1>9. F(s) = f[x] + F(r) /\ G(s) = g[x] + G(r) /\ H(s) = h[x] + H(r)
  BY <1>1, <1>6
<1>10. /\ F(r) \in Int /\ G(r) \in Int
       /\ f[x] \in Int /\ g[x] \in Int /\ h[x] = f[x] + g[x]
  BY <1>1, <1>6, <1>7
<1>. HIDE DEF r
<1>. QED
  BY <1>4, <1>8, <1>9, <1>10
=============================================================================
