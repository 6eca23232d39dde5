------------------------ MODULE CohortSettlementProofs ------------------------
(***************************************************************************)
(* Proofs about CohortSettlement: a measured packet and complete amendments *)
(* tell the truth for ever (SettlementInvariant), so the amounts that P17   *)
(* accepts are those that the network's sales had settled.  Three parts:    *)
(* sums and folds of any finite size, by the well-foundedness of strict     *)
(* inclusion and of the numbers; the inductive invariant, action by action; *)
(* and the application of the events, whose progress is followed from the   *)
(* original to the last event.                                              *)
(***************************************************************************)
EXTENDS CohortSettlement, SequenceTheorems, FiniteSetTheorems, WellFoundedInduction, TLAPS

-----------------------------------------------------------------------------
(* Sums of finite functions *)

\* A sum over every set of arguments, whatever the order of the additions.
Additive(g, w) ==
    /\ g \in [SUBSET DOMAIN w -> Int] /\ g[{}] = 0
    /\ \A s \in SUBSET DOMAIN w : \A x \in DOMAIN w \ s : g[s \cup {x}] = w[x] + g[s]

Part(w, T) == [x \in T |-> w[x]]

\* A set of finite sets has one that holds no other (induction for the sums).
LEMMA SmallestSet ==
    ASSUME NEW D, IsFiniteSet(D), NEW B, B \subseteq SUBSET D, B # {}
    PROVE  \E T \in B : IsFiniteSet(T) /\ \A x \in T : T \ {x} \notin B
<1>1. B \subseteq FiniteSubsetsOf(D)
  BY FS_FiniteSubsetsOfFinite
<1>2. IsWellFoundedOn(StrictSubsetOrdering(D), FiniteSubsetsOf(D))
  BY FS_StrictSubsetOrderingWellFounded
<1>3. PICK T \in B : \A U \in B : ~(<<U, T>> \in StrictSubsetOrdering(D))
  BY <1>1, <1>2, WFMin
<1>4. ASSUME NEW x \in T PROVE T \ {x} \notin B
  <2>1. <<T \ {x}, T>> \in StrictSubsetOrdering(D)
    BY DEF StrictSubsetOrdering
  <2> QED
    BY <1>3, <2>1
<1>5. IsFiniteSet(T)
  BY <1>1 DEF FiniteSubsetsOf
<1> QED
  BY <1>4, <1>5

\* One more argument.
LEMMA AdditiveGrows ==
    ASSUME NEW w, NEW T, NEW d \in T, \A x \in T : w[x] \in Int,
           NEW g, Additive(g, Part(w, T \ {d}))
    PROVE  \E h : Additive(h, Part(w, T))
<1> DEFINE U == T \ {d}
           h == [s \in SUBSET T |-> IF d \in s THEN w[d] + g[s \ {d}] ELSE g[s]]
<1>1. /\ g \in [SUBSET U -> Int] /\ g[{}] = 0
      /\ \A s \in SUBSET U : \A x \in U \ s : g[s \cup {x}] = w[x] + g[s]
  <2>1. DOMAIN Part(w, U) = U /\ \A x \in U : Part(w, U)[x] = w[x]
    BY DEF Part
  <2> QED
    BY <2>1 DEF Additive
<1>2. \A s \in SUBSET T : h[s] = IF d \in s THEN w[d] + g[s \ {d}] ELSE g[s]
  OBVIOUS
<1>3. h \in [SUBSET T -> Int]
  <2>1. ASSUME NEW s \in SUBSET T PROVE h[s] \in Int
    <3>1. s \ {d} \in SUBSET U /\ (d \notin s => s \in SUBSET U)
      OBVIOUS
    <3> QED
      BY <1>1, <1>2, <3>1
  <2> QED
    BY <2>1
<1>4. h[{}] = 0
  BY <1>1, <1>2
<1>5. ASSUME NEW s \in SUBSET T, NEW x \in T \ s PROVE h[s \cup {x}] = w[x] + h[s]
  <2>1. CASE x = d
    <3>1. (s \cup {x}) \ {d} = s /\ s \cup {x} \in SUBSET T
      BY <2>1
    <3> QED
      BY <1>2, <2>1, <3>1
  <2>2. CASE x # d /\ d \in s
    <3>1. /\ (s \cup {x}) \ {d} = (s \ {d}) \cup {x} /\ s \cup {x} \in SUBSET T
          /\ s \ {d} \in SUBSET U /\ x \in U \ (s \ {d})
      BY <2>2
    <3>2. g[(s \ {d}) \cup {x}] = w[x] + g[s \ {d}]
      BY <1>1, <3>1
    <3>3. w[x] \in Int /\ w[d] \in Int /\ g[s \ {d}] \in Int
      BY <1>1, <3>1
    <3>4. h[s \cup {x}] = w[d] + g[(s \ {d}) \cup {x}] /\ h[s] = w[d] + g[s \ {d}]
      BY <1>2, <2>2, <3>1
    <3> HIDE DEF h
    <3> QED
      BY <3>2, <3>3, <3>4
  <2>3. CASE x # d /\ d \notin s
    <3>1. s \in SUBSET U /\ x \in U \ s /\ s \cup {x} \in SUBSET T /\ d \notin s \cup {x}
      BY <2>3
    <3> QED
      BY <1>1, <1>2, <3>1
  <2> QED
    BY <2>1, <2>2, <2>3
<1>6. DOMAIN Part(w, T) = T /\ \A x \in T : Part(w, T)[x] = w[x]
  BY DEF Part
<1> HIDE DEF h
<1>7. Additive(h, Part(w, T))
  BY <1>3, <1>4, <1>5, <1>6 DEF Additive
<1> QED
  BY <1>7

\* Every finite function can be summed.
LEMMA AdditiveExists ==
    ASSUME NEW D, IsFiniteSet(D), NEW w \in [D -> Int]
    PROVE  \E g : Additive(g, w)
<1> DEFINE B == {T \in SUBSET D : ~ \E g : Additive(g, Part(w, T))}
<1>1. B = {}
  <2> SUFFICES ASSUME B # {} PROVE FALSE
    OBVIOUS
  <2>1. B \subseteq SUBSET D
    OBVIOUS
  <2>2. PICK T \in B : \A x \in T : T \ {x} \notin B
    <3> HIDE DEF B
    <3> QED
      BY <2>1, SmallestSet
  <2>3. CASE T = {}
    <3> DEFINE g == [s \in SUBSET {} |-> 0]
    <3>1. DOMAIN Part(w, {}) = {}
      BY DEF Part
    <3>2. Additive(g, Part(w, {}))
      BY <3>1 DEF Additive
    <3> QED
      BY <2>3, <3>2
  <2>4. CASE T # {}
    <3> PICK x \in T : TRUE
      BY <2>4
    <3>1. PICK g : Additive(g, Part(w, T \ {x}))
      BY <2>2
    <3>2. \A y \in T : w[y] \in Int
      OBVIOUS
    <3>3. \E h : Additive(h, Part(w, T))
      BY <3>1, <3>2, AdditiveGrows
    <3> QED
      BY <3>3
  <2> QED
    BY <2>3, <2>4
<1>2. Part(w, D) = w
  BY DEF Part
<1> QED
  BY <1>1, <1>2

\* SumFunction is that sum (Decimal sums of the code's generators).
LEMMA SumIsAdditive ==
    ASSUME NEW D, IsFiniteSet(D), NEW w \in [D -> Int], NEW g, Additive(g, w)
    PROVE  SumFunction(w) = g[D]
<1>0. DOMAIN w = D
  OBVIOUS
<1> DEFINE First(s) == CHOOSE x \in s : TRUE
           Sums(it) == it = [s \in SUBSET D |->
                                IF s = {} THEN 0 ELSE w[First(s)] + it[s \ {First(s)}]]
<1>1. /\ g \in [SUBSET D -> Int] /\ g[{}] = 0
      /\ \A s \in SUBSET D : \A x \in D \ s : g[s \cup {x}] = w[x] + g[s]
  BY <1>0 DEF Additive
<1>2. ASSUME NEW s \in SUBSET D, s # {} PROVE g[s] = w[First(s)] + g[s \ {First(s)}]
  <2>1. First(s) \in s
    BY <1>2
  <2> HIDE DEF First
  <2>2. s \ {First(s)} \in SUBSET D /\ First(s) \in D \ (s \ {First(s)})
        /\ (s \ {First(s)}) \cup {First(s)} = s
    BY <2>1
  <2> QED
    BY <1>1, <2>2
<1>3. Sums(g)
  <2> HIDE DEF First
  <2>1. g = [s \in SUBSET D |-> g[s]]
    BY <1>1
  <2> QED
    BY <1>1, <1>2, <2>1
<1>4. SumFunction(w) = (CHOOSE it : Sums(it))[D]
  BY <1>0 DEF SumFunction, SumFunctionOnSet, FoldFunctionOnSet, MapThenFoldSet
<1> PICK it : it = CHOOSE i : Sums(i)
  OBVIOUS
<1>5. Sums(it)
  <2> HIDE DEF Sums
  <2> QED
    BY <1>3
<1> DEFINE B == {s \in SUBSET D : it[s] # g[s]}
<1>6. B = {}
  <2> SUFFICES ASSUME B # {} PROVE FALSE
    OBVIOUS
  <2>1. B \subseteq SUBSET D
    OBVIOUS
  <2>2. PICK T \in B : \A x \in T : T \ {x} \notin B
    <3> HIDE DEF B
    <3> QED
      BY <2>1, SmallestSet
  <2>3. T # {}
    BY <1>1, <1>5
  <2>4. First(T) \in T
    BY <2>3
  <2>5. it[T] = w[First(T)] + it[T \ {First(T)}]
    <3> HIDE DEF First
    <3> QED
      BY <1>5, <2>3
  <2> HIDE DEF First, Sums
  <2>6. it[T \ {First(T)}] = g[T \ {First(T)}]
    BY <2>2, <2>4
  <2>7. g[T] = w[First(T)] + g[T \ {First(T)}]
    BY <1>2, <2>3
  <2> QED
    BY <2>5, <2>6, <2>7
<1>7. it[D] = g[D]
  BY <1>6
<1> QED
  BY <1>4, <1>7

\* f gives every argument of w one argument of v with the same value.
Renames(f, A, v, B, w) ==
    /\ v \in [A -> Int] /\ w \in [B -> Int] /\ f \in [A -> B]
    /\ \A b \in B : \E a \in A : f[a] = b
    /\ \A a, c \in A : f[a] = f[c] => a = c
    /\ \A a \in A : v[a] = w[f[a]]

\* The same amounts under other names have the same sum (a sale and its row).
LEMMA SumTransfer ==
    ASSUME NEW A, IsFiniteSet(A), NEW B, NEW v, NEW w, NEW f, Renames(f, A, v, B, w)
    PROVE  SumFunction(v) = SumFunction(w)
<1>0. /\ v \in [A -> Int] /\ w \in [B -> Int] /\ f \in [A -> B]
      /\ \A b \in B : \E a \in A : f[a] = b
      /\ \A a, c \in A : f[a] = f[c] => a = c
      /\ \A a \in A : v[a] = w[f[a]]
  BY DEF Renames
<1>1. IsFiniteSet(B)
  <2>1. f \in Surjection(A, B)
    BY <1>0 DEF Surjection
  <2> QED
    BY <2>1, FS_Surjection
<1>2. PICK g : Additive(g, w)
  BY <1>0, <1>1, AdditiveExists
<1> DEFINE Im(s) == {f[a] : a \in s}
           G == [s \in SUBSET A |-> g[Im(s)]]
<1>3. /\ g \in [SUBSET B -> Int] /\ g[{}] = 0
      /\ \A s \in SUBSET B : \A x \in B \ s : g[s \cup {x}] = w[x] + g[s]
  BY <1>0, <1>2 DEF Additive
<1>4. \A s \in SUBSET A : Im(s) \in SUBSET B
  BY <1>0
<1>5. Im({}) = {} /\ Im(A) = B
  BY <1>0
<1>6. ASSUME NEW s \in SUBSET A, NEW x \in A \ s
      PROVE  Im(s \cup {x}) = Im(s) \cup {f[x]} /\ f[x] \in B \ Im(s)
  BY <1>0, <1>6
<1>7. \A s \in SUBSET A : G[s] = g[Im(s)]
  OBVIOUS
<1>8. G \in [SUBSET A -> Int]
  <2> HIDE DEF Im
  <2> QED
    BY <1>3, <1>4
<1> HIDE DEF Im, G
<1>9. ASSUME NEW s \in SUBSET A, NEW x \in A \ s PROVE G[s \cup {x}] = v[x] + G[s]
  <2>1. s \cup {x} \in SUBSET A
    OBVIOUS
  <2>2. G[s \cup {x}] = g[Im(s) \cup {f[x]}]
    BY <1>6, <1>7, <2>1
  <2>3. g[Im(s) \cup {f[x]}] = w[f[x]] + g[Im(s)]
    BY <1>3, <1>4, <1>6
  <2> QED
    BY <1>0, <1>7, <2>2, <2>3
<1>10. G[{}] = 0
  BY <1>3, <1>5, <1>7
<1>11. Additive(G, v)
  BY <1>0, <1>8, <1>9, <1>10 DEF Additive
<1>12. SumFunction(v) = G[A] /\ SumFunction(w) = g[B]
  BY <1>0, <1>1, <1>2, <1>11, SumIsAdditive
<1> QED
  BY <1>5, <1>7, <1>12

\* One amount can be taken out of a sum.
LEMMA SumSplits ==
    ASSUME NEW D, IsFiniteSet(D), NEW w \in [D -> Int], NEW d \in D
    PROVE  SumFunction(w) = w[d] + SumFunction(Part(w, D \ {d}))
           /\ SumFunction(Part(w, D \ {d})) \in Int
<1> DEFINE U == D \ {d}
<1>1. PICK g : Additive(g, w)
  BY AdditiveExists
<1>2. /\ g \in [SUBSET D -> Int] /\ g[{}] = 0
      /\ \A s \in SUBSET D : \A x \in D \ s : g[s \cup {x}] = w[x] + g[s]
  BY <1>1 DEF Additive
<1> DEFINE h == [s \in SUBSET U |-> g[s]]
<1>3. h \in [SUBSET U -> Int] /\ h[{}] = 0
  BY <1>2
<1>4. ASSUME NEW s \in SUBSET U, NEW x \in U \ s PROVE h[s \cup {x}] = w[x] + h[s]
  <2>1. s \in SUBSET D /\ x \in D \ s /\ s \cup {x} \in SUBSET U
    OBVIOUS
  <2> QED
    BY <1>2, <2>1
<1>5. Part(w, U) \in [U -> Int] /\ \A x \in U : Part(w, U)[x] = w[x]
  BY DEF Part
<1>6. h[U] = g[U]
  OBVIOUS
<1> HIDE DEF h
<1>7. Additive(h, Part(w, U))
  BY <1>3, <1>4, <1>5 DEF Additive
<1>8. IsFiniteSet(U)
  BY FS_RemoveElement
<1>9. SumFunction(w) = g[D] /\ SumFunction(Part(w, U)) = h[U]
  BY <1>1, <1>5, <1>7, <1>8, SumIsAdditive
<1>10. g[U \cup {d}] = w[d] + g[U] /\ g[U] \in Int
  BY <1>2
<1>11. U \cup {d} = D
  OBVIOUS
<1> QED
  BY <1>6, <1>9, <1>10, <1>11
-----------------------------------------------------------------------------
(* Enumerations, and events applied in their order *)

\* Some natural number in a set is the least (induction over a sequence).
LEMMA LeastNatural ==
    ASSUME NEW S, S \subseteq Nat, S # {}
    PROVE  \E x \in S : \A y \in S : x <= y
<1> DEFINE R == {ss \in Nat \X Nat : ss[1] < ss[2]}
<1>1. IsWellFoundedOn(R, Nat)
  BY NatLessThanWellFounded DEF OpToRel
<1>2. ASSUME NEW x \in Nat, NEW y \in Nat, <<y, x>> \notin R PROVE x <= y
  BY <1>2
<1> HIDE DEF R
<1>3. PICK x \in S : \A y \in S : ~(<<y, x>> \in R)
  BY <1>1, WFMin
<1>4. \A y \in S : x <= y
  BY <1>2, <1>3
<1> QED
  BY <1>4

\* Times that are bounded have a latest one (Known, covered).
LEMMA LatestOne ==
    ASSUME NEW S, S \subseteq Int, S # {}, NEW b \in Int, \A x \in S : x <= b
    PROVE  Max(S) \in S /\ \A x \in S : x <= Max(S)
<1> DEFINE D == {b - x : x \in S}
<1>1. D \subseteq Nat /\ D # {}
  <2>1. \A x \in S : b - x \in Nat
    OBVIOUS
  <2> QED
    BY <2>1
<1>2. PICK d \in D : \A e \in D : d <= e
  <2> HIDE DEF D
  <2> QED
    BY <1>1, LeastNatural
<1>3. PICK x \in S : d = b - x
  OBVIOUS
<1>4. ASSUME NEW y \in S PROVE x >= y
  <2>1. b - x <= b - y
    BY <1>2, <1>3
  <2> QED
    BY <2>1
<1>5. Max(S) \in S /\ \A y \in S : Max(S) >= y
  BY <1>4 DEF Max
<1> QED
  BY <1>5

\* SetToSeq lists a set, each member once (the order of an export's rows).
LEMMA Listing ==
    ASSUME NEW S, IsFiniteSet(S)
    PROVE  /\ Cardinality(S) \in Nat
           /\ SetToSeq(S) \in [1..Cardinality(S) -> S]
           /\ \A x \in S : \E i \in 1..Cardinality(S) : SetToSeq(S)[i] = x
           /\ \A i, j \in 1..Cardinality(S) : SetToSeq(S)[i] = SetToSeq(S)[j] => i = j
<1> PICK n : n = Cardinality(S)
  OBVIOUS
<1>1. n \in Nat /\ ExistsBijection(1..n, S)
  BY FS_CardinalityType
<1>2. PICK f : f \in Bijection(1..n, S)
  BY <1>1 DEF ExistsBijection
<1>3. f \in [1..n -> S] /\ IsInjective(f)
  BY <1>2 DEF Bijection, Injection, IsInjective
<1>4. SetToSeq(S) \in [1..n -> S] /\ IsInjective(SetToSeq(S))
  BY <1>3 DEF SetToSeq
<1>5. SetToSeq(S) \in Injection(1..n, S)
  BY <1>4 DEF Injection, IsInjective
<1>6. SetToSeq(S) \in Surjection(1..n, S)
  <2>1. IsFiniteSet(1..n) /\ Cardinality(1..n) = n
    BY <1>1, FS_Interval
  <2> QED
    BY <1>5, <2>1, FS_Injection
<1> QED
  BY <1>1, <1>4, <1>5, <1>6 DEF Injection, Surjection, IsInjective

\* A strict total order puts every finite set in a row.
LEMMA RowInOrder ==
    ASSUME NEW E, IsFiniteSet(E), NEW R,
           \A e \in E : e \notin R[e],
           \A e, f \in E : e = f \/ e \in R[f] \/ f \in R[e],
           \A e, f, g \in E : e \in R[f] /\ f \in R[g] => e \in R[g]
    PROVE  \E s \in [1..Cardinality(E) -> E] :
              /\ \A i, j \in 1..Cardinality(E) : i < j => s[i] \in R[s[j]]
              /\ \A i, j \in 1..Cardinality(E) : s[i] = s[j] => i = j
<1> PICK n : n = Cardinality(E)
  OBVIOUS
<1>0. n \in Nat
  BY FS_CardinalityType
<1> DEFINE Below(e) == {f \in E : f = e \/ f \in R[e]}
           Place(e) == Cardinality(Below(e))
<1>1. ASSUME NEW e \in E PROVE IsFiniteSet(Below(e)) /\ Place(e) \in 1..n
  <2>1. Below(e) \in SUBSET E /\ e \in Below(e)
    OBVIOUS
  <2> HIDE DEF Below
  <2>2. IsFiniteSet(Below(e)) /\ Cardinality(Below(e)) <= n
    BY <2>1, FS_Subset
  <2>3. Cardinality(Below(e)) \in Nat
    BY <2>2, FS_CardinalityType
  <2>4. Cardinality(Below(e)) # 0
    BY <2>1, <2>2, FS_EmptySet
  <2> QED
    BY <1>0, <2>2, <2>3, <2>4
<1>2. ASSUME NEW e \in E, NEW f \in E, e \in R[f] PROVE Place(e) < Place(f)
  <2>1. Below(e) \in SUBSET Below(f) /\ f \in Below(f) /\ f \notin Below(e)
    <3>1. f \notin R[e]
      BY <1>2
    <3> QED
      BY <1>2, <3>1
  <2>2. IsFiniteSet(Below(f)) /\ Place(e) \in Int /\ Place(f) \in Int
    BY <1>1
  <2> HIDE DEF Below
  <2>3. Cardinality(Below(e)) <= Cardinality(Below(f))
        /\ (Cardinality(Below(e)) = Cardinality(Below(f)) => Below(e) = Below(f))
    BY <2>1, <2>2, FS_Subset
  <2> QED
    BY <2>1, <2>2, <2>3
<1> DEFINE p == [e \in E |-> Place(e)]
<1>3. p \in [E -> 1..n]
  BY <1>1
<1>4. ASSUME NEW e \in E, NEW f \in E, p[e] = p[f] PROVE e = f
  <2>1. p[e] = Place(e) /\ p[f] = Place(f) /\ Place(e) \in Int /\ Place(f) \in Int
    BY <1>1
  <2>2. e = f \/ e \in R[f] \/ f \in R[e]
    OBVIOUS
  <2>3. (e \in R[f] => Place(e) < Place(f)) /\ (f \in R[e] => Place(f) < Place(e))
    BY <1>2
  <2> HIDE DEF p, Place
  <2>4. Place(e) = Place(f)
    BY <1>4, <2>1
  <2>5. ~(Place(e) < Place(f)) /\ ~(Place(f) < Place(e))
    BY <2>1, <2>4
  <2> QED
    BY <2>2, <2>3, <2>5
<1>5. p \in Injection(E, 1..n)
  <2> HIDE DEF p
  <2> QED
    BY <1>3, <1>4 DEF Injection, IsInjective
<1>6. \A k \in 1..n : \E e \in E : p[e] = k
  <2>1. IsFiniteSet(1..n) /\ Cardinality(1..n) = n
    BY <1>0, FS_Interval
  <2> HIDE DEF p
  <2>2. p \in Surjection(E, 1..n)
    BY <1>5, <2>1, FS_Injection
  <2> QED
    BY <2>2 DEF Surjection
<1>7. \A e \in E : p[e] = Place(e)
  OBVIOUS
<1> HIDE DEF p, Place
<1> DEFINE s == [k \in 1..n |-> CHOOSE e \in E : p[e] = k]
<1>8. ASSUME NEW k \in 1..n PROVE s[k] \in E /\ p[s[k]] = k
  BY <1>6
<1>9. s \in [1..n -> E]
  BY <1>8
<1> HIDE DEF s
<1>10. ASSUME NEW i \in 1..n, NEW j \in 1..n, i < j PROVE s[i] \in R[s[j]]
  <2>1. s[i] \in E /\ s[j] \in E /\ Place(s[i]) = i /\ Place(s[j]) = j
    BY <1>7, <1>8
  <2>2. s[j] \in R[s[i]] => j < i
    BY <1>2, <2>1
  <2>3. s[i] = s[j] => i = j
    BY <2>1
  <2> QED
    BY <1>10, <2>1, <2>2, <2>3
<1>11. \A i, j \in 1..n : s[i] = s[j] => i = j
  BY <1>8
<1> QED
  BY <1>9, <1>10, <1>11

\* The events are applied one by one and none is left out
\* (evaluate_settlement_amendments sorted(..., key=...)).
LEMMA OrderListsAll ==
    ASSUME NEW E, IsFiniteSet(E), \A e \in E : e.at \in Int /\ e.id \in Int,
           \A e, f \in E : e.id = f.id => e = f
    PROVE  /\ Cardinality(E) \in Nat
           /\ InOrder(E) \in [1..Cardinality(E) -> E]
           /\ \A e \in E : \E i \in 1..Cardinality(E) : InOrder(E)[i] = e
<1> PICK n : n = Cardinality(E)
  OBVIOUS
<1>0. n \in Nat
  BY FS_CardinalityType
<1> DEFINE R == [f \in E |-> {e \in E : Before(e, f)}]
<1>1. \A e, f \in E : e \in R[f] <=> Before(e, f)
  OBVIOUS
<1> HIDE DEF R
<1>2. \A e \in E : e \notin R[e]
  BY <1>1 DEF Before
<1>a. \A e, f \in E : e = f \/ e \in R[f] \/ f \in R[e]
  BY <1>1 DEF Before
<1>b. \A e, f, g \in E : e \in R[f] /\ f \in R[g] => e \in R[g]
  BY <1>1 DEF Before
<1>3. PICK s \in [1..n -> E] : /\ \A i, j \in 1..n : i < j => s[i] \in R[s[j]]
                              /\ \A i, j \in 1..n : s[i] = s[j] => i = j
  BY <1>2, <1>a, <1>b, RowInOrder
<1>4. s \in SetToSeqs(E) /\ \A i, j \in DOMAIN s : i < j => Before(s[i], s[j])
  BY <1>1, <1>3 DEF SetToSeqs
<1>5. InOrder(E) \in SetToSeqs(E)
  BY <1>4 DEF InOrder
<1> PICK o : o = InOrder(E)
  OBVIOUS
<1>6. o \in [1..n -> E] /\ \A i, j \in 1..n : o[i] = o[j] => i = j
  BY <1>5 DEF SetToSeqs
<1>7. o \in Injection(1..n, E)
  BY <1>6 DEF Injection, IsInjective
<1>8. o \in Surjection(1..n, E)
  <2>1. IsFiniteSet(1..n) /\ Cardinality(1..n) = n
    BY <1>0, FS_Interval
  <2> QED
    BY <1>7, <2>1, FS_Injection
<1> QED
  BY <1>0, <1>6, <1>8 DEF Surjection

\* What a fold computes for every set of positions up to m.
Folds(h, base, seq, batch, m) ==
    h = [S \in SUBSET (1..m) |->
            IF S = {} THEN base ELSE Apply(h[S \ {Max(S)}], seq[Max(S)], batch)]

\* The last of some positions; it is the bound when the bound is among them.
LEMMA NewestPosition ==
    ASSUME NEW m \in Nat, NEW S, S \subseteq 1..m, S # {}
    PROVE  Max(S) \in S /\ (m \in S => Max(S) = m)
<1>1. S \subseteq Int /\ (\A x \in S : x <= m) /\ m \in Int
  OBVIOUS
<1>2. Max(S) \in S /\ \A x \in S : x <= Max(S)
  BY <1>1, LatestOne
<1>3. m \in S => m <= Max(S) /\ Max(S) <= m
  BY <1>1, <1>2
<1>4. Max(S) \in Int
  BY <1>1, <1>2
<1> QED
  BY <1>2, <1>3, <1>4

\* A fold over any number of positions has a value (FoldLeft is a CHOOSE of one).
LEMMA FoldExists ==
    ASSUME NEW base, NEW seq, NEW batch, NEW n \in Nat
    PROVE  \E h : Folds(h, base, seq, batch, n)
<1> DEFINE B == {m \in Nat : ~ \E h : Folds(h, base, seq, batch, m)}
<1> SUFFICES ASSUME B # {} PROVE FALSE
  OBVIOUS
<1>1. PICK m \in B : \A k \in B : m <= k
  <2>1. B \subseteq Nat
    OBVIOUS
  <2> HIDE DEF B
  <2> QED
    BY <2>1, LeastNatural
<1>2. CASE m = 0
  <2> PICK h : h = [S \in SUBSET (1..m) |-> base]
    OBVIOUS
  <2>1. \A S \in SUBSET (1..m) : S = {}
    BY <1>2
  <2>2. h = [S \in SUBSET (1..m) |->
               IF S = {} THEN base ELSE Apply(h[S \ {Max(S)}], seq[Max(S)], batch)]
    BY <2>1
  <2>3. Folds(h, base, seq, batch, m)
    BY <2>2 DEF Folds
  <2> QED
    BY <2>3
<1>3. CASE m # 0
  <2> PICK l : l = m - 1
    OBVIOUS
  <2>0. m \in Nat /\ l \in Nat /\ m = l + 1 /\ l \notin B
    BY <1>1, <1>3
  <2>1. PICK h : Folds(h, base, seq, batch, l)
    BY <2>0
  <2>2. \A S \in SUBSET (1..l) : h[S] =
           IF S = {} THEN base ELSE Apply(h[S \ {Max(S)}], seq[Max(S)], batch)
    BY <2>1 DEF Folds
  <2> DEFINE g == [S \in SUBSET (1..m) |->
                IF m \in S THEN Apply(h[S \ {m}], seq[m], batch) ELSE h[S]]
  <2>3. \A S \in SUBSET (1..m) :
           g[S] = IF m \in S THEN Apply(h[S \ {m}], seq[m], batch) ELSE h[S]
    OBVIOUS
  <2>4. g = [S \in SUBSET (1..m) |-> g[S]]
    OBVIOUS
  <2> HIDE DEF g
  <2>5. ASSUME NEW S \in SUBSET (1..m)
        PROVE  g[S] = IF S = {} THEN base ELSE Apply(g[S \ {Max(S)}], seq[Max(S)], batch)
    <3>1. CASE m \in S
      <4>1. Max(S) = m /\ S # {} /\ S \ {m} \in SUBSET (1..m) /\ m \notin S \ {m}
        BY <2>0, <3>1, NewestPosition
      <4>2. g[S \ {m}] = h[S \ {m}]
        BY <2>3, <4>1
      <4>3. g[S] = Apply(h[S \ {m}], seq[m], batch)
        BY <2>3, <3>1
      <4> QED
        BY <4>1, <4>2, <4>3
    <3>2. CASE m \notin S /\ S # {}
      <4>1. S \in SUBSET (1..l)
        BY <2>0, <3>2
      <4>2. S \ {Max(S)} \in SUBSET (1..m) /\ m \notin S \ {Max(S)}
        BY <3>2
      <4>3. g[S \ {Max(S)}] = h[S \ {Max(S)}] /\ g[S] = h[S]
        BY <2>3, <3>2, <4>2
      <4>4. h[S] = Apply(h[S \ {Max(S)}], seq[Max(S)], batch)
        BY <2>2, <3>2, <4>1
      <4> QED
        BY <3>2, <4>3, <4>4
    <3>3. CASE S = {}
      <4>1. S \in SUBSET (1..l)
        BY <3>3
      <4> QED
        BY <2>2, <2>3, <3>3, <4>1
    <3> QED
      BY <3>1, <3>2, <3>3
  <2>6. Folds(g, base, seq, batch, m)
    BY <2>4, <2>5 DEF Folds
  <2> QED
    BY <2>6
<1> QED
  BY <1>2, <1>3

\* The states that the loop of _apply_events_once goes through.
Applied(st, batch, seq, n) ==
    st[0] = Original(batch) /\ \A k \in 1..n : st[k] = Apply(st[k - 1], seq[k], batch)

\* Final is the last state of the loop, whatever the batch and the events.
LEMMA FinalIsReached ==
    ASSUME NEW batch, NEW E, NEW n \in Nat, NEW X, InOrder(E) \in [1..n -> X]
    PROVE  \E st : Applied(st, batch, InOrder(E), n) /\ Final(batch, E) = st[n]
<1> PICK seq : seq = InOrder(E)
  OBVIOUS
<1> PICK base : base = Original(batch)
  OBVIOUS
<1>1. DOMAIN seq = 1..n
  OBVIOUS
<1>2. PICK h : Folds(h, base, seq, batch, n)
  BY FoldExists
<1> PICK it : it = CHOOSE i : Folds(i, base, seq, batch, n)
  OBVIOUS
<1>3. Folds(it, base, seq, batch, n)
  BY <1>2
<1>4. Final(batch, E) = it[1..n]
  BY <1>1 DEF Final, FoldLeft, MapThenFoldSet, Folds
<1>5. \A S \in SUBSET (1..n) : it[S] =
           IF S = {} THEN base ELSE Apply(it[S \ {Max(S)}], seq[Max(S)], batch)
  BY <1>3 DEF Folds
<1> DEFINE st == [k \in 0..n |-> it[1..k]]
<1>6. \A k \in 0..n : st[k] = it[1..k]
  OBVIOUS
<1> HIDE DEF st
<1>7. st[0] = base
  <2>1. 1..0 = {} /\ 1..0 \in SUBSET (1..n) /\ 0 \in 0..n
    OBVIOUS
  <2> QED
    BY <1>5, <1>6, <2>1
<1>8. ASSUME NEW k \in 1..n PROVE st[k] = Apply(st[k - 1], seq[k], batch)
  <2>1. 1..k \in SUBSET (1..n) /\ k \in 1..k /\ k \in 0..n /\ k - 1 \in 0..n /\ k \in Nat
    OBVIOUS
  <2>2. Max(1..k) = k /\ 1..k # {}
    BY <2>1, NewestPosition
  <2>3. (1..k) \ {k} = 1..(k - 1)
    OBVIOUS
  <2>4. it[1..k] = Apply(it[1..(k - 1)], seq[k], batch)
    BY <1>5, <2>1, <2>2, <2>3
  <2> QED
    BY <1>6, <2>1, <2>4
<1>9. Applied(st, batch, seq, n)
  BY <1>7, <1>8 DEF Applied
<1>10. Final(batch, E) = st[n]
  BY <1>4, <1>6
<1> QED
  BY <1>9, <1>10

-----------------------------------------------------------------------------
(* The inductive invariant *)

Statuses == {SaleOf[s].first : s \in Sales}
    \cup {"confirmed", "rejected", "paid", "refunded", "charged_back"}
Entries == [status : Statuses, at : Nat, receipt : Sales \X Nat]
SaleRecords == [history : Seq(Entries), reversed : Nat]

\* The network's record of a sale goes forward in time, from its first status.
RecordHolds(s) ==
    LET h == sales[s].history IN
    /\ h # <<>> /\ h[1].at = 0
    /\ \A i, j \in DOMAIN h : i < j => h[i].at < h[j].at
    /\ \A i \in DOMAIN h : h[i].at <= now
    /\ sales[s].reversed \in (0..now) \cup {Never}

SalesHold ==
    /\ now \in 0..MaxTime /\ sales \in [Sales -> SaleRecords]
    /\ \A s \in Sales : RecordHolds(s)

\* A batch says of every sale what the network knew at the end of the window: its
\* status and whether it had been reversed.
BatchIsTrue(batch) ==
    /\ batch.partners = Partners
    /\ Rows(batch.transactions) = {Transaction(s, Plan.ended) : s \in Sales}
    /\ Reversed(batch) = {s \in Sales : sales[s].reversed <= Plan.ended}

PacketIsTrue == BatchIsTrue(packet.batches.cohort)
MeasuredIsTrue == measured # None => Plan.ended < now /\ PacketIsTrue

\* Amendments are about times after the window that are over.
AmendmentsFollow ==
    /\ amendments # {} => measured # None
    /\ observation # None => measured # None
    /\ \A a \in amendments : a.observed \in Nat /\ Plan.ended < a.observed /\ a.observed < now

\* A complete amendment stays complete: what happens now is later than it covers.
CompleteHasAll ==
    \A q \in attestations :
        /\ q.amendment \in amendments /\ q.observed = q.amendment.observed
        /\ IsComplete(q) => q.amendment.events = LaterEvents(q.observed)

SettlementInvariant == SalesHold /\ MeasuredIsTrue /\ AmendmentsFollow /\ CompleteHasAll

-----------------------------------------------------------------------------
(* Records only grow, now *)

\* The types of the record of a sale, as the later proofs cite them.
LEMMA RecordTypes ==
    ASSUME SalesHold, NEW s \in Sales
    PROVE  /\ sales[s].history \in Seq(Entries) /\ Len(sales[s].history) \in Nat \ {0}
           /\ DOMAIN sales[s].history = 1..Len(sales[s].history)
           /\ \A n \in 1..Len(sales[s].history) :
                 sales[s].history[n] \in Entries /\ sales[s].history[n].at \in Nat
           /\ sales[s].reversed \in Nat /\ now \in Nat /\ MaxTime \in Nat /\ now <= MaxTime
<1>1. sales[s] \in SaleRecords /\ sales[s].history # <<>> /\ now \in 0..MaxTime
  BY DEF SalesHold, RecordHolds
<1> PICK h : h = sales[s].history
  OBVIOUS
<1>2. h \in Seq(Entries) /\ h # <<>> /\ sales[s].reversed \in Nat
  BY <1>1 DEF SaleRecords
<1>3. Len(h) \in Nat /\ Len(h) # 0 /\ DOMAIN h = 1..Len(h) /\ \A n \in 1..Len(h) : h[n] \in Entries
  BY <1>2
<1>4. \A n \in 1..Len(h) : h[n].at \in Nat
  BY <1>3 DEF Entries
<1> QED
  BY <1>1, <1>2, <1>3, <1>4, TimesAreNumbers

\* What was known of a sale at a time is its first Known entries.
LEMMA KnownIsPrefix ==
    ASSUME SalesHold, NEW s \in Sales, NEW t \in Nat
    PROVE  /\ Known(s, t) \in DOMAIN sales[s].history
           /\ \A n \in DOMAIN sales[s].history :
                 sales[s].history[n].at <= t <=> n <= Known(s, t)
<1> PICK h : h = sales[s].history
  OBVIOUS
<1> PICK S : S = {n \in DOMAIN h : h[n].at <= t}
  OBVIOUS
<1>1. /\ Len(h) \in Nat \ {0} /\ DOMAIN h = 1..Len(h) /\ \A n \in 1..Len(h) : h[n].at \in Nat
  BY RecordTypes
<1>2. h[1].at = 0 /\ \A i, j \in DOMAIN h : i < j => h[i].at < h[j].at
  BY DEF SalesHold, RecordHolds
<1>3. S \subseteq Int /\ S # {} /\ (\A n \in S : n <= Len(h)) /\ Len(h) \in Int
  <2>1. 1 \in S
    BY <1>1, <1>2
  <2> QED
    BY <1>1, <2>1
<1>4. Max(S) \in S /\ \A n \in S : n <= Max(S)
  BY <1>3, LatestOne
<1>5. Known(s, t) = Max(S)
  BY DEF Known
<1> PICK k : k = Max(S)
  OBVIOUS
<1>6. ASSUME NEW n \in DOMAIN h, n <= k PROVE h[n].at <= t
  <2>1. k \in DOMAIN h /\ h[k].at <= t /\ (n = k \/ n < k)
    BY <1>1, <1>4, <1>6
  <2>2. h[n].at \in Nat /\ h[k].at \in Nat
    BY <1>1, <2>1
  <2>3. n < k => h[n].at < h[k].at
    BY <1>2, <2>1
  <2>4. CASE n < k
    <3>1. h[n].at < h[k].at /\ h[k].at <= t
      BY <2>1, <2>3, <2>4
    <3> QED
      BY <2>2, <3>1
  <2> QED
    BY <2>1, <2>4
<1> QED
  BY <1>4, <1>5, <1>6

\* A step adds to the record of a sale an entry of this time, or nothing.
RecordGrows(s) ==
    /\ \/ sales'[s].history = sales[s].history
       \/ \E e \in Entries : e.at = now /\ sales'[s].history = Append(sales[s].history, e)
    /\ \/ sales'[s].reversed = sales[s].reversed
       \/ sales[s].reversed = Never /\ sales'[s].reversed = now

\* Of two positions the first is not the last (Append of a status event).
LEMMA LastOrBefore ==
    ASSUME NEW n \in Nat, NEW i \in 1..(n + 1), NEW j \in 1..(n + 1), i < j
    PROVE  i \in 1..n /\ (j \in 1..n \/ j = n + 1)
OBVIOUS

\* Times are compared through a third one.
LEMMA Earlier ==
    ASSUME NEW a \in Nat, NEW b \in Nat, NEW c \in Nat, a <= b, b < c
    PROVE  a < c /\ a <= c
OBVIOUS

\* The network can only say something new (Change, ReverseSale).
LEMMA RecordsGrow ==
    ASSUME SalesHold, [Next]_vars
    PROVE  SalesHold' /\ \A s \in Sales : RecordGrows(s)
<1>0. now \in 0..MaxTime /\ sales \in [Sales -> SaleRecords] /\ \A s \in Sales : RecordHolds(s)
  BY DEF SalesHold
<1>t. MaxTime \in Nat
  BY TimesAreNumbers
<1>1. ASSUME NEW s \in Sales, NEW to \in {"confirmed", "rejected", "paid", "refunded", "charged_back"},
             Change(s, to)
      PROVE  SalesHold' /\ \A u \in Sales : RecordGrows(u)
  <2> PICK h : h = sales[s].history
    OBVIOUS
  <2> PICK n : n = Len(h)
    OBVIOUS
  <2> PICK e : e = [status |-> to, at |-> now, receipt |-> <<s, n + 1>>]
    OBVIOUS
  <2>1. h \in Seq(Entries) /\ n \in Nat \ {0} /\ now \in Nat
    BY RecordTypes
  <2>2. e \in Entries /\ e.at = now
    <3>1. to \in Statuses /\ <<s, n + 1>> \in Sales \X Nat
      BY <2>1 DEF Statuses
    <3> QED
      BY <2>1, <3>1 DEF Entries
  <2>3. sales' = [sales EXCEPT ![s].history = Append(h, e)] /\ now' = now /\ Last(h).at < now
    BY <1>1 DEF Change
  <2>4. Append(h, e) \in Seq(Entries) /\ Len(Append(h, e)) = n + 1
        /\ (\A i \in 1..n : Append(h, e)[i] = h[i]) /\ Append(h, e)[n + 1] = e
    BY <2>1, <2>2
  <2>5. sales[s] \in SaleRecords
    BY <1>0
  <2>6. sales'[s] = [sales[s] EXCEPT !.history = Append(h, e)]
        /\ \A u \in Sales : u # s => sales'[u] = sales[u]
    BY <1>0, <2>3
  <2>7. sales'[s].history = Append(h, e) /\ sales'[s].reversed = sales[s].reversed
    BY <2>5, <2>6 DEF SaleRecords
  <2>8. sales'[s] \in SaleRecords
    BY <2>4, <2>5, <2>6 DEF SaleRecords
  <2>9. sales' \in [Sales -> SaleRecords]
    BY <1>0, <2>3, <2>6, <2>8
  <2>10. RecordHolds(s)'
    <3> PICK g : g = Append(h, e)
      OBVIOUS
    <3>1. g # <<>> /\ DOMAIN g = 1..(n + 1) /\ DOMAIN h = 1..n
      <4>1. g \in Seq(Entries) /\ Len(g) = n + 1 /\ Len(g) # 0
        BY <2>1, <2>4
      <4>2. DOMAIN g = 1..Len(g) /\ DOMAIN h = 1..n
        BY <2>1, <4>1
      <4> QED
        BY <4>1, <4>2
    <3>2. h[1].at = 0 /\ (\A i, j \in DOMAIN h : i < j => h[i].at < h[j].at)
          /\ (\A i \in DOMAIN h : h[i].at <= now) /\ sales[s].reversed \in (0..now) \cup {Never}
      BY <1>0 DEF RecordHolds
    <3>3. h[n].at < now /\ \A i \in 1..n : h[i].at \in Nat
      BY <2>1, <2>3, RecordTypes DEF Last
    <3>4. g[1].at = 0
      BY <2>1, <2>4, <3>2
    <3>5. \A i \in DOMAIN g : g[i].at <= now
      BY <2>1, <2>2, <2>4, <3>1, <3>2
    <3>6. ASSUME NEW i \in DOMAIN g, NEW j \in DOMAIN g, i < j PROVE g[i].at < g[j].at
      <4>8. i \in 1..(n + 1) /\ j \in 1..(n + 1) /\ n \in Nat
        BY <2>1, <3>1
      <4>9. i < j
        BY <3>6
      <4>1. i \in 1..n /\ (j \in 1..n \/ j = n + 1)
        BY <4>8, <4>9, LastOrBefore
      <4>2. CASE j \in 1..n
        BY <2>4, <3>1, <3>2, <3>6, <4>1, <4>2
      <4>3. CASE j = n + 1
        <5>1. g[i].at = h[i].at /\ g[j].at = now
          BY <2>2, <2>4, <4>1, <4>3
        <5>2. h[i].at <= h[n].at
          <6>1. (i = n \/ i < n) /\ n \in 1..n
            BY <2>1, <4>1
          <6>2. n \in DOMAIN h /\ i \in DOMAIN h /\ h[i].at \in Nat /\ h[n].at \in Nat
            BY <3>1, <3>3, <4>1, <6>1
          <6>3. CASE i < n
            <7>1. h[i].at < h[n].at
              BY <3>2, <6>2, <6>3
            <7> QED
              BY <6>2, <7>1
          <6>4. CASE i = n
            BY <6>2, <6>4
          <6> QED
            BY <6>1, <6>3, <6>4
        <5>3. h[i].at \in Nat /\ h[n].at \in Nat /\ now \in Nat
          BY <2>1, <3>3, <4>1
        <5>4. h[i].at < now
          <6>1. h[n].at < now
            BY <3>3
          <6> QED
            BY <5>2, <5>3, <6>1, Earlier
        <5> QED
          BY <5>1, <5>4
      <4> QED
        BY <4>1, <4>2, <4>3
    <3> QED
      BY <2>3, <2>7, <3>1, <3>2, <3>4, <3>5, <3>6 DEF RecordHolds, Never
  <2>11. ASSUME NEW u \in Sales, u # s PROVE RecordHolds(u)'
    BY <1>0, <2>3, <2>6, <2>11 DEF RecordHolds, Never
  <2>12. \A u \in Sales : RecordGrows(u)
    <3>1. ASSUME NEW u \in Sales PROVE RecordGrows(u)
      <4>1. CASE u = s
        BY <2>2, <2>7, <4>1 DEF RecordGrows
      <4>2. CASE u # s
        BY <2>6, <4>2 DEF RecordGrows
      <4> QED
        BY <4>1, <4>2
    <3> QED
      BY <3>1
  <2> QED
    BY <1>0, <2>3, <2>9, <2>10, <2>11, <2>12 DEF SalesHold
<1>2. ASSUME NEW s \in Sales, ReverseSale(s) PROVE SalesHold' /\ \A u \in Sales : RecordGrows(u)
  <2>1. sales' = [sales EXCEPT ![s].reversed = now] /\ now' = now /\ sales[s].reversed = Never
    BY <1>2 DEF ReverseSale
  <2>2. sales'[s] = [sales[s] EXCEPT !.reversed = now] /\ \A u \in Sales : u # s => sales'[u] = sales[u]
    BY <1>0, <2>1
  <2>3. sales[s] \in SaleRecords /\ now \in Nat
    BY <1>0
  <2>4. sales'[s].history = sales[s].history /\ sales'[s].reversed = now /\ sales'[s] \in SaleRecords
    BY <2>2, <2>3 DEF SaleRecords
  <2>5. sales' \in [Sales -> SaleRecords]
    BY <1>0, <2>1, <2>2, <2>4
  <2>6. RecordHolds(s)'
    BY <1>0, <2>1, <2>3, <2>4 DEF RecordHolds, Never
  <2>7. ASSUME NEW u \in Sales, u # s PROVE RecordHolds(u)'
    BY <1>0, <2>1, <2>2, <2>7 DEF RecordHolds, Never
  <2>8. ASSUME NEW u \in Sales PROVE RecordGrows(u)
    BY <2>1, <2>2, <2>4 DEF RecordGrows
  <2> QED
    BY <1>0, <2>1, <2>5, <2>6, <2>7, <2>8 DEF SalesHold
<1>3. ASSUME Tick PROVE SalesHold' /\ \A u \in Sales : RecordGrows(u)
  <2>1. now < MaxTime /\ now' = now + 1 /\ sales' = sales
    BY <1>3 DEF Tick
  <2>2. now' \in 0..MaxTime /\ now \in Nat
    BY <1>0, <1>t, <2>1
  <2>3. ASSUME NEW u \in Sales PROVE RecordHolds(u)'
    <3>1. RecordHolds(u) /\ \A i \in DOMAIN sales[u].history : sales[u].history[i].at \in Nat
      BY <1>0, RecordTypes
    <3> QED
      BY <1>0, <2>1, <2>2, <3>1 DEF RecordHolds, Never
  <2> QED
    BY <1>0, <2>1, <2>2, <2>3 DEF SalesHold, RecordGrows
<1>4. ASSUME UNCHANGED <<now, sales>> PROVE SalesHold' /\ \A u \in Sales : RecordGrows(u)
  <2>1. ASSUME NEW u \in Sales PROVE RecordHolds(u)'
    BY <1>0, <1>4 DEF RecordHolds, Never
  <2> QED
    BY <1>0, <1>4, <2>1 DEF SalesHold, RecordGrows
<1>5. ASSUME \/ \E o \in OperationsBatches, f \in Flaws : Measure(o, f)
             \/ \E a \in Activities : Ingest(a)
             \/ \E t \in 0..MaxTime : Amend(t)
             \/ \E a \in amendments : Attest(a)
             \/ UNCHANGED vars
      PROVE  UNCHANGED <<now, sales>>
  BY <1>5 DEF Measure, Ingest, Amend, Attest, vars
<1> QED
  BY <1>1, <1>2, <1>3, <1>4, <1>5 DEF Next

\* What was known at a time that is over stays what was known.
LEMMA PastIsKept ==
    ASSUME SalesHold, NEW s \in Sales, RecordGrows(s), NEW t \in Nat, t < now
    PROVE  /\ Known(s, t)' = Known(s, t) /\ HistoryAt(s, t)' = HistoryAt(s, t)
           /\ StatusAt(s, t)' = StatusAt(s, t)
           /\ sales'[s].reversed <= t <=> sales[s].reversed <= t
           /\ sales'[s].reversed <= t => sales'[s].reversed = sales[s].reversed
           /\ {m \in 2..Len(sales'[s].history) :
                  Plan.ended < sales'[s].history[m].at /\ sales'[s].history[m].at <= t}
              = {m \in 2..Len(sales[s].history) :
                  Plan.ended < sales[s].history[m].at /\ sales[s].history[m].at <= t}
           /\ \A m \in 1..Len(sales[s].history) : sales'[s].history[m] = sales[s].history[m]
<1> PICK h : h = sales[s].history
  OBVIOUS
<1> PICK g : g = sales'[s].history
  OBVIOUS
<1> PICK n : n = Len(h)
  OBVIOUS
<1>1. /\ h \in Seq(Entries) /\ n \in Nat \ {0} /\ DOMAIN h = 1..n
      /\ now \in Nat /\ now <= MaxTime /\ MaxTime \in Nat /\ sales[s].reversed \in Nat
  BY RecordTypes
<1>2. /\ \A i \in 1..n : g[i] = h[i]
      /\ DOMAIN g = 1..Len(g) /\ g \in Seq(Entries)
      /\ \/ Len(g) = n
         \/ Len(g) = n + 1 /\ g[n + 1].at = now
  <2>1. CASE g = h
    BY <1>1, <2>1
  <2>2. CASE \E e \in Entries : e.at = now /\ g = Append(h, e)
    <3> PICK e \in Entries : e.at = now /\ g = Append(h, e)
      BY <2>2
    <3>1. g \in Seq(Entries) /\ Len(g) = n + 1 /\ g[n + 1] = e /\ \A i \in 1..n : g[i] = h[i]
      BY <1>1
    <3>2. DOMAIN g = 1..Len(g)
      BY <3>1
    <3> QED
      BY <3>1, <3>2
  <2> QED
    BY <2>1, <2>2 DEF RecordGrows
<1>3. ASSUME NEW i \in DOMAIN g, g[i].at <= t PROVE i \in 1..n
  <2>1. CASE Len(g) = n + 1 /\ i = n + 1
    <3>1. now <= t
      BY <1>2, <1>3, <2>1
    <3> QED
      BY <1>1, <3>1
  <2>2. CASE Len(g) = n + 1 /\ i # n + 1
    BY <1>1, <1>2, <2>2
  <2>3. CASE Len(g) = n
    BY <1>2, <2>3
  <2> QED
    BY <1>2, <2>1, <2>2, <2>3
<1>4. 1..n \subseteq DOMAIN g
  BY <1>1, <1>2
<1>5. {i \in DOMAIN g : g[i].at <= t} = {i \in DOMAIN h : h[i].at <= t}
  BY <1>1, <1>2, <1>3, <1>4
<1>6. Known(s, t)' = Known(s, t)
  BY <1>5 DEF Known
<1> PICK k : k = Known(s, t)
  OBVIOUS
<1>7. k \in 1..n
  BY <1>1, KnownIsPrefix
<1>8. g[k] = h[k] /\ StatusAt(s, t)' = StatusAt(s, t)
  BY <1>2, <1>6, <1>7 DEF StatusAt
<1>9. SubSeq(g, 1, k) = SubSeq(h, 1, k)
  <2>1. k <= Len(g) /\ k <= Len(h) /\ k \in Nat
    BY <1>1, <1>2, <1>7
  <2>2. SubSeq(g, 1, k) = [i \in 1..k |-> g[i]] /\ SubSeq(h, 1, k) = [i \in 1..k |-> h[i]]
    BY <1>1, <1>2, <1>7, <2>1, SubSeqProperties
  <2>3. \A i \in 1..k : g[i] = h[i]
    BY <1>1, <1>2, <1>7
  <2> QED
    BY <2>2, <2>3
<1>10. HistoryAt(s, t)' = HistoryAt(s, t)
  BY <1>6, <1>9 DEF HistoryAt
<1>11. CASE sales'[s].reversed = sales[s].reversed
  <2>1. {m \in 2..Len(g) : Plan.ended < g[m].at /\ g[m].at <= t}
        = {m \in 2..Len(h) : Plan.ended < h[m].at /\ h[m].at <= t}
    <3>1. \A m \in 2..Len(g) : g[m].at <= t => m \in 2..n
      BY <1>1, <1>2, <1>3
    <3>2. \A m \in 2..n : m \in 2..Len(g) /\ g[m] = h[m]
      BY <1>1, <1>2
    <3> QED
      BY <3>1, <3>2
  <2> QED
    BY <1>2, <1>6, <1>8, <1>10, <1>11, <2>1
<1>12. CASE sales[s].reversed = Never /\ sales'[s].reversed = now
  <2>1. {m \in 2..Len(g) : Plan.ended < g[m].at /\ g[m].at <= t}
        = {m \in 2..Len(h) : Plan.ended < h[m].at /\ h[m].at <= t}
    <3>1. \A m \in 2..Len(g) : g[m].at <= t => m \in 2..n
      BY <1>1, <1>2, <1>3
    <3>2. \A m \in 2..n : m \in 2..Len(g) /\ g[m] = h[m]
      BY <1>1, <1>2
    <3> QED
      BY <3>1, <3>2
  <2>2. ~(now <= t) /\ ~(Never <= t)
    BY <1>1 DEF Never
  <2> QED
    BY <1>2, <1>6, <1>8, <1>10, <1>12, <2>1, <2>2
<1> QED
  BY <1>11, <1>12 DEF RecordGrows

\* So are the events of that time, and a batch that was true of it.
LEMMA EventsAreKept ==
    ASSUME SalesHold, \A s \in Sales : RecordGrows(s), NEW t \in Nat, t < now, packet' = packet
    PROVE  LaterEvents(t)' = LaterEvents(t)
<1>1. ASSUME NEW s \in Sales
      PROVE  StatusEvents(s, t)' = StatusEvents(s, t) /\ Adjustments(s, t)' = Adjustments(s, t)
  <2> PICK h : h = sales[s].history
    OBVIOUS
  <2> PICK g : g = sales'[s].history
    OBVIOUS
  <2> PICK N : N = {m \in 2..Len(h) : Plan.ended < h[m].at /\ h[m].at <= t}
    OBVIOUS
  <2>0. /\ N = {m \in 2..Len(g) : Plan.ended < g[m].at /\ g[m].at <= t}
        /\ \A m \in 1..Len(h) : g[m] = h[m]
        /\ sales'[s].reversed <= t <=> sales[s].reversed <= t
        /\ sales'[s].reversed <= t => sales'[s].reversed = sales[s].reversed
    BY PastIsKept
  <2>1. AsMeasured(s)' = AsMeasured(s)
    BY DEF AsMeasured
  <2>2. \A n \in N : n \in 1..Len(h) /\ n - 1 \in 1..Len(h)
    BY RecordTypes
  <2> PICK r : r = AsMeasured(s)
    OBVIOUS
  <2> DEFINE Event(f, n) ==
        [id |-> IdOf(s, n), kind |-> "status", transaction |-> s, original |-> r,
         from |-> f[n - 1].status, to |-> f[n].status, receipt |-> f[n].receipt, at |-> f[n].at]
  <2>3. StatusEvents(s, t) = {Event(h, n) : n \in N}
    BY DEF StatusEvents
  <2>4. StatusEvents(s, t)' = {Event(g, n) : n \in N}
    BY <2>0, <2>1 DEF StatusEvents, IdOf
  <2>5. \A n \in N : Event(g, n) = Event(h, n)
    BY <2>0, <2>2
  <2> HIDE DEF Event
  <2>6. StatusEvents(s, t)' = StatusEvents(s, t)
    BY <2>3, <2>4, <2>5
  <2>7. sales[s].reversed \in Nat /\ Plan.ended \in Nat /\ now \in Nat
    BY RecordTypes, TimesAreNumbers
  <2>8. sales'[s].reversed \in (Plan.ended + 1)..t <=> sales[s].reversed \in (Plan.ended + 1)..t
    <3>1. sales'[s].reversed \in Nat
      BY <2>7 DEF RecordGrows
    <3> QED
      BY <2>0, <2>7, <3>1
  <2>9. sales'[s].reversed \in (Plan.ended + 1)..t => sales'[s].reversed = sales[s].reversed
    BY <2>0, <2>7
  <2>10. Adjustments(s, t)' = Adjustments(s, t)
    BY <2>1, <2>8, <2>9 DEF Adjustments, IdOf
  <2> QED
    BY <2>6, <2>10
<1> QED
  BY <1>1 DEF LaterEvents

\* A packet about a window that is over stays true of it.
LEMMA PacketStaysTrue ==
    ASSUME SalesHold, \A s \in Sales : RecordGrows(s), packet' = packet,
           Plan.ended < now, PacketIsTrue
    PROVE  PacketIsTrue'
<1>1. ASSUME NEW s \in Sales
      PROVE  /\ Transaction(s, Plan.ended)' = Transaction(s, Plan.ended)
             /\ sales'[s].reversed <= Plan.ended <=> sales[s].reversed <= Plan.ended
  <2>1. /\ HistoryAt(s, Plan.ended)' = HistoryAt(s, Plan.ended)
        /\ StatusAt(s, Plan.ended)' = StatusAt(s, Plan.ended)
        /\ sales'[s].reversed <= Plan.ended <=> sales[s].reversed <= Plan.ended
    BY PastIsKept, TimesAreNumbers
  <2> QED
    BY <2>1 DEF Transaction
<1> QED
  BY <1>1 DEF PacketIsTrue, BatchIsTrue, Partners, Rows, Reversed

-----------------------------------------------------------------------------
(* The measured packet *)

\* Without its first row a list of amounts has another sum (StatementHolds).
LEMMA TailIsLess ==
    ASSUME NEW X, NEW rows \in Seq(X), rows # <<>>,
           \A i \in 1..Len(rows) : rows[i].amount \in Nat \ {0}
    PROVE  AmountOf(Tail(rows)) # AmountOf(rows)
<1> PICK n : n = Len(rows)
  OBVIOUS
<1>1. n \in Nat \ {0} /\ DOMAIN rows = 1..n /\ 1 \in 1..n
  BY EmptySeq
<1>2. DOMAIN Tail(rows) = 1..(n - 1) /\ \A i \in 1..(n - 1) : Tail(rows)[i] = rows[i + 1]
  BY <1>1
<1> DEFINE w == [i \in 1..n |-> rows[i].amount]
           v == [i \in 1..(n - 1) |-> rows[i + 1].amount]
           f == [i \in 1..(n - 1) |-> i + 1]
           U == (1..n) \ {1}
<1>3. AmountOf(rows) = SumFunction(w) /\ AmountOf(Tail(rows)) = SumFunction(v)
  BY <1>1, <1>2 DEF AmountOf
<1>4. w \in [1..n -> Int] /\ w[1] \in Nat \ {0} /\ IsFiniteSet(1..n)
  <2>1. n \in Int /\ 1 \in Int
    BY <1>1
  <2>2. IsFiniteSet(1..n)
    BY <2>1, FS_Interval
  <2> QED
    BY <1>1, <2>2
<1>5. SumFunction(w) = w[1] + SumFunction(Part(w, U)) /\ SumFunction(Part(w, U)) \in Int
  <2> HIDE DEF w
  <2> QED
    BY <1>1, <1>4, SumSplits
<1>6. \A i \in 1..(n - 1) : i + 1 \in U /\ rows[i + 1].amount \in Int
  BY <1>1
<1>7. v \in [1..(n - 1) -> Int] /\ f \in [1..(n - 1) -> U] /\ IsFiniteSet(1..(n - 1))
  <2>1. n - 1 \in Int /\ 1 \in Int
    BY <1>1
  <2>2. IsFiniteSet(1..(n - 1))
    BY <2>1, FS_Interval
  <2> QED
    BY <1>6, <2>2
<1>8. Part(w, U) \in [U -> Int] /\ \A x \in U : Part(w, U)[x] = rows[x].amount
  BY <1>4 DEF Part
<1>9. \A x \in U : \E i \in 1..(n - 1) : f[i] = x
  <2>1. ASSUME NEW x \in U PROVE x - 1 \in 1..(n - 1) /\ f[x - 1] = x
    <3>1. x - 1 \in 1..(n - 1) /\ (x - 1) + 1 = x
      BY <1>1
    <3> QED
      BY <3>1
  <2> QED
    BY <2>1
<1>10. \A i, j \in 1..(n - 1) : f[i] = f[j] => i = j
  <2>1. \A i \in 1..(n - 1) : f[i] = i + 1
    OBVIOUS
  <2> QED
    BY <2>1
<1>11. \A i \in 1..(n - 1) : v[i] = Part(w, U)[f[i]]
  BY <1>6, <1>8
<1> HIDE DEF v, w, f, U
<1>12. SumFunction(v) = SumFunction(Part(w, U))
  <2> PICK A : A = 1..(n - 1)
    OBVIOUS
  <2> PICK B : B = U
    OBVIOUS
  <2> PICK V : V = v
    OBVIOUS
  <2> PICK W : W = Part(w, U)
    OBVIOUS
  <2> PICK F : F = f
    OBVIOUS
  <2>1. IsFiniteSet(A)
    BY <1>7
  <2>2. V \in [A -> Int]
    BY <1>7
  <2>3. W \in [B -> Int]
    BY <1>8
  <2>4. F \in [A -> B]
    BY <1>7
  <2>5. \A x \in B : \E i \in A : F[i] = x
    BY <1>9
  <2>6. \A i, j \in A : F[i] = F[j] => i = j
    BY <1>10
  <2>7. \A i \in A : V[i] = W[F[i]]
    BY <1>11
  <2>8. Renames(F, A, V, B, W)
    BY <2>2, <2>3, <2>4, <2>5, <2>6, <2>7 DEF Renames
  <2>9. SumFunction(V) = SumFunction(W)
    BY <2>1, <2>8, SumTransfer
  <2> QED
    BY <2>9
<1> QED
  BY <1>3, <1>4, <1>5, <1>12

\* A flawed export of statuses is refused or says the same (TransactionHolds).
LEMMA StatusIsTrue ==
    ASSUME SalesHold, NEW s \in Sales, NEW t \in Nat, NEW r,
           r = Transaction(s, t) \/ r = [Transaction(s, t) EXCEPT !.status = SaleOf[s].first],
           TransactionHolds(r)
    PROVE  r = Transaction(s, t)
<1> PICK h : h = sales[s].history
  OBVIOUS
<1> PICK k : k = Known(s, t)
  OBVIOUS
<1>1. h \in Seq(Entries) /\ DOMAIN h = 1..Len(h) /\ k \in DOMAIN h /\ Len(h) \in Nat
  BY KnownIsPrefix, RecordTypes
<1>2. HistoryAt(s, t) = SubSeq(h, 1, k) /\ StatusAt(s, t) = h[k].status
  BY DEF HistoryAt, StatusAt
<1>3. \A i \in 1..k : h[i] \in Entries
  BY <1>1
<1>4. Len(SubSeq(h, 1, k)) = k /\ SubSeq(h, 1, k)[k] = h[k]
  BY <1>1, <1>3, SubSeqProperties
<1>5. r.history = HistoryAt(s, t)
  BY DEF Transaction
<1>6. r.status = StatusAt(s, t)
  BY <1>2, <1>4, <1>5 DEF TransactionHolds
<1>7. CASE r = [Transaction(s, t) EXCEPT !.status = SaleOf[s].first]
  BY <1>6, <1>7 DEF Transaction
<1> QED
  BY <1>7

\* The parts of an export that matter here.
LEMMA CohortParts ==
    ASSUME NEW flaw
    PROVE  LET e == Plan.ended
               o == SetToSeq({s \in Sales : sales[s].reversed <= e})
               rv == [i \in DOMAIN o |-> Reversal(o[i])]
           IN /\ Cohort(flaw).partners = Partners
              /\ Cohort(flaw).transactions = [i \in DOMAIN Order |->
                    IF flaw = "stale"
                    THEN [Transaction(Order[i], e) EXCEPT !.status = SaleOf[Order[i]].first]
                    ELSE Transaction(Order[i], e)]
              /\ Cohort(flaw).adjustments =
                    IF flaw = "reversal" /\ rv # <<>> THEN Tail(rv) ELSE rv
              /\ Cohort(flaw).statement.reversal = AmountOf(rv)
BY DEF Cohort, Each

\* A cohort that the validators accept is the truth about its window: whatever
\* the flaw, an old status or a reversal left out (CohortHolds).
LEMMA CohortIsTrue ==
    ASSUME SalesHold, NEW flaw, CohortHolds(Cohort(flaw))
    PROVE  BatchIsTrue(Cohort(flaw))
<1> PICK b : b = Cohort(flaw)
  OBVIOUS
<1> PICK e : e = Plan.ended
  OBVIOUS
<1>0. e \in Nat /\ IsFiniteSet(Sales)
  BY TimesAreNumbers, SalesAreNumbered
<1>1. b.partners = Partners
  BY CohortParts
<1>2. Rows(b.transactions) = {Transaction(s, e) : s \in Sales}
  <2> PICK n : n = Cardinality(Sales)
    OBVIOUS
  <2>1. Order \in [1..n -> Sales] /\ \A s \in Sales : \E i \in 1..n : Order[i] = s
    BY <1>0, Listing DEF Order
  <2>2. b.transactions = [i \in 1..n |->
           IF flaw = "stale" THEN [Transaction(Order[i], e) EXCEPT !.status = SaleOf[Order[i]].first]
           ELSE Transaction(Order[i], e)]
    <3>1. b.transactions = [i \in DOMAIN Order |->
             IF flaw = "stale"
             THEN [Transaction(Order[i], Plan.ended) EXCEPT !.status = SaleOf[Order[i]].first]
             ELSE Transaction(Order[i], Plan.ended)]
      BY CohortParts
    <3>2. DOMAIN Order = 1..n
      BY <2>1
    <3> QED
      BY <3>1, <3>2
  <2>3. ASSUME NEW i \in 1..n PROVE b.transactions[i] = Transaction(Order[i], e)
    <3> PICK r : r = b.transactions[i]
      OBVIOUS
    <3> PICK s : s = Order[i]
      OBVIOUS
    <3>1. r = Transaction(s, e) \/ r = [Transaction(s, e) EXCEPT !.status = SaleOf[s].first]
      BY <2>2
    <3>2. r \in Rows(b.transactions)
      BY <2>2 DEF Rows, Range
    <3>3. TransactionHolds(r)
      BY <3>2 DEF CohortHolds, TransactionsHold
    <3>4. s \in Sales
      BY <2>1
    <3> QED
      BY <1>0, <3>1, <3>3, <3>4, StatusIsTrue
  <2>4. Rows(b.transactions) = {b.transactions[i] : i \in 1..n}
    BY <2>2 DEF Rows, Range
  <2>5. Rows(b.transactions) = {Transaction(Order[i], e) : i \in 1..n}
    BY <2>3, <2>4
  <2> QED
    BY <2>1, <2>5
<1>3. Reversed(b) = {s \in Sales : sales[s].reversed <= e}
  <2> PICK S : S = {s \in Sales : sales[s].reversed <= e}
    OBVIOUS
  <2> PICK o : o = SetToSeq(S)
    OBVIOUS
  <2> PICK n : n = Cardinality(S)
    OBVIOUS
  <2>1. IsFiniteSet(S) /\ S \subseteq Sales
    BY <1>0, FS_Subset
  <2>2. n \in Nat /\ o \in [1..n -> S] /\ \A s \in S : \E i \in 1..n : o[i] = s
    BY <2>1, Listing
  <2> PICK rv : rv = [i \in 1..n |-> Reversal(o[i])]
    OBVIOUS
  <2>3. /\ b.adjustments = IF flaw = "reversal" /\ rv # <<>> THEN Tail(rv) ELSE rv
        /\ b.statement.reversal = AmountOf(rv)
    <3> PICK rw : rw = [i \in DOMAIN o |-> Reversal(o[i])]
      OBVIOUS
    <3>1. /\ b.adjustments = IF flaw = "reversal" /\ rw # <<>> THEN Tail(rw) ELSE rw
          /\ b.statement.reversal = AmountOf(rw)
      BY CohortParts
    <3>2. rw = rv
      BY <2>2
    <3> QED
      BY <3>1, <3>2
  <2>4. AmountOf(b.adjustments) = AmountOf(rv)
    BY <2>3 DEF CohortHolds, StatementHolds
  <2>5. \A i \in 1..n : rv[i].amount = SaleOf[o[i]].amount /\ rv[i].transaction = o[i]
    BY DEF Reversal
  <2>6. \A i \in 1..n : rv[i].amount \in Nat \ {0}
    BY <2>1, <2>2, <2>5, AmountsArePositive
  <2>7. rv \in Seq({Reversal(s) : s \in S}) /\ Len(rv) = n
    BY <2>2
  <2>8. b.adjustments = rv
    BY <2>3, <2>4, <2>6, <2>7, TailIsLess
  <2>9. Reversed(b) = {rv[i].transaction : i \in 1..n}
    BY <2>8 DEF Reversed, Rows, Range
  <2>10. Reversed(b) = {o[i] : i \in 1..n}
    BY <2>5, <2>9
  <2>11. {o[i] : i \in 1..n} = S
    BY <2>2
  <2> QED
    BY <2>10, <2>11
<1> QED
  BY <1>1, <1>2, <1>3 DEF BatchIsTrue

-----------------------------------------------------------------------------
(* The invariant is inductive *)

\* At first the network knows one status of every sale, and nothing is signed.
LEMMA StartsTrue == Init => SettlementInvariant
<1> SUFFICES ASSUME Init PROVE SettlementInvariant
  OBVIOUS
<1>1. /\ now = 0 /\ measured = None /\ observation = None
      /\ amendments = {} /\ attestations = {} /\ MaxTime \in Nat
  BY TimesAreNumbers DEF Init
<1> DEFINE Entry(s) == [status |-> SaleOf[s].first, at |-> 0, receipt |-> <<s, 1>>]
<1>2. sales = [s \in Sales |-> [history |-> <<Entry(s)>>, reversed |-> Never]]
  BY DEF Init
<1>3. \A s \in Sales : Entry(s) \in Entries /\ Entry(s).at = 0
  BY DEF Entries, Statuses
<1> HIDE DEF Entry
<1>4. \A s \in Sales : sales[s].history = <<Entry(s)>> /\ sales[s].reversed = Never
  BY <1>2
<1>5. ASSUME NEW s \in Sales PROVE sales[s] \in SaleRecords /\ RecordHolds(s)
  <2> PICK e : e = Entry(s)
    OBVIOUS
  <2> PICK h : h = <<e>>
    OBVIOUS
  <2>1. h \in Seq(Entries) /\ DOMAIN h = 1..1 /\ h # <<>> /\ h[1] = e /\ e.at = 0
    BY <1>3
  <2>2. \A i \in DOMAIN h : i = 1
    BY <2>1
  <2>3. sales[s].history = h /\ sales[s].reversed = Never
    BY <1>4
  <2>4. sales[s] = [history |-> h, reversed |-> Never] /\ Never \in Nat
    BY <1>1, <1>2 DEF Never
  <2>5. sales[s] \in SaleRecords
    BY <2>1, <2>4 DEF SaleRecords
  <2>6. \A i, j \in DOMAIN h : ~(i < j)
    BY <2>1
  <2>7. RecordHolds(s)
    BY <1>1, <2>1, <2>2, <2>3, <2>6 DEF RecordHolds
  <2> QED
    BY <2>5, <2>7
<1>6. SalesHold
  <2>1. now \in 0..MaxTime
    BY <1>1
  <2>2. sales \in [Sales -> SaleRecords]
    BY <1>2, <1>5
  <2> QED
    BY <1>5, <2>1, <2>2 DEF SalesHold
<1> QED
  BY <1>1, <1>6 DEF SettlementInvariant, MeasuredIsTrue, AmendmentsFollow, CompleteHasAll

\* While the packet is the same, what was complete and true stays so.
LEMMA TruthIsKept ==
    ASSUME SettlementInvariant, \A s \in Sales : RecordGrows(s), packet' = packet, SalesHold',
           now' >= now
    PROVE  /\ measured # None => Plan.ended < now' /\ PacketIsTrue'
           /\ \A a \in amendments : a.observed \in Nat /\ Plan.ended < a.observed /\ a.observed < now'
           /\ \A q \in attestations :
                 /\ q.amendment \in amendments /\ q.observed = q.amendment.observed
                 /\ IsComplete(q) => q.amendment.events = LaterEvents(q.observed)'
<1>1. SalesHold /\ MeasuredIsTrue /\ AmendmentsFollow /\ CompleteHasAll
  BY DEF SettlementInvariant
<1>2. now \in Nat /\ now' \in Nat /\ Plan.ended \in Nat
  BY <1>1, TimesAreNumbers DEF SalesHold
<1>3. ASSUME measured # None PROVE Plan.ended < now' /\ PacketIsTrue'
  BY <1>1, <1>2, <1>3, PacketStaysTrue DEF MeasuredIsTrue
<1>4. ASSUME NEW a \in amendments
      PROVE  a.observed \in Nat /\ Plan.ended < a.observed /\ a.observed < now /\ a.observed < now'
  BY <1>1, <1>2 DEF AmendmentsFollow
<1>5. ASSUME NEW q \in attestations
      PROVE  /\ q.amendment \in amendments /\ q.observed = q.amendment.observed
             /\ IsComplete(q) => q.amendment.events = LaterEvents(q.observed)'
  <2>1. /\ q.amendment \in amendments /\ q.observed = q.amendment.observed
        /\ IsComplete(q) => q.amendment.events = LaterEvents(q.observed)
    BY <1>1 DEF CompleteHasAll
  <2> PICK t : t = q.observed
    OBVIOUS
  <2>2. t \in Nat /\ t < now
    BY <1>4, <2>1
  <2>3. LaterEvents(t)' = LaterEvents(t)
    BY <1>1, <2>2, EventsAreKept
  <2> QED
    BY <2>1, <2>3
<1> QED
  BY <1>3, <1>4, <1>5

\* Every step keeps the invariant.
LEMMA StepsKeepTruth == SettlementInvariant /\ [Next]_vars => SettlementInvariant'
<1> SUFFICES ASSUME SettlementInvariant, [Next]_vars PROVE SettlementInvariant'
  OBVIOUS
<1>1. SalesHold /\ MeasuredIsTrue /\ AmendmentsFollow /\ CompleteHasAll
  BY DEF SettlementInvariant
<1>2. SalesHold' /\ \A s \in Sales : RecordGrows(s)
  BY <1>1, RecordsGrow
<1>3. now \in Nat /\ now' \in Nat
  BY <1>1, <1>2, TimesAreNumbers DEF SalesHold
<1>4. ASSUME packet' = packet, measured' = measured, now' >= now,
             observation' # None => measured # None,
             amendments' = amendments, attestations' = attestations
      PROVE  SettlementInvariant'
  BY <1>1, <1>2, <1>4, TruthIsKept
     DEF SettlementInvariant, MeasuredIsTrue, AmendmentsFollow, CompleteHasAll
<1>5. ASSUME NEW s \in Sales, NEW to, Change(s, to) PROVE SettlementInvariant'
  <2>1. /\ packet' = packet /\ measured' = measured /\ now' = now /\ observation' = observation
        /\ amendments' = amendments /\ attestations' = attestations
    BY <1>5 DEF Change
  <2> QED
    BY <1>1, <1>3, <1>4, <2>1 DEF AmendmentsFollow
<1>6. ASSUME NEW s \in Sales, ReverseSale(s) PROVE SettlementInvariant'
  <2>1. /\ packet' = packet /\ measured' = measured /\ now' = now /\ observation' = observation
        /\ amendments' = amendments /\ attestations' = attestations
    BY <1>6 DEF ReverseSale
  <2> QED
    BY <1>1, <1>3, <1>4, <2>1 DEF AmendmentsFollow
<1>7. ASSUME NEW ops, NEW flaw, Measure(ops, flaw) PROVE SettlementInvariant'
  <2> PICK p : p = PacketOf(Cohort(flaw), ops, flaw, now)
    OBVIOUS
  <2>1. /\ Evaluable(p, now) /\ packet' = p /\ now' = now /\ now > Plan.ended /\ measured = None
        /\ sales' = sales /\ observation' = observation
        /\ amendments' = amendments /\ attestations' = attestations
    BY <1>7 DEF Measure
  <2> PICK b : b = Cohort(flaw)
    OBVIOUS
  <2>2. p.batches.cohort = b
    BY DEF PacketOf
  <2>3. CohortHolds(b)
    BY <2>1, <2>2 DEF Evaluable
  <2>4. /\ b.partners = Partners
        /\ Rows(b.transactions) = {Transaction(s, Plan.ended) : s \in Sales}
        /\ Reversed(b) = {s \in Sales : sales[s].reversed <= Plan.ended}
    BY <1>1, <2>3, CohortIsTrue DEF BatchIsTrue
  <2>5. \A s \in Sales : Transaction(s, Plan.ended)' = Transaction(s, Plan.ended)
    BY <2>1 DEF Transaction, HistoryAt, StatusAt, Known
  <2>6. Rows(b.transactions)' = Rows(b.transactions) /\ Reversed(b)' = Reversed(b)
    BY DEF Rows, Reversed
  <2>7. PacketIsTrue'
    BY <2>1, <2>2, <2>4, <2>5, <2>6 DEF PacketIsTrue, BatchIsTrue, Partners
  <2>8. amendments = {} /\ observation = None /\ attestations = {}
    BY <1>1, <2>1 DEF AmendmentsFollow, CompleteHasAll
  <2> QED
    BY <1>2, <1>3, <2>1, <2>7, <2>8
       DEF SettlementInvariant, MeasuredIsTrue, AmendmentsFollow, CompleteHasAll
<1>8. ASSUME NEW a, Ingest(a) PROVE SettlementInvariant'
  <2>1. /\ measured # None /\ packet' = packet /\ measured' = measured /\ now' = now
        /\ amendments' = amendments /\ attestations' = attestations
    BY <1>8 DEF Ingest
  <2> QED
    BY <1>3, <1>4, <2>1
<1>9. ASSUME NEW t \in 0..MaxTime, Amend(t) PROVE SettlementInvariant'
  <2>1. /\ observation # None /\ Plan.ended < t /\ t < now
        /\ packet' = packet /\ measured' = measured /\ now' = now
        /\ observation' = observation /\ attestations' = attestations
    BY <1>9 DEF Amend
  <2>2. \E a : a.observed = t /\ amendments' = amendments \cup {a}
    BY <1>9 DEF Amend, SignAmendment
  <2>3. PICK a : a.observed = t /\ amendments' = amendments \cup {a}
    BY <2>2
  <2>4. t \in Nat /\ measured # None
    BY <1>1, <2>1 DEF AmendmentsFollow
  <2>5. now' >= now
    BY <1>3, <2>1
  <2>6. /\ measured # None => Plan.ended < now' /\ PacketIsTrue'
        /\ \A b \in amendments : b.observed \in Nat /\ Plan.ended < b.observed /\ b.observed < now'
        /\ \A q \in attestations :
              /\ q.amendment \in amendments /\ q.observed = q.amendment.observed
              /\ IsComplete(q) => q.amendment.events = LaterEvents(q.observed)'
    BY <1>2, <2>1, <2>5, TruthIsKept
  <2>7. \A b \in amendments' : b.observed \in Nat /\ Plan.ended < b.observed /\ b.observed < now'
    BY <2>1, <2>3, <2>4, <2>6
  <2> QED
    BY <1>2, <2>1, <2>3, <2>4, <2>6, <2>7
       DEF SettlementInvariant, MeasuredIsTrue, AmendmentsFollow, CompleteHasAll
<1>10. ASSUME NEW a \in amendments, Attest(a) PROVE SettlementInvariant'
  <2>1. /\ packet' = packet /\ measured' = measured /\ now' = now /\ sales' = sales
        /\ observation' = observation /\ amendments' = amendments
    BY <1>10 DEF Attest
  <2>2. \E q : /\ q.amendment = a /\ q.observed = a.observed
               /\ IsComplete(q) => a.events = LaterEvents(a.observed)
               /\ attestations' = attestations \cup {q}
    BY <1>10 DEF Attest, SignCompleteness, IsComplete
  <2>3. PICK q : /\ q.amendment = a /\ q.observed = a.observed
                 /\ IsComplete(q) => a.events = LaterEvents(a.observed)
                 /\ attestations' = attestations \cup {q}
    BY <2>2
  <2>4. now' >= now
    BY <1>3, <2>1
  <2>5. /\ measured # None => Plan.ended < now' /\ PacketIsTrue'
        /\ \A b \in amendments : b.observed \in Nat /\ Plan.ended < b.observed /\ b.observed < now'
        /\ \A r \in attestations :
              /\ r.amendment \in amendments /\ r.observed = r.amendment.observed
              /\ IsComplete(r) => r.amendment.events = LaterEvents(r.observed)'
    BY <1>2, <2>1, <2>4, TruthIsKept
  <2>6. LaterEvents(a.observed)' = LaterEvents(a.observed)
    <3> PICK t : t = a.observed
      OBVIOUS
    <3>1. t \in Nat /\ t < now
      BY <1>1 DEF AmendmentsFollow
    <3> QED
      BY <1>1, <1>2, <2>1, <3>1, EventsAreKept
  <2> QED
    BY <1>1, <1>2, <2>1, <2>3, <2>5, <2>6
       DEF SettlementInvariant, MeasuredIsTrue, AmendmentsFollow, CompleteHasAll
<1>11. ASSUME Tick PROVE SettlementInvariant'
  <2>1. /\ packet' = packet /\ measured' = measured /\ now' = now + 1 /\ observation' = observation
        /\ amendments' = amendments /\ attestations' = attestations
    BY <1>11 DEF Tick
  <2> QED
    BY <1>1, <1>3, <1>4, <2>1 DEF AmendmentsFollow
<1>12. ASSUME UNCHANGED vars PROVE SettlementInvariant'
  <2>1. /\ packet' = packet /\ measured' = measured /\ now' = now /\ observation' = observation
        /\ amendments' = amendments /\ attestations' = attestations
    BY <1>12 DEF vars
  <2> QED
    BY <1>1, <1>3, <1>4, <2>1 DEF AmendmentsFollow
<1> QED
  BY <1>5, <1>6, <1>7, <1>8, <1>9, <1>10, <1>11, <1>12 DEF Next

\* The measured packet tells the truth about its window for ever, and a complete
\* amendment carries every event up to the time it observes, whatever the
\* network and the producers do next.
THEOREM EvidenceStaysTrue == Spec => []SettlementInvariant
<1>1. Init => SettlementInvariant
  BY StartsTrue
<1>2. SettlementInvariant /\ [Next]_vars => SettlementInvariant'
  BY StepsKeepTruth
<1> QED
  BY <1>1, <1>2, PTL DEF Spec

-----------------------------------------------------------------------------
(* The events after the snapshot *)

\* What an event says of the record of its sale.
Tells(x, t) ==
    /\ x.transaction \in Sales /\ x.id \in Int /\ x.at \in Nat
    /\ \/ /\ x.kind = "status"
          /\ \E m \in 2..Len(sales[x.transaction].history) :
                LET h == sales[x.transaction].history IN
                /\ Plan.ended < h[m].at /\ h[m].at <= t
                /\ x.to = h[m].status /\ x.at = h[m].at
       \/ /\ x.kind = "adjustment" /\ x.at = sales[x.transaction].reversed
          /\ Plan.ended < x.at /\ x.at <= t

\* No event invents anything (StatusEvents, Adjustments).
LEMMA EventsTell ==
    ASSUME SalesHold, NEW t \in Nat, NEW x \in LaterEvents(t)
    PROVE  Tells(x, t)
<1>1. PICK s \in Sales : x \in StatusEvents(s, t) \/ x \in Adjustments(s, t)
  BY DEF LaterEvents
<1> PICK h : h = sales[s].history
  OBVIOUS
<1>2. /\ Len(h) \in Nat \ {0} /\ \A n \in 1..Len(h) : h[n].at \in Nat
      /\ sales[s].reversed \in Nat /\ Plan.ended \in Nat /\ s \in Nat
  BY RecordTypes, TimesAreNumbers, SalesAreNumbered
<1>3. CASE x \in StatusEvents(s, t)
  <2>1. PICK m \in 2..Len(h) :
           /\ Plan.ended < h[m].at /\ h[m].at <= t
           /\ x = [id |-> IdOf(s, m), kind |-> "status", transaction |-> s,
                   original |-> AsMeasured(s), from |-> h[m - 1].status, to |-> h[m].status,
                   receipt |-> h[m].receipt, at |-> h[m].at]
    BY <1>3 DEF StatusEvents
  <2>2. /\ x.id = IdOf(s, m) /\ x.kind = "status" /\ x.transaction = s
        /\ x.to = h[m].status /\ x.at = h[m].at
    BY <2>1
  <2>3. m \in Nat /\ m \in 1..Len(h)
    BY <1>2
  <2>4. IdOf(s, m) \in Int /\ h[m].at \in Nat
    BY <1>2, <2>3 DEF IdOf
  <2> QED
    BY <2>1, <2>2, <2>4 DEF Tells
<1>4. CASE x \in Adjustments(s, t)
  <2>1. /\ sales[s].reversed \in (Plan.ended + 1)..t
        /\ x = [id |-> IdOf(s, 9), kind |-> "adjustment", transaction |-> s,
                original |-> AsMeasured(s), adjustment |-> s, amount |-> SaleOf[s].amount,
                receipt |-> <<s, 0>>, at |-> sales[s].reversed]
    BY <1>4 DEF Adjustments
  <2>2. x.id = IdOf(s, 9) /\ x.kind = "adjustment" /\ x.transaction = s /\ x.at = sales[s].reversed
    BY <2>1
  <2>3. IdOf(s, 9) \in Int
    BY <1>2 DEF IdOf
  <2>4. Plan.ended < sales[s].reversed /\ sales[s].reversed <= t
    BY <1>2, <2>1
  <2> QED
    BY <1>2, <2>2, <2>3, <2>4 DEF Tells
<1> QED
  BY <1>1, <1>3, <1>4

\* And none is missing.
LEMMA EventsAreAll ==
    ASSUME SalesHold, NEW t \in Nat, NEW s \in Sales
    PROVE  /\ \A m \in 2..Len(sales[s].history) :
                 Plan.ended < sales[s].history[m].at /\ sales[s].history[m].at <= t =>
                    \E x \in LaterEvents(t) : /\ x.kind = "status" /\ x.transaction = s
                                              /\ x.at = sales[s].history[m].at
           /\ Plan.ended < sales[s].reversed /\ sales[s].reversed <= t =>
                 \E x \in LaterEvents(t) : x.kind = "adjustment" /\ x.transaction = s
<1> PICK h : h = sales[s].history
  OBVIOUS
<1>1. ASSUME NEW m \in 2..Len(h), Plan.ended < h[m].at, h[m].at <= t
      PROVE  \E x \in LaterEvents(t) : x.kind = "status" /\ x.transaction = s /\ x.at = h[m].at
  <2> PICK x : x = [id |-> IdOf(s, m), kind |-> "status", transaction |-> s,
                    original |-> AsMeasured(s), from |-> h[m - 1].status, to |-> h[m].status,
                    receipt |-> h[m].receipt, at |-> h[m].at]
    OBVIOUS
  <2>1. x \in StatusEvents(s, t)
    BY <1>1 DEF StatusEvents
  <2>2. x \in LaterEvents(t)
    BY <2>1 DEF LaterEvents
  <2> QED
    BY <2>2
<1>2. ASSUME Plan.ended < sales[s].reversed, sales[s].reversed <= t
      PROVE  \E x \in LaterEvents(t) : x.kind = "adjustment" /\ x.transaction = s
  <2> PICK x : x = [id |-> IdOf(s, 9), kind |-> "adjustment", transaction |-> s,
                    original |-> AsMeasured(s), adjustment |-> s, amount |-> SaleOf[s].amount,
                    receipt |-> <<s, 0>>, at |-> sales[s].reversed]
    OBVIOUS
  <2>1. sales[s].reversed \in (Plan.ended + 1)..t
    BY <1>2, RecordTypes, TimesAreNumbers
  <2>2. x \in Adjustments(s, t)
    BY <2>1 DEF Adjustments
  <2>3. x \in LaterEvents(t)
    BY <2>2 DEF LaterEvents
  <2> QED
    BY <2>3
<1> QED
  BY <1>1, <1>2

\* A later amendment has the events of an earlier one.
LEMMA EventsAccumulate ==
    ASSUME SalesHold, NEW t \in Nat, NEW u \in Nat, t <= u
    PROVE  LaterEvents(t) \subseteq LaterEvents(u)
<1>1. ASSUME NEW s \in Sales
      PROVE  StatusEvents(s, t) \subseteq StatusEvents(s, u) /\ Adjustments(s, t) \subseteq Adjustments(s, u)
  <2> PICK h : h = sales[s].history
    OBVIOUS
  <2>1. \A m \in 2..Len(h) : h[m].at \in Nat
    BY RecordTypes
  <2>2. \A m \in 2..Len(h) : h[m].at <= t => h[m].at <= u
    BY <2>1
  <2>3. StatusEvents(s, t) \subseteq StatusEvents(s, u)
    BY <2>2 DEF StatusEvents
  <2>4. sales[s].reversed \in (Plan.ended + 1)..t => sales[s].reversed \in (Plan.ended + 1)..u
    BY RecordTypes, TimesAreNumbers
  <2>5. Adjustments(s, t) \subseteq Adjustments(s, u)
    BY <2>4 DEF Adjustments
  <2> QED
    BY <2>3, <2>5
<1> QED
  BY <1>1 DEF LaterEvents

\* Finitely many sales have finitely many events.
LEMMA EventsAreFinite ==
    ASSUME SalesHold, NEW t \in Nat
    PROVE  IsFiniteSet(LaterEvents(t))
<1>1. ASSUME NEW s \in Sales PROVE IsFiniteSet(StatusEvents(s, t) \cup Adjustments(s, t))
  <2> PICK h : h = sales[s].history
    OBVIOUS
  <2> PICK r : r = AsMeasured(s)
    OBVIOUS
  <2> DEFINE Event(m) ==
        [id |-> IdOf(s, m), kind |-> "status", transaction |-> s, original |-> r,
         from |-> h[m - 1].status, to |-> h[m].status, receipt |-> h[m].receipt, at |-> h[m].at]
  <2> PICK N : N = {m \in 2..Len(h) : Plan.ended < h[m].at /\ h[m].at <= t}
    OBVIOUS
  <2>1. StatusEvents(s, t) = {Event(m) : m \in N}
    BY DEF StatusEvents
  <2> HIDE DEF Event
  <2>2. IsFiniteSet(N)
    <3>1. Len(h) \in Int /\ 2 \in Int
      BY RecordTypes
    <3>2. IsFiniteSet(2..Len(h)) /\ N \subseteq 2..Len(h)
      BY <3>1, FS_Interval
    <3> QED
      BY <3>2, FS_Subset
  <2> PICK f : f = [m \in N |-> Event(m)]
    OBVIOUS
  <2>3. f \in Surjection(N, StatusEvents(s, t))
    BY <2>1 DEF Surjection
  <2>4. IsFiniteSet(StatusEvents(s, t))
    BY <2>2, <2>3, FS_Surjection
  <2>5. IsFiniteSet(Adjustments(s, t))
    <3>1. Adjustments(s, t) = {} \/ \E x : Adjustments(s, t) = {x}
      BY DEF Adjustments
    <3> QED
      BY <3>1, FS_EmptySet, FS_Singleton
  <2> QED
    BY <2>4, <2>5, FS_Union
<1> PICK f : f = [s \in Sales |-> StatusEvents(s, t) \cup Adjustments(s, t)]
  OBVIOUS
<1> PICK C : C = {f[s] : s \in Sales}
  OBVIOUS
<1>2. IsFiniteSet(C)
  <2>1. f \in Surjection(Sales, C)
    BY DEF Surjection
  <2> QED
    BY <2>1, SalesAreNumbered, FS_Surjection
<1>3. \A T \in C : IsFiniteSet(T)
  BY <1>1
<1>4. IsFiniteSet(UNION C)
  BY <1>2, <1>3, FS_UNION
<1>5. LaterEvents(t) = UNION C
  BY DEF LaterEvents
<1> QED
  BY <1>4, <1>5

-----------------------------------------------------------------------------
(* Events applied to the original *)

\* The fields of a state of _apply_events_once.
IsState(st) ==
    /\ DOMAIN st = {"ok", "status", "since", "reversed", "adjustments", "receipts"}
    /\ DOMAIN st.status = Sales /\ DOMAIN st.since = Sales

\* An application that is not refused changes its sale and no other.
LEMMA ApplyOne ==
    ASSUME NEW st, IsState(st), NEW e, e.transaction \in Sales, NEW batch
    PROVE  /\ IsState(Apply(st, e, batch))
           /\ Apply(st, e, batch).ok =>
                /\ st.ok /\ Applies(st, e, batch)
                /\ e.kind = "status" =>
                     /\ Apply(st, e, batch).reversed = st.reversed
                     /\ \A s \in Sales :
                          /\ Apply(st, e, batch).status[s] =
                                IF s = e.transaction THEN e.to ELSE st.status[s]
                          /\ Apply(st, e, batch).since[s] =
                                IF s = e.transaction THEN e.at ELSE st.since[s]
                /\ e.kind # "status" =>
                     /\ Apply(st, e, batch).reversed = st.reversed \cup {e.transaction}
                     /\ Apply(st, e, batch).status = st.status
                     /\ Apply(st, e, batch).since = st.since
<1> PICK g : g = (st.ok /\ Applies(st, e, batch))
  OBVIOUS
<1> PICK a : a = Apply(st, e, batch)
  OBVIOUS
<1>1. CASE ~g
  <2>1. a = [st EXCEPT !.ok = FALSE]
    BY <1>1 DEF Apply
  <2>2. a.ok = FALSE /\ DOMAIN a = DOMAIN st /\ a.status = st.status /\ a.since = st.since
    BY <2>1 DEF IsState
  <2> QED
    BY <2>2 DEF IsState
<1>2. CASE g /\ e.kind = "status"
  <2>1. a = [st EXCEPT !.receipts = @ \cup {e.receipt},
                       !.status[e.transaction] = e.to, !.since[e.transaction] = e.at]
    BY <1>2 DEF Apply
  <2>2. /\ DOMAIN a = DOMAIN st /\ a.reversed = st.reversed
        /\ a.status = [st.status EXCEPT ![e.transaction] = e.to]
        /\ a.since = [st.since EXCEPT ![e.transaction] = e.at]
    BY <2>1 DEF IsState
  <2>3. IsState(a)
    BY <2>2 DEF IsState
  <2>4. /\ \A s \in Sales : a.status[s] = IF s = e.transaction THEN e.to ELSE st.status[s]
        /\ \A s \in Sales : a.since[s] = IF s = e.transaction THEN e.at ELSE st.since[s]
    BY <2>2 DEF IsState
  <2> QED
    BY <1>2, <2>2, <2>3, <2>4
<1>3. CASE g /\ e.kind # "status"
  <2>1. a = [st EXCEPT !.receipts = @ \cup {e.receipt},
                       !.reversed = @ \cup {e.transaction},
                       !.adjustments = @ \cup {e.adjustment}]
    BY <1>3 DEF Apply
  <2>2. /\ DOMAIN a = DOMAIN st /\ a.reversed = st.reversed \cup {e.transaction}
        /\ a.status = st.status /\ a.since = st.since
    BY <2>1 DEF IsState
  <2> QED
    BY <1>3, <2>2 DEF IsState
<1> QED
  BY <1>1, <1>2, <1>3

\* The application begins with what was known when the window ended.
LEMMA OriginalIsTrue ==
    ASSUME SalesHold, NEW batch, BatchIsTrue(batch)
    PROVE  LET o == Original(batch) IN
           /\ IsState(o)
           /\ \A s \in Sales :
                /\ o.status[s] = StatusAt(s, Plan.ended)
                /\ o.since[s] = sales[s].history[Known(s, Plan.ended)].at
                /\ s \in o.reversed <=> sales[s].reversed <= Plan.ended
<1> PICK o : o = Original(batch)
  OBVIOUS
<1> PICK e : e = Plan.ended
  OBVIOUS
<1> PICK R : R = Rows(batch.transactions)
  OBVIOUS
<1> DEFINE Row(id) == CHOOSE t \in R : t.id = id
<1>1. R = {Transaction(s, e) : s \in Sales} /\ \A s \in Sales : Transaction(s, e).id = s
  BY DEF Transaction, BatchIsTrue
<1>2. {t.id : t \in R} = Sales
  BY <1>1
<1>3. ASSUME NEW s \in Sales PROVE Row(s) = Transaction(s, e)
  <2>1. \A t \in R : t.id = s => t = Transaction(s, e)
    BY <1>1
  <2>2. Transaction(s, e) \in R /\ Transaction(s, e).id = s
    BY <1>1
  <2> QED
    BY <2>1, <2>2
<1>4. /\ DOMAIN o = {"ok", "status", "since", "reversed", "adjustments", "receipts"}
      /\ o.status = [id \in Sales |-> Row(id).status]
      /\ o.since = [id \in Sales |-> Since(Row(id))]
      /\ o.reversed = {s \in Sales : sales[s].reversed <= e}
  BY <1>2 DEF Original, BatchIsTrue
<1>5. ASSUME NEW s \in Sales
      PROVE  /\ o.status[s] = StatusAt(s, e) /\ o.since[s] = sales[s].history[Known(s, e)].at
             /\ s \in o.reversed <=> sales[s].reversed <= e
  <2> HIDE DEF Row
  <2>1. o.status[s] = Transaction(s, e).status /\ o.since[s] = Since(Transaction(s, e))
    BY <1>3, <1>4
  <2>2. Transaction(s, e).status = StatusAt(s, e) /\ Transaction(s, e).history = HistoryAt(s, e)
    BY DEF Transaction
  <2> PICK h : h = sales[s].history
    OBVIOUS
  <2> PICK k : k = Known(s, e)
    OBVIOUS
  <2>3. h \in Seq(Entries) /\ DOMAIN h = 1..Len(h) /\ k \in DOMAIN h /\ Len(h) \in Nat
    BY KnownIsPrefix, RecordTypes, TimesAreNumbers
  <2>4. \A i \in 1..k : h[i] \in Entries
    BY <2>3
  <2>5. Len(SubSeq(h, 1, k)) = k /\ SubSeq(h, 1, k)[k] = h[k]
    BY <2>3, <2>4, SubSeqProperties
  <2>6. Since(Transaction(s, e)) = h[k].at
    BY <2>2, <2>5 DEF Since, HistoryAt
  <2> QED
    BY <1>4, <2>1, <2>2, <2>6
<1>6. IsState(o)
  <2> HIDE DEF Row
  <2> QED
    BY <1>4 DEF IsState
<1> QED
  BY <1>5, <1>6

\* What is known of the sales while events up to a time are applied: each has
\* one of its entries, none of them newer than that time, and no event of it that
\* was applied is newer; those that an event reversed are reversed.
Progress(st, seq, k, t) ==
    /\ IsState(st)
    /\ \A s \in Sales :
         /\ \E m \in DOMAIN sales[s].history :
               LET h == sales[s].history IN
               /\ st.status[s] = h[m].status /\ st.since[s] = h[m].at
               /\ Known(s, Plan.ended) <= m /\ h[m].at <= t
               /\ \A i \in 1..k : seq[i].kind = "status" /\ seq[i].transaction = s =>
                                     seq[i].at <= h[m].at
         /\ s \in st.reversed <=>
               \/ sales[s].reversed <= Plan.ended
               \/ \E i \in 1..k : seq[i].kind # "status" /\ seq[i].transaction = s

\* One more event.
LEMMA ProgressGoesOn ==
    ASSUME SalesHold, NEW t \in Nat, NEW batch, NEW seq, NEW k \in Nat \ {0}, NEW st,
           NEW n \in Nat, k <= n, \A i \in 1..n : Tells(seq[i], t),
           Progress(st, seq, k - 1, t), Apply(st, seq[k], batch).ok
    PROVE  Progress(Apply(st, seq[k], batch), seq, k, t)
<1> PICK e : e = seq[k]
  OBVIOUS
<1> PICK a : a = Apply(st, e, batch)
  OBVIOUS
<1>1. Tells(e, t) /\ e.transaction \in Sales /\ e.at \in Nat /\ e.kind \in {"status", "adjustment"}
  BY DEF Tells
<1>2. /\ IsState(a) /\ Applies(st, e, batch)
      /\ e.kind = "status" =>
           /\ a.reversed = st.reversed
           /\ \A s \in Sales :
                /\ a.status[s] = IF s = e.transaction THEN e.to ELSE st.status[s]
                /\ a.since[s] = IF s = e.transaction THEN e.at ELSE st.since[s]
      /\ e.kind # "status" => /\ a.reversed = st.reversed \cup {e.transaction}
                              /\ a.status = st.status /\ a.since = st.since
  <2>1. IsState(st)
    BY DEF Progress
  <2> QED
    BY <1>1, <2>1, ApplyOne
<1>3. \A i \in 1..k : i \in 1..(k - 1) \/ i = k
  OBVIOUS
<1>k. \A i \in 1..(k - 1) : i \in 1..k
  OBVIOUS
<1>4. ASSUME NEW s \in Sales
      PROVE  \E m \in DOMAIN sales[s].history :
                LET h == sales[s].history IN
                /\ a.status[s] = h[m].status /\ a.since[s] = h[m].at
                /\ Known(s, Plan.ended) <= m /\ h[m].at <= t
                /\ \A i \in 1..k : seq[i].kind = "status" /\ seq[i].transaction = s =>
                                      seq[i].at <= h[m].at
  <2> PICK h : h = sales[s].history
    OBVIOUS
  <2>1. PICK m \in DOMAIN h :
           /\ st.status[s] = h[m].status /\ st.since[s] = h[m].at
           /\ Known(s, Plan.ended) <= m /\ h[m].at <= t
           /\ \A i \in 1..(k - 1) : seq[i].kind = "status" /\ seq[i].transaction = s =>
                                       seq[i].at <= h[m].at
    BY DEF Progress
  <2>2. CASE e.kind = "status" /\ e.transaction = s
    <3>1. PICK j \in 2..Len(h) : /\ Plan.ended < h[j].at /\ h[j].at <= t
                                 /\ e.to = h[j].status /\ e.at = h[j].at
      BY <1>1, <2>2 DEF Tells
    <3>2. h[m].at < h[j].at
      BY <1>2, <2>1, <2>2, <3>1 DEF Applies
    <3>3. j \in DOMAIN h /\ m \in DOMAIN h /\ h[j].at \in Nat /\ h[m].at \in Nat
      <4>1. /\ Len(h) \in Nat /\ DOMAIN h = 1..Len(h)
            /\ \A i \in 1..Len(h) : h[i].at \in Nat
        BY RecordTypes
      <4>2. j \in 1..Len(h) /\ m \in 1..Len(h)
        BY <2>1, <4>1
      <4> QED
        BY <4>1, <4>2
    <3>4. Known(s, Plan.ended) <= j
      <4>1. ~(j <= Known(s, Plan.ended)) /\ Known(s, Plan.ended) \in DOMAIN h
        <5>0. Plan.ended \in Nat /\ h[j].at \in Nat /\ Plan.ended < h[j].at
          BY <3>1, <3>3, TimesAreNumbers
        <5>1. ~(h[j].at <= Plan.ended)
          BY <5>0
        <5> QED
          BY <3>3, <5>1, KnownIsPrefix, TimesAreNumbers
      <4>2. j \in Int /\ Known(s, Plan.ended) \in Int
        BY <3>3, <4>1, RecordTypes
      <4> QED
        BY <4>1, <4>2
    <3>5. ASSUME NEW i \in 1..k, seq[i].kind = "status", seq[i].transaction = s
          PROVE  seq[i].at <= h[j].at
      <4>1. CASE i = k
        BY <3>1, <3>3, <4>1
      <4>2. CASE i \in 1..(k - 1)
        <5>1. seq[i].at <= h[m].at
          BY <2>1, <3>5, <4>2
        <5>2. seq[i].at \in Nat
          <6>1. i \in 1..n
            OBVIOUS
          <6> QED
            BY <6>1 DEF Tells
        <5> QED
          BY <3>2, <3>3, <5>1, <5>2, Earlier
      <4> QED
        BY <1>3, <4>1, <4>2
    <3>6. a.status[s] = h[j].status /\ a.since[s] = h[j].at
      BY <1>2, <2>2, <3>1
    <3> QED
      BY <3>1, <3>3, <3>4, <3>5, <3>6
  <2>3. CASE ~(e.kind = "status" /\ e.transaction = s)
    <3>1. a.status[s] = st.status[s] /\ a.since[s] = st.since[s]
      BY <1>2, <2>3
    <3>2. \A i \in 1..k : seq[i].kind = "status" /\ seq[i].transaction = s => seq[i].at <= h[m].at
      BY <1>3, <2>1, <2>3
    <3> QED
      BY <2>1, <3>1, <3>2
  <2> QED
    BY <2>2, <2>3
<1>5. ASSUME NEW s \in Sales
      PROVE  s \in a.reversed <=>
               \/ sales[s].reversed <= Plan.ended
               \/ \E i \in 1..k : seq[i].kind # "status" /\ seq[i].transaction = s
  <2>1. s \in st.reversed <=>
           \/ sales[s].reversed <= Plan.ended
           \/ \E i \in 1..(k - 1) : seq[i].kind # "status" /\ seq[i].transaction = s
    BY DEF Progress
  <2>2. s \in a.reversed <=> s \in st.reversed \/ (e.kind # "status" /\ e.transaction = s)
    BY <1>2
  <2>3. (\E i \in 1..k : seq[i].kind # "status" /\ seq[i].transaction = s) <=>
           \/ \E i \in 1..(k - 1) : seq[i].kind # "status" /\ seq[i].transaction = s
           \/ e.kind # "status" /\ e.transaction = s
    <3>1. k \in 1..k
      OBVIOUS
    <3> QED
      BY <1>3, <1>k, <3>1
  <2> QED
    BY <2>1, <2>2, <2>3
<1> QED
  BY <1>2, <1>4, <1>5 DEF Progress

\* If the last state is accepted, so was every one before it (the code raises at
\* the first event it refuses).
LEMMA AcceptedFromTheFirst ==
    ASSUME NEW n \in Nat, NEW st, NEW batch, NEW seq, Applied(st, batch, seq, n),
           \A k \in 0..n : IsState(st[k]), \A k \in 1..n : seq[k].transaction \in Sales, st[n].ok
    PROVE  \A k \in 0..n : st[k].ok
<1> DEFINE B == {d \in Nat : d <= n /\ ~st[n - d].ok}
<1>1. CASE B = {}
  <2>1. ASSUME NEW k \in 0..n PROVE st[k].ok
    <3>1. n - k \in Nat /\ n - k <= n /\ n - (n - k) = k
      OBVIOUS
    <3> QED
      BY <1>1, <3>1
  <2> QED
    BY <2>1
<1>2. CASE B # {}
  <2>1. B \subseteq Nat
    OBVIOUS
  <2>2. PICK d \in B : \A y \in B : d <= y
    <3> HIDE DEF B
    <3> QED
      BY <1>2, <2>1, LeastNatural
  <2>3. d \in Nat /\ d <= n /\ ~st[n - d].ok
    OBVIOUS
  <2>4. d # 0
    <3>1. d = 0 => n - d = n
      OBVIOUS
    <3> QED
      BY <2>3, <3>1
  <2>5. d - 1 \in Nat /\ ~(d <= d - 1) /\ d - 1 <= n
    BY <2>3, <2>4
  <2>6. st[n - (d - 1)].ok
    BY <2>2, <2>5
  <2> PICK k : k = n - (d - 1)
    OBVIOUS
  <2>7. k \in 1..n /\ k - 1 = n - d /\ k - 1 \in 0..n
    BY <2>3, <2>4
  <2>8. st[k] = Apply(st[k - 1], seq[k], batch)
    BY <2>7 DEF Applied
  <2>9. IsState(st[k - 1]) /\ seq[k].transaction \in Sales /\ Apply(st[k - 1], seq[k], batch).ok
    BY <2>6, <2>7, <2>8
  <2>10. st[k - 1].ok
    BY <2>9, ApplyOne
  <2> QED
    BY <2>3, <2>7, <2>10
<1> QED
  BY <1>1, <1>2

\* Every state of the loop has its fields.
LEMMA StatesAreStates ==
    ASSUME NEW n \in Nat, NEW st, NEW batch, NEW seq, Applied(st, batch, seq, n),
           IsState(Original(batch)), \A k \in 1..n : seq[k].transaction \in Sales
    PROVE  \A k \in 0..n : IsState(st[k])
<1> DEFINE B == {k \in Nat : k <= n /\ ~IsState(st[k])}
<1>1. CASE B = {}
  BY <1>1
<1>2. CASE B # {}
  <2>1. B \subseteq Nat
    OBVIOUS
  <2>2. PICK k \in B : \A y \in B : k <= y
    <3> HIDE DEF B
    <3> QED
      BY <1>2, <2>1, LeastNatural
  <2>3. k \in Nat /\ k <= n /\ ~IsState(st[k])
    OBVIOUS
  <2>4. k # 0
    BY <2>3 DEF Applied
  <2>5. k - 1 \in Nat /\ ~(k <= k - 1) /\ k - 1 <= n /\ k \in 1..n
    BY <2>3, <2>4
  <2>6. IsState(st[k - 1])
    BY <2>2, <2>5
  <2>7. st[k] = Apply(st[k - 1], seq[k], batch) /\ seq[k].transaction \in Sales
    BY <2>5 DEF Applied
  <2>8. IsState(st[k])
    BY <2>6, <2>7, ApplyOne
  <2> QED
    BY <2>3, <2>8
<1> QED
  BY <1>1, <1>2

\* Accepted events make progress to the end.
LEMMA ProgressToTheEnd ==
    ASSUME SalesHold, NEW t \in Nat, NEW n \in Nat, NEW st, NEW batch, NEW seq,
           Applied(st, batch, seq, n), \A i \in 1..n : Tells(seq[i], t),
           Progress(Original(batch), seq, 0, t), st[n].ok
    PROVE  Progress(st[n], seq, n, t)
<1>1. \A k \in 1..n : seq[k].transaction \in Sales
  BY DEF Tells
<1>2. IsState(Original(batch))
  BY DEF Progress
<1>3. \A k \in 0..n : IsState(st[k])
  BY <1>1, <1>2, StatesAreStates
<1>4. \A k \in 0..n : st[k].ok
  BY <1>1, <1>3, AcceptedFromTheFirst
<1> DEFINE B == {k \in Nat : k <= n /\ ~Progress(st[k], seq, k, t)}
<1>5. CASE B = {}
  BY <1>5
<1>6. CASE B # {}
  <2>1. B \subseteq Nat
    OBVIOUS
  <2>2. PICK k \in B : \A y \in B : k <= y
    <3> HIDE DEF B
    <3> QED
      BY <1>6, <2>1, LeastNatural
  <2>3. k \in Nat /\ k <= n /\ ~Progress(st[k], seq, k, t)
    OBVIOUS
  <2>4. k # 0
    BY <2>3 DEF Applied
  <2>5. k - 1 \in Nat /\ ~(k <= k - 1) /\ k - 1 <= n /\ k \in 1..n /\ k \in Nat \ {0} /\ k \in 0..n
    BY <2>3, <2>4
  <2>6. Progress(st[k - 1], seq, k - 1, t)
    BY <2>2, <2>5
  <2>7. st[k] = Apply(st[k - 1], seq[k], batch) /\ st[k].ok
    BY <1>4, <2>5 DEF Applied
  <2>8. Progress(st[k], seq, k, t)
    <3> PICK b : b = st[k - 1]
      OBVIOUS
    <3>1. Progress(b, seq, k - 1, t) /\ Apply(b, seq[k], batch).ok
      BY <2>6, <2>7
    <3>2. Progress(Apply(b, seq[k], batch), seq, k, t)
      BY <2>3, <2>5, <3>1, ProgressGoesOn
    <3> QED
      BY <2>7, <3>2
  <2> QED
    BY <2>3, <2>8
<1> QED
  BY <1>5, <1>6

\* Before the first event nothing has been applied.
LEMMA ProgressBegins ==
    ASSUME SalesHold, NEW t \in Nat, Plan.ended < t, NEW seq, NEW batch, BatchIsTrue(batch)
    PROVE  Progress(Original(batch), seq, 0, t)
<1> PICK o : o = Original(batch)
  OBVIOUS
<1> PICK e : e = Plan.ended
  OBVIOUS
<1>0. e \in Nat /\ e < t
  BY TimesAreNumbers
<1>1. /\ IsState(o)
      /\ \A s \in Sales :
           /\ o.status[s] = StatusAt(s, e)
           /\ o.since[s] = sales[s].history[Known(s, e)].at
           /\ s \in o.reversed <=> sales[s].reversed <= e
  BY OriginalIsTrue
<1>2. \A i \in 1..0 : FALSE
  OBVIOUS
<1>3. ASSUME NEW s \in Sales
      PROVE  \E m \in DOMAIN sales[s].history :
               LET h == sales[s].history IN
               /\ o.status[s] = h[m].status /\ o.since[s] = h[m].at
               /\ Known(s, e) <= m /\ h[m].at <= t
               /\ \A i \in 1..0 : seq[i].kind = "status" /\ seq[i].transaction = s =>
                                     seq[i].at <= h[m].at
  <2> PICK h : h = sales[s].history
    OBVIOUS
  <2> PICK m : m = Known(s, e)
    OBVIOUS
  <2>1. m \in DOMAIN h /\ (h[m].at <= e <=> m <= m)
    BY <1>0, KnownIsPrefix
  <2>2. /\ Len(h) \in Nat /\ DOMAIN h = 1..Len(h)
        /\ \A i \in 1..Len(h) : h[i].at \in Nat
    BY RecordTypes
  <2>3. m \in Nat /\ m <= m /\ h[m].at \in Nat
    BY <2>1, <2>2
  <2>4. h[m].at <= t
    BY <1>0, <2>1, <2>3
  <2>5. o.status[s] = h[m].status /\ o.since[s] = h[m].at
    BY <1>1 DEF StatusAt
  <2> QED
    BY <1>2, <2>1, <2>3, <2>4, <2>5
<1>4. \A s \in Sales : s \in o.reversed <=>
         \/ sales[s].reversed <= e
         \/ \E i \in 1..0 : seq[i].kind # "status" /\ seq[i].transaction = s
  BY <1>1, <1>2
<1> QED
  BY <1>1, <1>3, <1>4 DEF Progress

\* The sales of a state of the application are as they were at a time.
AsKnownAt(fin, t) ==
    \A s \in Sales : /\ fin.status[s] = StatusAt(s, t)
                     /\ s \in fin.reversed <=> sales[s].reversed <= t

\* When all the events up to a time are applied, the sales are as they were then.
LEMMA FinalIsTrue ==
    ASSUME SalesHold, NEW t \in Nat, Plan.ended < t, NEW batch, BatchIsTrue(batch),
           NEW E, E = LaterEvents(t), NoConflict(E, LAMBDA x : x.id), Final(batch, E).ok
    PROVE  AsKnownAt(Final(batch, E), t)
<1> PICK n : n = Cardinality(E)
  OBVIOUS
<1> PICK seq : seq = InOrder(E)
  OBVIOUS
<1> PICK fin : fin = Final(batch, E)
  OBVIOUS
<1>1. IsFiniteSet(E) /\ \A x \in E : Tells(x, t)
  BY EventsAreFinite, EventsTell
<1>2. \A x \in E : x.at \in Int /\ x.id \in Int
  BY <1>1 DEF Tells
<1>3. n \in Nat /\ seq \in [1..n -> E] /\ \A x \in E : \E i \in 1..n : seq[i] = x
  <2>1. \A x, y \in E : x.id = y.id => x = y
    BY DEF NoConflict
  <2> QED
    BY <1>1, <1>2, <2>1, OrderListsAll
<1>4. PICK st : Applied(st, batch, seq, n) /\ fin = st[n]
  <2>0. InOrder(E) \in [1..n -> E] /\ n \in Nat
    BY <1>3
  <2>1. \E st : Applied(st, batch, InOrder(E), n) /\ Final(batch, E) = st[n]
    BY <2>0, FinalIsReached
  <2> QED
    BY <2>1
<1>5. Progress(Original(batch), seq, 0, t)
  BY ProgressBegins
<1>6. \A i \in 1..n : Tells(seq[i], t)
  BY <1>1, <1>3
<1>7. st[n].ok
  BY <1>4
<1>8. Progress(fin, seq, n, t)
  BY <1>3, <1>4, <1>5, <1>6, <1>7, ProgressToTheEnd
<1>9. ASSUME NEW s \in Sales PROVE fin.status[s] = StatusAt(s, t)
  <2> PICK h : h = sales[s].history
    OBVIOUS
  <2> PICK k : k = Known(s, t)
    OBVIOUS
  <2> PICK j : j = Known(s, Plan.ended)
    OBVIOUS
  <2>1. PICK m \in DOMAIN h :
           /\ fin.status[s] = h[m].status /\ j <= m /\ h[m].at <= t
           /\ \A i \in 1..n : seq[i].kind = "status" /\ seq[i].transaction = s =>
                                 seq[i].at <= h[m].at
    BY <1>8 DEF Progress
  <2>2. /\ Len(h) \in Nat /\ DOMAIN h = 1..Len(h)
        /\ \A i \in 1..Len(h) : h[i].at \in Nat
    BY RecordTypes
  <2>3. k \in DOMAIN h /\ \A i \in DOMAIN h : h[i].at <= t <=> i <= k
    BY KnownIsPrefix
  <2>4. j \in DOMAIN h /\ \A i \in DOMAIN h : h[i].at <= Plan.ended <=> i <= j
    BY KnownIsPrefix, TimesAreNumbers
  <2>5. m \in Nat /\ k \in Nat /\ j \in Nat /\ 1 <= j /\ m <= k
    BY <2>1, <2>2, <2>3, <2>4
  <2>6. \A a, b \in DOMAIN h : a < b => h[a].at < h[b].at
    BY DEF SalesHold, RecordHolds
  <2>7. ASSUME m < k PROVE FALSE
    <3>1. h[m].at < h[k].at /\ h[m].at \in Nat /\ h[k].at \in Nat
      BY <2>1, <2>2, <2>3, <2>6, <2>7
    <3>2. ~(k <= j) /\ k \in 2..Len(h)
      <4>1. j < k /\ 2 <= k
        BY <2>1, <2>5, <2>7
      <4>2. k <= Len(h)
        BY <2>2, <2>3
      <4> QED
        BY <2>2, <2>5, <4>1, <4>2
    <3>3. ~(h[k].at <= Plan.ended) /\ h[k].at <= t
      BY <2>3, <2>4, <2>5, <3>2
    <3>4. Plan.ended < h[k].at
      BY <3>1, <3>3, TimesAreNumbers
    <3>5. PICK x \in E : x.kind = "status" /\ x.transaction = s /\ x.at = h[k].at
      BY <3>2, <3>3, <3>4, EventsAreAll
    <3>6. PICK i \in 1..n : seq[i] = x
      BY <1>3
    <3>7. h[k].at <= h[m].at
      BY <2>1, <3>5, <3>6
    <3> QED
      BY <3>1, <3>7
  <2>8. m = k
    BY <2>5, <2>7
  <2> QED
    BY <2>1, <2>8 DEF StatusAt
<1>10. ASSUME NEW s \in Sales PROVE s \in fin.reversed <=> sales[s].reversed <= t
  <2> PICK r : r = sales[s].reversed
    OBVIOUS
  <2>1. r \in Nat /\ Plan.ended \in Nat
    BY RecordTypes, TimesAreNumbers
  <2>2. s \in fin.reversed <=>
           \/ r <= Plan.ended
           \/ \E i \in 1..n : seq[i].kind # "status" /\ seq[i].transaction = s
    BY <1>8 DEF Progress
  <2>3. ASSUME NEW i \in 1..n, seq[i].kind # "status", seq[i].transaction = s PROVE r <= t
    BY <1>6, <2>3 DEF Tells
  <2>4. ASSUME r <= t, ~(r <= Plan.ended)
        PROVE  \E i \in 1..n : seq[i].kind # "status" /\ seq[i].transaction = s
    <3>1. Plan.ended < r
      BY <2>1, <2>4
    <3>2. PICK x \in E : x.kind = "adjustment" /\ x.transaction = s
      BY <2>4, <3>1, EventsAreAll
    <3> QED
      BY <1>3, <3>2
  <2>5. r <= Plan.ended => r <= t
    BY <2>1
  <2> QED
    BY <2>2, <2>3, <2>4, <2>5
<1> QED
  BY <1>9, <1>10 DEF AsKnownAt

-----------------------------------------------------------------------------
(* The amounts *)

\* Rows of the batch that settle are the sales that had settled, so the two sums
\* are one (settled_amounts).
LEMMA AmountsAreTrue ==
    ASSUME SalesHold, NEW t \in Nat, NEW batch, BatchIsTrue(batch), NEW fin, AsKnownAt(fin, t)
    PROVE  Amounts(batch, fin) = [p \in Partners |-> SettledAt(p, t)]
<1> PICK e : e = Plan.ended
  OBVIOUS
<1>1. ASSUME NEW p \in Partners
      PROVE  Earned({x \in Rows(batch.transactions) :
                        x.partner = p /\ Settles(x, fin.status[x.id], fin.reversed)})
                = SettledAt(p, t)
  <2> PICK T : T = {x \in Rows(batch.transactions) :
                       x.partner = p /\ Settles(x, fin.status[x.id], fin.reversed)}
    OBVIOUS
  <2> PICK A : A = Settled(p, t)
    OBVIOUS
  <2> PICK f : f = [s \in A |-> Transaction(s, e)]
    OBVIOUS
  <2> PICK v : v = [s \in A |-> SaleOf[s].amount]
    OBVIOUS
  <2> PICK w : w = [x \in T |-> x.amount]
    OBVIOUS
  <2>1. A \subseteq Sales
    BY DEF Settled
  <2>2. IsFiniteSet(A)
    BY <2>1, SalesAreNumbered, FS_Subset
  <2>3. \A s \in Sales : /\ Transaction(s, e).id = s /\ Transaction(s, e).amount = SaleOf[s].amount
                         /\ Transaction(s, e).partner = SaleOf[s].partner
                         /\ Transaction(s, e).class = SaleOf[s].class
    BY DEF Transaction
  <2>4. \A s \in Sales : sales[s].reversed <= t <=> ~(t < sales[s].reversed)
    BY RecordTypes
  <2>5. ASSUME NEW s \in Sales PROVE Transaction(s, e) \in T <=> s \in A
    <3> PICK x : x = Transaction(s, e)
      OBVIOUS
    <3>1. x \in Rows(batch.transactions) /\ x.id = s /\ x.partner = SaleOf[s].partner
          /\ x.class = SaleOf[s].class
      BY <2>3 DEF BatchIsTrue
    <3>2. x \in T <=> x.partner = p /\ Settles(x, fin.status[x.id], fin.reversed)
      BY <3>1
    <3>3. Settles(x, fin.status[x.id], fin.reversed) <=>
             /\ SaleOf[s].class = "new" /\ StatusAt(s, t) \in {"confirmed", "paid"}
             /\ t < sales[s].reversed
      BY <2>4, <3>1 DEF Settles, AsKnownAt
    <3>4. s \in A <=> /\ SaleOf[s].partner = p /\ SaleOf[s].class = "new"
                      /\ StatusAt(s, t) \in {"confirmed", "paid"} /\ t < sales[s].reversed
      BY DEF Settled
    <3> QED
      BY <3>1, <3>2, <3>3, <3>4
  <2>6. f \in [A -> T]
    BY <2>1, <2>5
  <2>7. \A x \in T : \E s \in A : f[s] = x
    <3>1. \A x \in T : \E s \in Sales : x = Transaction(s, e)
      BY DEF BatchIsTrue
    <3> QED
      BY <2>5, <3>1
  <2>8. \A s, u \in A : f[s] = f[u] => s = u
    BY <2>1, <2>3
  <2>9. v \in [A -> Int]
    BY <2>1, AmountsArePositive
  <2>10. \A s \in A : v[s] = w[f[s]]
    BY <2>1, <2>3, <2>6
  <2>11. w \in [T -> Int]
    <3>1. ASSUME NEW x \in T PROVE w[x] \in Int
      <4>1. PICK s \in A : f[s] = x
        BY <2>7
      <4>2. v[s] \in Int /\ v[s] = w[x]
        BY <2>9, <2>10, <4>1
      <4> QED
        BY <4>2
    <3> QED
      BY <3>1
  <2>12. Renames(f, A, v, T, w)
    BY <2>6, <2>7, <2>8, <2>9, <2>10, <2>11 DEF Renames
  <2>13. SumFunction(v) = SumFunction(w)
    BY <2>2, <2>12, SumTransfer
  <2>14. Earned(T) = SumFunction(w) /\ SettledAt(p, t) = SumFunction(v)
    BY DEF Earned, SettledAt
  <2> QED
    BY <2>13, <2>14
<1> QED
  BY <1>1 DEF Amounts, BatchIsTrue

\* Evidence that P17 accepts covers a time after the window with every event up
\* to it (SettlementEvaluable: each attestation is complete).
LEMMA EvidenceIsAll ==
    ASSUME SettlementInvariant, NEW Q, Q \subseteq attestations, NEW S, S = {q.amendment : q \in Q},
           SettlementAccepted(S, Q, observation, now),
           NEW c, c = Max({q.observed : q \in Q})
    PROVE  /\ measured # None /\ c \in Nat /\ Plan.ended < c
           /\ EventsOf(S) = LaterEvents(c)
<1>1. SalesHold /\ AmendmentsFollow /\ CompleteHasAll
  BY DEF SettlementInvariant
<1>2. Q # {} /\ \A q \in Q : IsComplete(q)
  BY DEF SettlementAccepted, EvidenceHolds, SettlementEvaluable, BoundaryHolds
<1>3. ASSUME NEW q \in Q
      PROVE  /\ q.amendment \in amendments /\ q.amendment.events = LaterEvents(q.observed)
             /\ q.observed \in Nat /\ Plan.ended < q.observed /\ q.observed < now
  BY <1>1, <1>2 DEF AmendmentsFollow, CompleteHasAll
<1>4. measured # None
  BY <1>1, <1>2, <1>3 DEF AmendmentsFollow
<1> PICK O : O = {q.observed : q \in Q}
  OBVIOUS
<1>5. c \in O /\ \A x \in O : x <= c
  <2>1. now \in Nat
    BY <1>1, TimesAreNumbers DEF SalesHold
  <2>2. O \subseteq Int /\ O # {} /\ now \in Int /\ \A x \in O : x <= now
    BY <1>2, <1>3, <2>1
  <2> QED
    BY <2>2, LatestOne
<1>6. PICK r \in Q : r.observed = c
  BY <1>5
<1>7. c \in Nat /\ Plan.ended < c
  BY <1>3, <1>6
<1>8. ASSUME NEW q \in Q PROVE q.amendment.events \subseteq LaterEvents(c)
  <2> PICK u : u = q.observed
    OBVIOUS
  <2>1. u \in Nat /\ u <= c
    BY <1>3, <1>5
  <2>2. LaterEvents(u) \subseteq LaterEvents(c)
    BY <1>1, <1>7, <2>1, EventsAccumulate
  <2> QED
    BY <1>3, <2>2
<1>9. r.amendment.events = LaterEvents(c)
  BY <1>3, <1>6
<1>10. EventsOf(S) = LaterEvents(c)
  <2> PICK L : L = LaterEvents(c)
    OBVIOUS
  <2>1. \A a \in S : a.events \subseteq L
    BY <1>8
  <2>2. r.amendment \in S /\ r.amendment.events = L
    BY <1>9
  <2> QED
    BY <2>1, <2>2 DEF EventsOf
<1> QED
  BY <1>4, <1>7, <1>10

\* The invariant gives every partner what its sales had settled.
LEMMA TruthIsSettled == SettlementInvariant => SettlementIsTrue
<1> SUFFICES ASSUME SettlementInvariant, NEW Q \in SUBSET attestations,
                    SettlementAccepted({q.amendment : q \in Q}, Q, observation, now)
             PROVE  Evaluation(packet.batches.cohort, {q.amendment : q \in Q}).amended
                       = [p \in Partners |-> SettledAt(p, Max({q.observed : q \in Q}))]
  BY DEF SettlementIsTrue
<1> PICK S : S = {q.amendment : q \in Q}
  OBVIOUS
<1> PICK c : c = Max({q.observed : q \in Q})
  OBVIOUS
<1> PICK batch : batch = packet.batches.cohort
  OBVIOUS
<1> PICK E : E = EventsOf(S)
  OBVIOUS
<1>1. SalesHold /\ MeasuredIsTrue
  BY DEF SettlementInvariant
<1>2. measured # None /\ c \in Nat /\ Plan.ended < c /\ E = LaterEvents(c)
  BY EvidenceIsAll
<1>3. BatchIsTrue(batch)
  BY <1>1, <1>2 DEF MeasuredIsTrue, PacketIsTrue
<1>4. NoConflict(E, LAMBDA x : x.id) /\ Final(batch, E).ok
  BY DEF SettlementAccepted, SettlementEvaluable
<1> PICK fin : fin = Final(batch, E)
  OBVIOUS
<1>5. AsKnownAt(fin, c)
  BY <1>1, <1>2, <1>3, <1>4, FinalIsTrue
<1>6. Amounts(batch, fin) = [p \in Partners |-> SettledAt(p, c)]
  BY <1>1, <1>2, <1>3, <1>5, AmountsAreTrue
<1>7. Evaluation(batch, S).amended = Amounts(batch, fin)
  BY DEF Evaluation
<1> QED
  BY <1>6, <1>7

\* Whatever is delivered and in whatever order, evidence that P17 accepts gives
\* every partner what its sales had settled at the newest time it covers, for any
\* sales, amounts, histories and sets of amendments.
THEOREM SettlementStaysTrue == Spec => []SettlementIsTrue
<1>1. Spec => []SettlementInvariant
  BY EvidenceStaysTrue
<1>2. SettlementInvariant => SettlementIsTrue
  BY TruthIsSettled
<1> QED
  BY <1>1, <1>2, PTL
===============================================================================
