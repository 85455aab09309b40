------------------------------ MODULE SumLemmas ------------------------------
(* Finite sums, for the proofs about the totals the contracts keep. A sum  *)
(* over a set is a fold of the community modules: a recursive function on  *)
(* the subsets of the set. That the function exists, that the order of the *)
(* summands does not matter, and how a sum changes with one summand follow *)
(* from the least subset for which each could fail.                        *)
EXTENDS Integers, Functions, FiniteSets, FiniteSetTheorems, TLAPS

Pick(s) == CHOOSE x \in s : TRUE
Body(f, g, s) == IF s = {} THEN 0 ELSE f[Pick(s)] + g[s \ {Pick(s)}]
AreSums(f, S, g) == g = [s \in SUBSET S |-> Body(f, g, s)]
SumsOf(f, S) == CHOOSE g : AreSums(f, S, g)

\* A nonempty set of subsets of a finite set has a least member.
LEMMA LeastSubset ==
  ASSUME NEW S, IsFiniteSet(S), NEW T, T \subseteq SUBSET S, T # {}
  PROVE  \E s \in T : \A t \in T : ~(t \subseteq s /\ t # s)
<1>1. IsWellFoundedOn(StrictSubsetOrdering(S), FiniteSubsetsOf(S))
  BY FS_StrictSubsetOrderingWellFounded
<1>2. T \subseteq FiniteSubsetsOf(S)  BY FS_Subset DEF FiniteSubsetsOf
<1>3. \E s \in T : \A t \in T : <<t, s>> \notin StrictSubsetOrdering(S)
  BY <1>1, <1>2, WFMin
<1> QED  BY <1>3 DEF StrictSubsetOrdering

\* The element the fold takes next is one of the set.
LEMMA PickIsIn ==
  ASSUME NEW s, s # {}
  PROVE  Pick(s) \in s
BY DEF Pick

\* Two functions of partial sums agree where both are defined.
LEMMA SumsAgree ==
  ASSUME NEW S, IsFiniteSet(S), NEW f, NEW g, NEW h, NEW T \in SUBSET S,
         AreSums(f, S, g), AreSums(f, T, h)
  PROVE  \A t \in SUBSET T : g[t] = h[t]
<1> DEFINE Bad == {t \in SUBSET T : g[t] # h[t]}
<1>1. SUFFICES ASSUME Bad # {} PROVE FALSE  OBVIOUS
<1>2. PICK t \in Bad : \A u \in Bad : ~(u \subseteq t /\ u # t)
  <2>1. Bad \subseteq SUBSET S  OBVIOUS
  <2> HIDE DEF Bad
  <2> QED  BY <1>1, <2>1, LeastSubset
<1>3. g[t] = Body(f, g, t) /\ h[t] = Body(f, h, t)
  <2>1. t \in SUBSET S /\ t \in SUBSET T  OBVIOUS
  <2> HIDE DEF Bad
  <2>2. g[t] = [s \in SUBSET S |-> Body(f, g, s)][t]  BY DEF AreSums
  <2>3. h[t] = [s \in SUBSET T |-> Body(f, h, s)][t]  BY DEF AreSums
  <2> QED  BY <2>1, <2>2, <2>3
<1>4. CASE t = {}  BY <1>3, <1>4 DEF Body
<1>5. CASE t # {}
  <2>1. Pick(t) \in t  BY <1>5, PickIsIn
  <2>2. t \ {Pick(t)} \notin Bad  BY <1>2, <2>1
  <2>3. g[t \ {Pick(t)}] = h[t \ {Pick(t)}]  BY <2>2
  <2> QED  BY <1>3, <1>5, <2>3 DEF Body
<1> QED  BY <1>4, <1>5

\* The function of partial sums exists.
LEMMA SumsExist ==
  ASSUME NEW S, IsFiniteSet(S), NEW f
  PROVE  AreSums(f, S, SumsOf(f, S))
<1> DEFINE Bad == {T \in SUBSET S : ~(\E g : AreSums(f, T, g))}
<1>1. Bad = {}
  <2>1. SUFFICES ASSUME Bad # {} PROVE FALSE  OBVIOUS
  <2>2. PICK T \in Bad : \A U \in Bad : ~(U \subseteq T /\ U # T)
    <3>1. Bad \subseteq SUBSET S  OBVIOUS
    <3> HIDE DEF Bad
    <3> QED  BY <2>1, <3>1, LeastSubset
  <2>3. \A U \in SUBSET T : U # T => AreSums(f, U, SumsOf(f, U))
    <3>1. SUFFICES ASSUME NEW U \in SUBSET T, U # T
                   PROVE  \E g : AreSums(f, U, g)
      BY DEF SumsOf
    <3>2. U \notin Bad /\ U \in SUBSET S  BY <2>2, <3>1
    <3> QED  BY <3>2
  <2> DEFINE At(u) == SumsOf(f, u)[u]
             G == [s \in SUBSET T |-> IF s = {} THEN 0 ELSE f[Pick(s)] + At(s \ {Pick(s)})]
  <2>4. \A u \in SUBSET T : u # T => At(u) = Body(f, SumsOf(f, u), u)
    <3>1. SUFFICES ASSUME NEW u \in SUBSET T, u # T
                   PROVE  SumsOf(f, u)[u] = Body(f, SumsOf(f, u), u)
      OBVIOUS
    <3> DEFINE h == SumsOf(f, u)
    <3>2. h = [v \in SUBSET u |-> Body(f, h, v)]  BY <2>3, <3>1 DEF AreSums
    <3> HIDE DEF h
    <3>3. h[u] = [v \in SUBSET u |-> Body(f, h, v)][u]  BY <3>2
    <3>4. h[u] = Body(f, h, u)  BY <3>3
    <3> QED  BY <3>4 DEF h
  <2>5. \A u \in SUBSET T : u # T => G[u] = At(u)
    <3>1. SUFFICES ASSUME NEW u \in SUBSET T, u # T
                   PROVE  G[u] = At(u)
      OBVIOUS
    <3>2. CASE u = {}  BY <2>4, <3>1, <3>2 DEF Body
    <3>3. CASE u # {}
      <4> DEFINE w == u \ {Pick(u)}
      <4>1. w \in SUBSET u /\ w \in SUBSET T /\ w # T  BY <3>1, <3>3, PickIsIn
      <4>2. IsFiniteSet(u)  BY <2>2, <3>1, FS_Subset
      <4>3. AreSums(f, u, SumsOf(f, u)) /\ AreSums(f, w, SumsOf(f, w))  BY <2>3, <3>1, <4>1
      <4>4. SumsOf(f, u)[w] = SumsOf(f, w)[w]
        <5> HIDE DEF w
        <5>1. \A t \in SUBSET w : SumsOf(f, u)[t] = SumsOf(f, w)[t]
          BY <4>1, <4>2, <4>3, SumsAgree
        <5> QED  BY <5>1
      <4>5. At(u) = f[Pick(u)] + SumsOf(f, u)[w]  BY <2>4, <3>1, <3>3 DEF Body
      <4> QED  BY <3>1, <3>3, <4>4, <4>5
    <3> QED  BY <3>2, <3>3
  <2>6. ASSUME NEW s \in SUBSET T PROVE G[s] = Body(f, G, s)
    <3>1. CASE s = {}  BY <3>1 DEF Body
    <3>2. CASE s # {}
      <4>1. s \ {Pick(s)} \in SUBSET T /\ s \ {Pick(s)} # T  BY <3>2, PickIsIn
      <4>2. G[s \ {Pick(s)}] = At(s \ {Pick(s)})
        <5> HIDE DEF G, At
        <5> QED  BY <2>5, <4>1
      <4>3. G[s] = f[Pick(s)] + At(s \ {Pick(s)})
        <5> HIDE DEF At
        <5> QED  BY <3>2
      <4> HIDE DEF G, At
      <4> QED  BY <3>2, <4>2, <4>3 DEF Body
    <3> QED  BY <3>1, <3>2
  <2>7. AreSums(f, T, G)
    <3>1. G = [s \in SUBSET T |-> G[s]]  OBVIOUS
    <3> HIDE DEF G
    <3> QED  BY <2>6, <3>1 DEF AreSums
  <2>8. T \notin Bad  BY <2>7
  <2> QED  BY <2>2, <2>8
<1>2. \E g : AreSums(f, S, g)  BY <1>1
<1> QED  BY <1>2 DEF SumsOf

-----------------------------------------------------------------------------
(* Sums over a finite set.                                                 *)

Sum(f, S) == SumFunctionOnSet(f, S)

\* The sum of the community modules, as a function on the subsets of its set.
LEMMA SumIsFold ==
  ASSUME NEW f, NEW S
  PROVE  Sum(f, S) = SumsOf(f, S)[S]
BY DEF Sum, SumFunctionOnSet, FoldFunctionOnSet, MapThenFoldSet, SumsOf, AreSums, Body, Pick

\* One summand at a time, in the order of the fold.
LEMMA SumStep ==
  ASSUME NEW S, IsFiniteSet(S), NEW f
  PROVE  Sum(f, S) = IF S = {} THEN 0 ELSE f[Pick(S)] + Sum(f, S \ {Pick(S)})
<1> DEFINE g == SumsOf(f, S)
<1>1. g = [s \in SUBSET S |-> Body(f, g, s)]  BY SumsExist DEF AreSums
<1>2. g[S] = Body(f, g, S)
  <2> HIDE DEF g
  <2>1. g[S] = [s \in SUBSET S |-> Body(f, g, s)][S]  BY <1>1
  <2> QED  BY <2>1
<1>3. CASE S = {}  BY <1>2, <1>3, SumIsFold DEF Body
<1>4. CASE S # {}
  <2> DEFINE w == S \ {Pick(S)}
  <2>1. w \in SUBSET S /\ IsFiniteSet(w)  BY FS_RemoveElement
  <2> HIDE DEF w
  <2>2. AreSums(f, S, SumsOf(f, S)) /\ AreSums(f, w, SumsOf(f, w))  BY <2>1, SumsExist
  <2>3. \A t \in SUBSET w : SumsOf(f, S)[t] = SumsOf(f, w)[t]  BY <2>1, <2>2, SumsAgree
  <2>4. SumsOf(f, S)[w] = Sum(f, w)  BY <2>3, SumIsFold
  <2>5. Sum(f, S) = f[Pick(S)] + SumsOf(f, S)[w]  BY <1>2, <1>4, SumIsFold DEF Body, w
  <2> QED  BY <1>4, <2>4, <2>5 DEF w
<1> QED  BY <1>3, <1>4

\* A finite sum of integers is an integer.
LEMMA SumType ==
  ASSUME NEW S, IsFiniteSet(S), NEW f, \A x \in S : f[x] \in Int
  PROVE  Sum(f, S) \in Int
<1> DEFINE Bad == {T \in SUBSET S : Sum(f, T) \notin Int}
<1>1. SUFFICES ASSUME Bad # {} PROVE FALSE  OBVIOUS
<1>2. PICK T \in Bad : \A U \in Bad : ~(U \subseteq T /\ U # T)
  <2>1. Bad \subseteq SUBSET S  OBVIOUS
  <2> HIDE DEF Bad
  <2> QED  BY <1>1, <2>1, LeastSubset
<1>3. T \in SUBSET S /\ IsFiniteSet(T) /\ Sum(f, T) \notin Int  BY FS_Subset
<1>4. T # {}
  <2> HIDE DEF Bad
  <2> QED  BY <1>3, SumStep
<1>5. Pick(T) \in T  BY <1>4, PickIsIn
<1>6. T \ {Pick(T)} \notin Bad  BY <1>2, <1>5
<1>7. Sum(f, T \ {Pick(T)}) \in Int  BY <1>3, <1>6
<1>8. f[Pick(T)] \in Int  BY <1>3, <1>5
<1>9. Sum(f, T) = f[Pick(T)] + Sum(f, T \ {Pick(T)})  BY <1>3, <1>4, SumStep
<1> QED  BY <1>3, <1>7, <1>8, <1>9

\* Any summand may be taken out first.
LEMMA SumTake ==
  ASSUME NEW S, IsFiniteSet(S), NEW f, \A x \in S : f[x] \in Int, NEW x \in S
  PROVE  Sum(f, S) = f[x] + Sum(f, S \ {x})
<1> DEFINE Bad == {T \in SUBSET S : \E y \in T : Sum(f, T) # f[y] + Sum(f, T \ {y})}
<1>1. SUFFICES ASSUME Bad # {} PROVE FALSE  OBVIOUS
<1>2. PICK T \in Bad : \A U \in Bad : ~(U \subseteq T /\ U # T)
  <2>1. Bad \subseteq SUBSET S  OBVIOUS
  <2> HIDE DEF Bad
  <2> QED  BY <1>1, <2>1, LeastSubset
<1>3. PICK y \in T : Sum(f, T) # f[y] + Sum(f, T \ {y})  BY <1>2
<1> DEFINE p == Pick(T)
<1>4. T \in SUBSET S /\ IsFiniteSet(T) /\ p \in T  BY <1>3, FS_Subset, PickIsIn
<1>5. Sum(f, T) = f[p] + Sum(f, T \ {p})  BY <1>4, SumStep
<1> HIDE DEF p
<1>6. y # p  BY <1>3, <1>5
<1>7. T \ {p} \notin Bad /\ T \ {y} \notin Bad  BY <1>2, <1>4
<1>8. Sum(f, T \ {p}) = f[y] + Sum(f, (T \ {p}) \ {y})
  <2>1. y \in T \ {p} /\ T \ {p} \in SUBSET S  BY <1>4, <1>6
  <2> QED  BY <1>7, <2>1
<1>9. Sum(f, T \ {y}) = f[p] + Sum(f, (T \ {y}) \ {p})
  <2>1. p \in T \ {y} /\ T \ {y} \in SUBSET S  BY <1>4, <1>6
  <2> QED  BY <1>7, <2>1
<1>10. (T \ {p}) \ {y} = (T \ {y}) \ {p}  OBVIOUS
<1>11. Sum(f, (T \ {p}) \ {y}) \in Int /\ f[y] \in Int /\ f[p] \in Int
  <2>1. IsFiniteSet((T \ {p}) \ {y})  BY <1>4, FS_Subset
  <2>2. \A z \in (T \ {p}) \ {y} : f[z] \in Int  BY <1>4
  <2>3. Sum(f, (T \ {p}) \ {y}) \in Int  BY <2>1, <2>2, SumType
  <2> QED  BY <1>3, <1>4, <2>3
<1>12. Sum(f, (T \ {y}) \ {p}) = Sum(f, (T \ {p}) \ {y})  BY <1>10
<1> HIDE DEF Bad
<1> QED  BY <1>3, <1>5, <1>8, <1>9, <1>11, <1>12

\* A sum depends on its summands only.
LEMMA SumSame ==
  ASSUME NEW S, IsFiniteSet(S), NEW f, NEW g, \A x \in S : f[x] = g[x]
  PROVE  Sum(f, S) = Sum(g, S)
<1> DEFINE Bad == {T \in SUBSET S : Sum(f, T) # Sum(g, T)}
<1>1. SUFFICES ASSUME Bad # {} PROVE FALSE  OBVIOUS
<1>2. PICK T \in Bad : \A U \in Bad : ~(U \subseteq T /\ U # T)
  <2>1. Bad \subseteq SUBSET S  OBVIOUS
  <2> HIDE DEF Bad
  <2> QED  BY <1>1, <2>1, LeastSubset
<1>3. T \in SUBSET S /\ IsFiniteSet(T) /\ Sum(f, T) # Sum(g, T)  BY FS_Subset
<1>4. T # {}
  <2> HIDE DEF Bad
  <2> QED  BY <1>3, SumStep
<1>5. Pick(T) \in T  BY <1>4, PickIsIn
<1>6. T \ {Pick(T)} \notin Bad  BY <1>2, <1>5
<1>7. Sum(f, T \ {Pick(T)}) = Sum(g, T \ {Pick(T)})  BY <1>3, <1>6
<1>8. f[Pick(T)] = g[Pick(T)]  BY <1>3, <1>5
<1>9. /\ Sum(f, T) = f[Pick(T)] + Sum(f, T \ {Pick(T)})
      /\ Sum(g, T) = g[Pick(T)] + Sum(g, T \ {Pick(T)})
  BY <1>3, <1>4, SumStep
<1> QED  BY <1>3, <1>7, <1>8, <1>9

\* How a sum changes with one of its summands.
LEMMA SumChange ==
  ASSUME NEW S, IsFiniteSet(S), NEW f, NEW g, NEW x \in S,
         \A y \in S : f[y] \in Int, g[x] \in Int, \A y \in S \ {x} : g[y] = f[y]
  PROVE  Sum(g, S) = Sum(f, S) - f[x] + g[x]
<1>1. IsFiniteSet(S \ {x})  BY FS_RemoveElement
<1>2. \A y \in S : g[y] \in Int  OBVIOUS
<1>3. Sum(f, S) = f[x] + Sum(f, S \ {x})  BY SumTake
<1>4. Sum(g, S) = g[x] + Sum(g, S \ {x})  BY <1>2, SumTake
<1>5. Sum(g, S \ {x}) = Sum(f, S \ {x})  BY <1>1, SumSame
<1>6. Sum(f, S \ {x}) \in Int  BY <1>1, SumType
<1> QED  BY <1>3, <1>4, <1>5, <1>6

\* A sum of zeros is zero.
LEMMA SumZero ==
  ASSUME NEW S, IsFiniteSet(S), NEW f, \A x \in S : f[x] = 0
  PROVE  Sum(f, S) = 0
<1> DEFINE Bad == {T \in SUBSET S : Sum(f, T) # 0}
<1>1. SUFFICES ASSUME Bad # {} PROVE FALSE  OBVIOUS
<1>2. PICK T \in Bad : \A U \in Bad : ~(U \subseteq T /\ U # T)
  <2>1. Bad \subseteq SUBSET S  OBVIOUS
  <2> HIDE DEF Bad
  <2> QED  BY <1>1, <2>1, LeastSubset
<1>3. T \in SUBSET S /\ IsFiniteSet(T) /\ Sum(f, T) # 0  BY FS_Subset
<1>4. T # {}
  <2> HIDE DEF Bad
  <2> QED  BY <1>3, SumStep
<1>5. Pick(T) \in T  BY <1>4, PickIsIn
<1>6. T \ {Pick(T)} \notin Bad  BY <1>2, <1>5
<1>7. Sum(f, T \ {Pick(T)}) = 0  BY <1>3, <1>6
<1>8. f[Pick(T)] = 0  BY <1>3, <1>5
<1>9. Sum(f, T) = f[Pick(T)] + Sum(f, T \ {Pick(T)})  BY <1>3, <1>4, SumStep
<1> QED  BY <1>3, <1>7, <1>8, <1>9

\* A sum of naturals is one, and no summand is above it.
LEMMA SumNat ==
  ASSUME NEW S, IsFiniteSet(S), NEW f, \A x \in S : f[x] \in Nat
  PROVE  Sum(f, S) \in Nat
<1> DEFINE Bad == {T \in SUBSET S : Sum(f, T) \notin Nat}
<1>1. SUFFICES ASSUME Bad # {} PROVE FALSE  OBVIOUS
<1>2. PICK T \in Bad : \A U \in Bad : ~(U \subseteq T /\ U # T)
  <2>1. Bad \subseteq SUBSET S  OBVIOUS
  <2> HIDE DEF Bad
  <2> QED  BY <1>1, <2>1, LeastSubset
<1>3. T \in SUBSET S /\ IsFiniteSet(T) /\ Sum(f, T) \notin Nat  BY FS_Subset
<1>4. T # {}
  <2> HIDE DEF Bad
  <2> QED  BY <1>3, SumStep
<1>5. Pick(T) \in T  BY <1>4, PickIsIn
<1>6. T \ {Pick(T)} \notin Bad  BY <1>2, <1>5
<1>7. Sum(f, T \ {Pick(T)}) \in Nat  BY <1>3, <1>6
<1>8. f[Pick(T)] \in Nat  BY <1>3, <1>5
<1>9. Sum(f, T) = f[Pick(T)] + Sum(f, T \ {Pick(T)})  BY <1>3, <1>4, SumStep
<1> QED  BY <1>3, <1>7, <1>8, <1>9

\* No summand is more than the sum.
LEMMA SumBounds ==
  ASSUME NEW S, IsFiniteSet(S), NEW f, \A x \in S : f[x] \in Nat, NEW x \in S
  PROVE  f[x] <= Sum(f, S)
<1>1. IsFiniteSet(S \ {x})  BY FS_RemoveElement
<1>2. Sum(f, S \ {x}) \in Nat  BY <1>1, SumNat
<1>3. \A y \in S : f[y] \in Int  OBVIOUS
<1>4. Sum(f, S) = f[x] + Sum(f, S \ {x})  BY <1>3, SumTake
<1> QED  BY <1>2, <1>4

=============================================================================
