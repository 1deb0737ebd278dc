---------------------------- MODULE PlaceProofs -----------------------------
(***************************************************************************)
(* Safety of general-admission places: no place is made or lost, the       *)
(* counters say what reservations hold, every release chain ends, and no   *)
(* reservation is ever stuck with items that cannot leave it.              *)
(*                                                                         *)
(* First a theory of finite sums (what SumFunctionOnSet computes, by       *)
(* minimal counterexample over the subsets of a finite set), then release  *)
(* chains, then what each step does to the rows of a pool.                 *)
(***************************************************************************)
EXTENDS SeatProofs, FiniteSetTheorems

-----------------------------------------------------------------------------
(* Finite sums.                                                            *)

\* The element that the fold of the community modules takes next.
Pick(s) == CHOOSE x \in s : TRUE

\* g lists the sums of f over all subsets of S.
IsSumTable(g, f, S) ==
    g = [s \in SUBSET S |-> IF s = {} THEN 0 ELSE f[Pick(s)] + g[s \ {Pick(s)}]]

SumTable(f, S) == CHOOSE g : IsSumTable(g, f, S)

\* The sum is what the fold's own table says of the whole set.
LEMMA SumIsTable ==
    ASSUME NEW f, NEW S
    PROVE  SumFunctionOnSet(f, S) = SumTable(f, S)[S]
  BY DEF SumFunctionOnSet, FoldFunctionOnSet, MapThenFoldSet, SumTable, IsSumTable, Pick

\* A non-empty family of subsets of a finite set has a smallest member.
LEMMA FiniteMinimum ==
    ASSUME NEW S, IsFiniteSet(S), NEW B, B \subseteq SUBSET S, B # {}
    PROVE  \E T \in B : \A U \in B : U \subseteq T => U = T
  <1>1. IsWellFoundedOn(StrictSubsetOrdering(S), FiniteSubsetsOf(S))
    BY FS_StrictSubsetOrderingWellFounded
  <1>2. B \subseteq FiniteSubsetsOf(S)
    BY FS_Subset DEF FiniteSubsetsOf
  <1>3. PICK T \in B : \A U \in B : ~(<<U, T>> \in StrictSubsetOrdering(S))
    BY <1>1, <1>2, WFMin
  <1> QED BY <1>3 DEF StrictSubsetOrdering

\* The element taken is an element.
LEMMA PickIn == ASSUME NEW S, S # {} PROVE Pick(S) \in S
  BY DEF Pick

\* Two tables agree on the sets that both list.
LEMMA SumTablesAgree ==
    ASSUME NEW f, NEW S, NEW T, IsFiniteSet(S), NEW g, NEW h,
           IsSumTable(g, f, S), IsSumTable(h, f, T)
    PROVE  \A s \in SUBSET S : s \subseteq T => g[s] = h[s]
  <1> DEFINE B == {s \in SUBSET S : s \subseteq T /\ g[s] # h[s]}
  <1> SUFFICES ASSUME B # {} PROVE FALSE
    OBVIOUS
  <1>1. PICK s \in B : \A U \in B : U \subseteq s => U = s
    <2>1. B \subseteq SUBSET S
      OBVIOUS
    <2> HIDE DEF B
    <2> QED BY <2>1, FiniteMinimum
  <1>2. s # {} => s \ {Pick(s)} \notin B
    BY <1>1, PickIn
  <1>3. s # {} => g[s \ {Pick(s)}] = h[s \ {Pick(s)}]
    BY <1>2
  <1>4. /\ g[s] = IF s = {} THEN 0 ELSE f[Pick(s)] + g[s \ {Pick(s)}]
        /\ h[s] = IF s = {} THEN 0 ELSE f[Pick(s)] + h[s \ {Pick(s)}]
    BY DEF IsSumTable
  <1> QED BY <1>3, <1>4

\* A finite set has a table.
LEMMA SumTableExists ==
    ASSUME NEW f, NEW S, IsFiniteSet(S)
    PROVE  \A T \in SUBSET S : IsSumTable(SumTable(f, T), f, T)
  <1> DEFINE Exists(T) == \E g : IsSumTable(g, f, T)
             B == {T \in SUBSET S : ~Exists(T)}
  <1>1. ASSUME NEW T, Exists(T) PROVE IsSumTable(SumTable(f, T), f, T)
    BY <1>1 DEF SumTable
  <1> SUFFICES ASSUME B # {} PROVE FALSE
    BY <1>1
  <1>2. PICK T \in B : \A U \in B : U \subseteq T => U = T
    <2>1. B \subseteq SUBSET S
      OBVIOUS
    <2> HIDE DEF B
    <2> QED BY <2>1, FiniteMinimum
  <1>3. ASSUME NEW U \in SUBSET T, U # T
        PROVE  IsSumTable(SumTable(f, U), f, U)
    BY <1>1, <1>2, <1>3
  <1> DEFINE h == [s \in SUBSET T |-> IF s = {} THEN 0
                     ELSE f[Pick(s)] + SumTable(f, s \ {Pick(s)})[s \ {Pick(s)}]]
  <1>4. ASSUME NEW s \in SUBSET T, s # T
        PROVE  h[s] = SumTable(f, s)[s]
    <2>1. CASE s = {}
      BY <1>3, <1>4, <2>1 DEF IsSumTable
    <2>2. CASE s # {}
      <3> DEFINE u == s \ {Pick(s)}
      <3>1. u \in SUBSET T /\ u # T /\ u \subseteq s /\ IsFiniteSet(s)
        BY <2>2, PickIn, FS_Subset
      <3>2. SumTable(f, s)[u] = SumTable(f, u)[u]
        BY <1>3, <1>4, <3>1, SumTablesAgree
      <3>3. SumTable(f, s)[s] = f[Pick(s)] + SumTable(f, s)[u]
        BY <1>3, <1>4, <2>2 DEF IsSumTable
      <3> QED BY <2>2, <3>2, <3>3
    <2> QED BY <2>1, <2>2
  <1>5. ASSUME NEW s \in SUBSET T, s # {}
        PROVE  h[s \ {Pick(s)}] = SumTable(f, s \ {Pick(s)})[s \ {Pick(s)}]
    <2>1. s \ {Pick(s)} \in SUBSET T /\ s \ {Pick(s)} # T
      BY <1>5, PickIn
    <2> HIDE DEF h
    <2> QED BY <1>4, <2>1
  <1>6. h = [s \in SUBSET T |-> IF s = {} THEN 0 ELSE f[Pick(s)] + h[s \ {Pick(s)}]]
    BY <1>5
  <1>7. IsSumTable(h, f, T)
    BY <1>6 DEF IsSumTable
  <1> QED BY <1>2, <1>7

\* The empty sum.
LEMMA SumEmpty == \A f : SumFunctionOnSet(f, {}) = 0
  <1> TAKE f
  <1>1. IsSumTable(SumTable(f, {}), f, {})
    BY SumTableExists, FS_EmptySet
  <1> QED BY <1>1, SumIsTable DEF IsSumTable

\* The sum takes one element after the other, in the order of the fold.
LEMMA SumPick ==
    ASSUME NEW f, NEW S, IsFiniteSet(S), S # {}
    PROVE  SumFunctionOnSet(f, S) = f[Pick(S)] + SumFunctionOnSet(f, S \ {Pick(S)})
  <1> DEFINE T == S \ {Pick(S)}
  <1>1. IsSumTable(SumTable(f, S), f, S) /\ IsSumTable(SumTable(f, T), f, T)
    BY SumTableExists
  <1>2. SumTable(f, S)[T] = SumTable(f, T)[T]
    <2>1. T \in SUBSET S /\ T \subseteq T
      OBVIOUS
    <2> HIDE DEF T
    <2> QED BY <1>1, <2>1, SumTablesAgree
  <1>3. SumTable(f, S)[S] = f[Pick(S)] + SumTable(f, S)[T]
    BY <1>1 DEF IsSumTable
  <1> QED BY <1>2, <1>3, SumIsTable

\* A sum of integers is an integer.
LEMMA SumType ==
    ASSUME NEW f, NEW S, IsFiniteSet(S), \A x \in S : f[x] \in Int
    PROVE  SumFunctionOnSet(f, S) \in Int
  <1> DEFINE B == {T \in SUBSET S : SumFunctionOnSet(f, T) \notin Int}
  <1> SUFFICES ASSUME B # {} PROVE FALSE
    OBVIOUS
  <1>1. PICK T \in B : \A U \in B : U \subseteq T => U = T
    <2>1. B \subseteq SUBSET S
      OBVIOUS
    <2> HIDE DEF B
    <2> QED BY <2>1, FiniteMinimum
  <1>2. T # {}
    BY SumEmpty
  <1>3. T \ {Pick(T)} \notin B /\ Pick(T) \in T
    BY <1>1, <1>2, PickIn
  <1>4. SumFunctionOnSet(f, T) = f[Pick(T)] + SumFunctionOnSet(f, T \ {Pick(T)})
    BY <1>2, SumPick, FS_Subset
  <1> QED BY <1>3, <1>4

\* The order does not matter: any element can be taken out first.
LEMMA SumRemove ==
    ASSUME NEW f, NEW S, IsFiniteSet(S), \A x \in S : f[x] \in Int, NEW y \in S
    PROVE  SumFunctionOnSet(f, S) = f[y] + SumFunctionOnSet(f, S \ {y})
  <1> DEFINE Ok(T) == \A x \in T : SumFunctionOnSet(f, T) = f[x] + SumFunctionOnSet(f, T \ {x})
             B == {T \in SUBSET S : ~Ok(T)}
  <1> SUFFICES ASSUME B # {} PROVE FALSE
    OBVIOUS
  <1>1. PICK T \in B : \A U \in B : U \subseteq T => U = T
    <2>1. B \subseteq SUBSET S
      OBVIOUS
    <2> HIDE DEF B
    <2> QED BY <2>1, FiniteMinimum
  <1>2. PICK x \in T : SumFunctionOnSet(f, T) # f[x] + SumFunctionOnSet(f, T \ {x})
    OBVIOUS
  <1> DEFINE c == Pick(T)
  <1>3. c \in T /\ SumFunctionOnSet(f, T) = f[c] + SumFunctionOnSet(f, T \ {c})
    BY <1>2, SumPick, PickIn, FS_Subset
  <1>4. c # x
    BY <1>2, <1>3
  <1>5. Ok(T \ {c}) /\ Ok(T \ {x})
    BY <1>1, <1>2, <1>3
  <1>6. SumFunctionOnSet(f, T \ {c}) = f[x] + SumFunctionOnSet(f, (T \ {c}) \ {x})
    BY <1>2, <1>4, <1>5
  <1>7. SumFunctionOnSet(f, T \ {x}) = f[c] + SumFunctionOnSet(f, (T \ {x}) \ {c})
    BY <1>3, <1>4, <1>5
  <1>8. SumFunctionOnSet(f, T \ {c}) = f[x] + SumFunctionOnSet(f, (T \ {x}) \ {c})
    <2>1. (T \ {c}) \ {x} = (T \ {x}) \ {c}
      OBVIOUS
    <2> QED BY <1>6, <2>1
  <1>9. SumFunctionOnSet(f, (T \ {x}) \ {c}) \in Int
    <2>1. IsFiniteSet((T \ {x}) \ {c}) /\ \A z \in (T \ {x}) \ {c} : f[z] \in Int
      BY FS_Subset
    <2> QED BY <2>1, SumType
  <1>10. f[x] \in Int /\ f[c] \in Int
    BY <1>2, <1>3
  <1> HIDE DEF c, B
  <1> QED BY <1>2, <1>3, <1>7, <1>8, <1>9, <1>10

\* The sum looks at f on S only.
LEMMA SumAgree ==
    ASSUME NEW f, NEW g, NEW S, IsFiniteSet(S), \A x \in S : f[x] = g[x]
    PROVE  SumFunctionOnSet(f, S) = SumFunctionOnSet(g, S)
  <1> DEFINE B == {T \in SUBSET S : SumFunctionOnSet(f, T) # SumFunctionOnSet(g, T)}
  <1> SUFFICES ASSUME B # {} PROVE FALSE
    OBVIOUS
  <1>1. PICK T \in B : \A U \in B : U \subseteq T => U = T
    <2>1. B \subseteq SUBSET S
      OBVIOUS
    <2> HIDE DEF B
    <2> QED BY <2>1, FiniteMinimum
  <1>2. T # {}
    BY SumEmpty
  <1>3. T \ {Pick(T)} \notin B /\ Pick(T) \in T /\ IsFiniteSet(T)
    BY <1>1, <1>2, PickIn, FS_Subset
  <1>4. /\ SumFunctionOnSet(f, T) = f[Pick(T)] + SumFunctionOnSet(f, T \ {Pick(T)})
        /\ SumFunctionOnSet(g, T) = g[Pick(T)] + SumFunctionOnSet(g, T \ {Pick(T)})
    BY <1>2, <1>3, SumPick
  <1> QED BY <1>3, <1>4

\* The sum of a pointwise sum.
LEMMA SumAdd ==
    ASSUME NEW f, NEW g, NEW h, NEW S, IsFiniteSet(S),
           \A x \in S : f[x] \in Int /\ g[x] \in Int /\ h[x] = f[x] + g[x]
    PROVE  SumFunctionOnSet(h, S) = SumFunctionOnSet(f, S) + SumFunctionOnSet(g, S)
  <1> DEFINE B == {T \in SUBSET S : SumFunctionOnSet(h, T) #
                                SumFunctionOnSet(f, T) + SumFunctionOnSet(g, T)}
  <1> SUFFICES ASSUME B # {} PROVE FALSE
    OBVIOUS
  <1>1. PICK T \in B : \A U \in B : U \subseteq T => U = T
    <2>1. B \subseteq SUBSET S
      OBVIOUS
    <2> HIDE DEF B
    <2> QED BY <2>1, FiniteMinimum
  <1>0. SumFunctionOnSet(h, T) # SumFunctionOnSet(f, T) + SumFunctionOnSet(g, T)
    OBVIOUS
  <1>2. T # {}
    <2> HIDE DEF B
    <2>1. T = {} => SumFunctionOnSet(h, T) = 0 /\ SumFunctionOnSet(f, T) = 0
                      /\ SumFunctionOnSet(g, T) = 0
      BY SumEmpty
    <2> QED BY <1>0, <2>1
  <1> DEFINE c == Pick(T)
             U == T \ {c}
  <1>3. U \notin B /\ c \in T /\ U \in SUBSET S /\ IsFiniteSet(T) /\ IsFiniteSet(U)
    BY <1>1, <1>2, PickIn, FS_Subset
  <1>4. /\ SumFunctionOnSet(f, T) = f[c] + SumFunctionOnSet(f, U)
        /\ SumFunctionOnSet(g, T) = g[c] + SumFunctionOnSet(g, U)
        /\ SumFunctionOnSet(h, T) = h[c] + SumFunctionOnSet(h, U)
    BY <1>2, <1>3, SumPick
  <1>5. SumFunctionOnSet(f, U) \in Int /\ SumFunctionOnSet(g, U) \in Int
    <2>1. \A x \in U : f[x] \in Int /\ g[x] \in Int
      BY <1>3
    <2> HIDE DEF U
    <2> QED BY <1>3, <2>1, SumType
  <1>6. f[c] \in Int /\ g[c] \in Int /\ h[c] = f[c] + g[c]
    BY <1>3
  <1>7. SumFunctionOnSet(h, U) = SumFunctionOnSet(f, U) + SumFunctionOnSet(g, U)
    BY <1>3
  <1> HIDE DEF U, c, B
  <1> QED BY <1>0, <1>4, <1>5, <1>6, <1>7

\* The sum of natural numbers is a natural number that no summand exceeds.
LEMMA SumNat ==
    ASSUME NEW f, NEW S, IsFiniteSet(S), \A x \in S : f[x] \in Nat
    PROVE  /\ SumFunctionOnSet(f, S) \in Nat
           /\ \A x \in S : f[x] <= SumFunctionOnSet(f, S)
  <1> DEFINE B == {T \in SUBSET S : SumFunctionOnSet(f, T) \notin Nat}
  <1>1. B = {}
    <2> SUFFICES ASSUME B # {} PROVE FALSE
      OBVIOUS
    <2>1. PICK T \in B : \A U \in B : U \subseteq T => U = T
      <3>1. B \subseteq SUBSET S
        OBVIOUS
      <3> HIDE DEF B
      <3> QED BY <3>1, FiniteMinimum
    <2>2. T # {}
      BY SumEmpty
    <2>3. T \ {Pick(T)} \notin B /\ Pick(T) \in T
      BY <2>1, <2>2, PickIn
    <2>4. SumFunctionOnSet(f, T) = f[Pick(T)] + SumFunctionOnSet(f, T \ {Pick(T)})
      BY <2>2, SumPick, FS_Subset
    <2> QED BY <2>3, <2>4
  <1>2. ASSUME NEW x \in S PROVE f[x] <= SumFunctionOnSet(f, S)
    <2>1. SumFunctionOnSet(f, S) = f[x] + SumFunctionOnSet(f, S \ {x})
      BY SumRemove
    <2>2. SumFunctionOnSet(f, S \ {x}) \in Nat
      BY <1>1
    <2> QED BY <2>1, <2>2
  <1> QED BY <1>1, <1>2

\* A sum of zeros.
LEMMA SumZero ==
    ASSUME NEW f, NEW S, IsFiniteSet(S), \A x \in S : f[x] = 0
    PROVE  SumFunctionOnSet(f, S) = 0
  <1>1. SumFunctionOnSet(f, S) = SumFunctionOnSet(f, S) + SumFunctionOnSet(f, S)
    BY SumAdd
  <1>2. SumFunctionOnSet(f, S) \in Int
    BY SumType
  <1>3. \A n \in Int : n = n + n => n = 0
    OBVIOUS
  <1> DEFINE n == SumFunctionOnSet(f, S)
  <1>4. n \in Int /\ n = n + n
    BY <1>1, <1>2
  <1> HIDE DEF n
  <1>5. n = 0
    BY <1>3, <1>4
  <1> QED BY <1>5 DEF n

\* One summand changes.
LEMMA SumChange ==
    ASSUME NEW f, NEW g, NEW S, IsFiniteSet(S), NEW y \in S,
           \A x \in S : f[x] \in Int /\ g[x] \in Int,
           \A x \in S \ {y} : g[x] = f[x]
    PROVE  SumFunctionOnSet(g, S) = SumFunctionOnSet(f, S) - f[y] + g[y]
  <1>1. /\ SumFunctionOnSet(f, S) = f[y] + SumFunctionOnSet(f, S \ {y})
        /\ SumFunctionOnSet(g, S) = g[y] + SumFunctionOnSet(g, S \ {y})
    BY SumRemove
  <1>2. IsFiniteSet(S \ {y})
    BY FS_Subset
  <1>3. SumFunctionOnSet(f, S \ {y}) = SumFunctionOnSet(g, S \ {y})
    BY <1>2, SumAgree
  <1>4. SumFunctionOnSet(f, S \ {y}) \in Int
    BY <1>2, SumType
  <1> QED BY <1>1, <1>3, <1>4

\* Summing by destination first.
LEMMA SumPartition ==
    ASSUME NEW f, NEW S, IsFiniteSet(S), \A x \in S : f[x] \in Int,
           NEW D, IsFiniteSet(D), NEW to, \A x \in S : to[x] \in D
    PROVE  SumFunctionOnSet([d \in D |-> SumFunctionOnSet(f, {x \in S : to[x] = d})], D)
             = SumFunctionOnSet(f, S)
  <1> DEFINE Part(T) == [d \in D |-> SumFunctionOnSet(f, {x \in T : to[x] = d})]
             B == {T \in SUBSET S : SumFunctionOnSet(Part(T), D) # SumFunctionOnSet(f, T)}
  <1> SUFFICES ASSUME B # {} PROVE FALSE
    OBVIOUS
  <1>1. PICK T \in B : \A U \in B : U \subseteq T => U = T
    <2>1. B \subseteq SUBSET S
      OBVIOUS
    <2> HIDE DEF B
    <2> QED BY <2>1, FiniteMinimum
  <1>0. SumFunctionOnSet(Part(T), D) # SumFunctionOnSet(f, T) /\ T \in SUBSET S
    OBVIOUS
  <1>2. ASSUME NEW U \in SUBSET S, NEW d \in D
        PROVE  SumFunctionOnSet(f, {x \in U : to[x] = d}) \in Int
    <2>1. IsFiniteSet({x \in U : to[x] = d}) /\ \A x \in {x \in U : to[x] = d} : f[x] \in Int
      BY FS_Subset
    <2> QED BY <2>1, SumType
  <1>3. T # {}
    <2> SUFFICES ASSUME T = {} PROVE FALSE
      OBVIOUS
    <2>1. \A d \in D : {x \in T : to[x] = d} = {}
      OBVIOUS
    <2>2. \A d \in D : Part(T)[d] = 0
      BY <2>1, SumEmpty
    <2>3. SumFunctionOnSet(Part(T), D) = 0
      <3> HIDE DEF Part
      <3> QED BY <2>2, SumZero
    <2> QED BY <1>0, <2>3, SumEmpty
  <1>4. PICK y \in T : TRUE
    BY <1>3
  <1> DEFINE U == T \ {y}
             e == to[y]
  <1>5. U \notin B /\ U \in SUBSET S /\ IsFiniteSet(T) /\ e \in D /\ f[y] \in Int
    BY <1>1, <1>4, FS_Subset
  <1>6. SumFunctionOnSet(f, T) = f[y] + SumFunctionOnSet(f, U)
    <2>1. \A x \in T : f[x] \in Int
      OBVIOUS
    <2> QED BY <1>4, <1>5, <2>1, SumRemove
  <1>7. SumFunctionOnSet(Part(U), D) = SumFunctionOnSet(f, U)
    BY <1>5
  <1>8. \A d \in D \ {e} : Part(T)[d] = Part(U)[d]
    <2> SUFFICES ASSUME NEW d \in D, d # e PROVE Part(T)[d] = Part(U)[d]
      OBVIOUS
    <2>1. {x \in T : to[x] = d} = {x \in U : to[x] = d}
      OBVIOUS
    <2> QED BY <2>1
  <1>9. Part(T)[e] = f[y] + Part(U)[e]
    <2> DEFINE V == {x \in T : to[x] = e}
    <2>1. {x \in U : to[x] = e} = V \ {y}
      OBVIOUS
    <2>2. IsFiniteSet(V) /\ y \in V /\ \A x \in V : f[x] \in Int
      BY <1>4, FS_Subset
    <2>3. SumFunctionOnSet(f, V) = f[y] + SumFunctionOnSet(f, V \ {y})
      <3> HIDE DEF V
      <3> QED BY <2>2, SumRemove
    <2> QED BY <1>5, <2>1, <2>3
  <1>10. \A d \in D : Part(T)[d] \in Int /\ Part(U)[d] \in Int
    BY <1>2, <1>5
  <1>11. SumFunctionOnSet(Part(U), D) \in Int
    <2> HIDE DEF Part
    <2> QED BY <1>10, SumType
  <1> HIDE DEF Part, e, U, B
  <1>12. SumFunctionOnSet(Part(T), D)
           = SumFunctionOnSet(Part(U), D) - Part(U)[e] + Part(T)[e]
    BY <1>5, <1>8, <1>10, SumChange
  <1>13. SumFunctionOnSet(Part(T), D) = SumFunctionOnSet(Part(U), D) + f[y]
    BY <1>5, <1>9, <1>10, <1>11, <1>12
  <1> QED BY <1>0, <1>5, <1>6, <1>7, <1>11, <1>13

-----------------------------------------------------------------------------
(* Release chains.                                                         *)

\* A non-empty set of numbers has a least element.
LEMMA NatMinimum ==
    ASSUME NEW B, B \subseteq Nat, B # {}
    PROVE  \E m \in B : \A k \in B : m <= k
  <1>1. IsWellFoundedOn(OpToRel(<, Nat), Nat)
    BY NatLessThanWellFounded
  <1>2. PICK m \in B : \A k \in B : ~(<<k, m>> \in OpToRel(<, Nat))
    BY <1>1, WFMin
  <1>3. \A k \in B : ~(k < m)
    BY <1>2 DEF OpToRel
  <1> QED BY <1>3

\* w is the walk of FinalDestination from s, up to its step n.
IsWalk(w, s, n) == w = [i \in 0..n |-> IF i = 0 THEN s ELSE Hop(w[i - 1])]

Walk(s) == CHOOSE w : IsWalk(w, s, Cardinality(Allocations))

\* The recursive function in FinalDestination is a function: the walk exists.
LEMMA WalkExists ==
    ASSUME NEW s
    PROVE  /\ IsWalk(Walk(s), s, Cardinality(Allocations))
           /\ FinalDestination(s) = Walk(s)[Cardinality(Allocations)]
           /\ Cardinality(Allocations) \in Nat
  <1> DEFINE B == {n \in Nat : ~\E w : IsWalk(w, s, n)}
  <1>1. B = {}
    <2> SUFFICES ASSUME B # {} PROVE FALSE
      OBVIOUS
    <2>1. PICK n \in B : \A k \in B : n <= k
      <3>1. B \subseteq Nat
        OBVIOUS
      <3> HIDE DEF B
      <3> QED BY <3>1, NatMinimum
    <2>2. CASE n = 0
      <3>1. IsWalk([i \in 0..n |-> s], s, n)
        BY <2>2 DEF IsWalk
      <3> QED BY <3>1
    <2>3. CASE n # 0
      <3>1. n - 1 \in Nat /\ n - 1 \notin B
        BY <2>1, <2>3
      <3>2. PICK v : IsWalk(v, s, n - 1)
        BY <3>1
      <3> DEFINE w == [i \in 0..n |-> IF i = n THEN Hop(v[n - 1]) ELSE v[i]]
      <3>3. ASSUME NEW i \in 0..n
            PROVE  w[i] = IF i = 0 THEN s ELSE Hop(w[i - 1])
        <4>1. CASE i = n
          BY <2>3, <3>1, <4>1
        <4>2. CASE i # n
          <5>1. i \in 0..(n - 1) /\ (i # 0 => i - 1 \in 0..n /\ i - 1 # n)
            BY <4>2
          <5>2. v[i] = IF i = 0 THEN s ELSE Hop(v[i - 1])
            BY <3>2, <5>1 DEF IsWalk
          <5> QED BY <4>2, <5>1, <5>2
        <4> QED BY <4>1, <4>2
      <3>4. w = [i \in 0..n |-> IF i = 0 THEN s ELSE Hop(w[i - 1])]
        <4>1. w = [i \in 0..n |-> w[i]]
          OBVIOUS
        <4> HIDE DEF w
        <4> QED BY <3>3, <4>1
      <3>5. IsWalk(w, s, n)
        BY <3>4 DEF IsWalk
      <3> QED BY <3>5
    <2> QED BY <2>2, <2>3
  <1>2. Cardinality(Allocations) \in Nat
    BY FS_CardinalityType, NamesAssumption
  <1>3. IsWalk(Walk(s), s, Cardinality(Allocations))
    BY <1>1, <1>2 DEF Walk
  <1>4. FinalDestination(s) = Walk(s)[Cardinality(Allocations)]
    BY DEF FinalDestination, Walk, IsWalk
  <1> QED BY <1>2, <1>3, <1>4

\* Every Allocation releases to a place further down some order: the release
\* chains of Allocations never close to a cycle.
DestinationsDescend ==
    \E rank \in [Sources -> Nat] :
        \A a \in Allocations : rank[allocation[a].dest] < rank[a]

\* The chain from any source ends in a source that can take inventory back,
\* at once when the source itself can.
LEMMA ChainEnds ==
    ASSUME SeatTypeOK, DestinationsDescend, NEW s \in Sources
    PROVE  /\ FinalDestination(s) \in Sources
           /\ Live(FinalDestination(s))
           /\ Live(s) => FinalDestination(s) = s
  <1> DEFINE n == Cardinality(Allocations)
             w == Walk(s)
  <1>1. n \in Nat /\ FinalDestination(s) = w[n]
    BY WalkExists
  <1>2. \A i \in 0..n : w[i] = IF i = 0 THEN s ELSE Hop(w[i - 1])
    BY WalkExists DEF IsWalk
  <1> HIDE DEF n, w
  <1>3. \A x \in Sources : Hop(x) \in Sources /\ (Live(x) => Hop(x) = x)
    BY DEF Hop, Live, SeatTypeOK, AllocationRow, Sources
  <1>4. ASSUME NEW Q \in SUBSET (0..n), 0 \in Q, \A i \in Q : i < n => i + 1 \in Q
        PROVE  Q = 0..n
    <2> DEFINE B == (0..n) \ Q
    <2> SUFFICES ASSUME B # {} PROVE FALSE
      OBVIOUS
    <2>1. PICK m \in B : \A k \in B : m <= k
      <3>1. B \subseteq Nat
        BY <1>1
      <3> HIDE DEF B
      <3> QED BY <3>1, NatMinimum
    <2>2. m # 0 /\ m - 1 \in 0..n /\ m - 1 \notin B
      BY <1>1, <1>4, <2>1
    <2>3. (m - 1) + 1 \in Q
      BY <1>1, <1>4, <2>2
    <2> QED BY <1>1, <2>1, <2>3
  <1>5. \A i \in 0..n : w[i] \in Sources
    <2> DEFINE Q == {i \in 0..n : w[i] \in Sources}
    <2>1. 0 \in Q
      BY <1>1, <1>2
    <2>2. ASSUME NEW i \in Q, i < n PROVE i + 1 \in Q
      <3>1. i + 1 \in 0..n /\ w[i + 1] = Hop(w[i])
        BY <1>1, <1>2, <2>2
      <3> QED BY <1>3, <3>1
    <2>3. Q = 0..n
      <3>1. Q \in SUBSET (0..n)
        OBVIOUS
      <3> HIDE DEF Q
      <3> QED BY <1>4, <2>1, <2>2, <3>1
    <2> QED BY <2>3
  <1>6. ASSUME Live(s) PROVE w[n] = s
    <2> DEFINE Q == {i \in 0..n : w[i] = s}
    <2>1. 0 \in Q
      BY <1>1, <1>2
    <2>2. ASSUME NEW i \in Q, i < n PROVE i + 1 \in Q
      <3>1. i + 1 \in 0..n /\ w[i + 1] = Hop(w[i])
        BY <1>1, <1>2, <2>2
      <3> QED BY <1>3, <1>6, <3>1
    <2>3. Q = 0..n
      <3>1. Q \in SUBSET (0..n)
        OBVIOUS
      <3> HIDE DEF Q
      <3> QED BY <1>4, <2>1, <2>2, <3>1
    <2> QED BY <1>1, <2>3
  <1>7. Live(w[n])
    <2> SUFFICES ASSUME ~Live(w[n]) PROVE FALSE
      OBVIOUS
    <2>1. \A i \in 0..n : i < n => w[i + 1] = Hop(w[i])
      BY <1>1, <1>2
    <2>2. \A i \in 0..n : ~Live(w[i])
      <3> DEFINE Q == {j \in 0..n : ~Live(w[n - j])}
      <3>1. 0 \in Q
        BY <1>1
      <3>2. ASSUME NEW j \in Q, j < n PROVE j + 1 \in Q
        <4> DEFINE i == n - (j + 1)
        <4>1. i \in 0..n /\ i < n /\ i + 1 = n - j /\ j + 1 \in 0..n
          BY <1>1, <3>2
        <4>2. w[n - j] = Hop(w[i]) /\ ~Live(w[n - j])
          BY <2>1, <4>1
        <4> HIDE DEF i
        <4>3. ~Live(w[i])
          BY <1>3, <1>5, <4>1, <4>2
        <4> QED BY <4>1, <4>3 DEF i
      <3>3. Q = 0..n
        <4>1. Q \in SUBSET (0..n)
          OBVIOUS
        <4> HIDE DEF Q
        <4> QED BY <1>4, <3>1, <3>2, <4>1
      <3>4. ASSUME NEW i \in 0..n PROVE ~Live(w[i])
        <4> DEFINE j == n - i
        <4>1. j \in 0..n /\ n - j = i
          BY <1>1
        <4> HIDE DEF j
        <4> QED BY <3>3, <4>1
      <3> QED BY <3>4
    <2>3. \A i \in 0..n : w[i] \in Allocations
      BY <1>5, <2>2 DEF Live, Sources
    <2>4. PICK rank \in [Sources -> Nat] :
            \A a \in Allocations : rank[allocation[a].dest] < rank[a]
      BY DEF DestinationsDescend
    <2>5. ASSUME NEW i \in 0..n, i < n
          PROVE  rank[w[i + 1]] < rank[w[i]]
      BY <2>1, <2>2, <2>3, <2>4, <2>5 DEF Hop
    <2>6. \A i \in 0..n : rank[w[i]] \in Nat
      BY <1>5, <2>4
    <2>7. ASSUME NEW i \in 0..n, NEW j \in 0..n, i < j
          PROVE  rank[w[j]] < rank[w[i]]
      <3> DEFINE Q == {k \in 0..n : i < k => rank[w[k]] < rank[w[i]]}
      <3>1. 0 \in Q
        BY <1>1
      <3>2. ASSUME NEW k \in Q, k < n PROVE k + 1 \in Q
        <4>1. k + 1 \in 0..n /\ k \in 0..n
          BY <1>1, <3>2
        <4>2. CASE i < k
          BY <2>5, <2>6, <3>2, <4>1, <4>2
        <4>3. CASE i = k
          BY <2>5, <3>2, <4>1, <4>3
        <4>4. CASE k < i
          BY <4>1, <4>4
        <4> QED BY <4>1, <4>2, <4>3, <4>4
      <3>3. Q = 0..n
        <4>1. Q \in SUBSET (0..n)
          OBVIOUS
        <4> HIDE DEF Q
        <4> QED BY <1>4, <3>1, <3>2, <4>1
      <3> QED BY <2>7, <3>3
    <2> DEFINE f == [i \in 0..n |-> w[i]]
    <2>8. IsFiniteSet(0..n) /\ Cardinality(0..n) = n + 1
      BY <1>1, FS_Interval
    <2>9. f \in [0..n -> Allocations] /\ IsFiniteSet(Allocations)
      BY <2>3, NamesAssumption
    <2>10. \E i, j \in 0..n : i # j /\ f[i] = f[j]
      <3>1. Cardinality(Allocations) < Cardinality(0..n)
        BY <1>1, <2>8 DEF n
      <3> HIDE DEF f
      <3> QED BY <2>8, <2>9, <3>1, FS_PigeonHole
    <2>11. PICK i \in 0..n, j \in 0..n : i < j /\ w[i] = w[j]
      BY <1>1, <2>10
    <2> QED BY <2>6, <2>7, <2>11
  <1> QED BY <1>1, <1>5, <1>6, <1>7

-----------------------------------------------------------------------------
(* Rows, and the steps that several handlers share.                        *)

\* The rows of the GA tables, and what holds of every bucket.
GARow == [assigned : Nat, available : Nat, reserved : Nat,
          sold : Nat, issued : Nat, released : Nat]

RowsOK(G) == G \in [Sources -> [Pools -> GARow]]

BucketsOK(G) ==
    \A a \in Allocations, p \in Pools :
        /\ G[a][p].assigned = Current(G[a][p]) + G[a][p].released
        /\ ~Active(a) => G[a][p].available = 0
        /\ allocation[a].state = "NONE" => G[a][p] = Row(0, 0)

\* What the sources of a pool account for together.
PoolSum(G, p) == SumFunctionOnSet([s \in Sources |-> Current(G[s][p])], Sources)

\* Two states of the rows account for the same places of each pool.
SamePool(G, H) ==
    \A p \in Pools : /\ PoolSum(H, p) = PoolSum(G, p)
                     /\ H[Shared][p].assigned = G[Shared][p].assigned

\* Numbers of places, per source and pool.
PlaceCounts == [Sources -> [Pools -> Nat]]

\* The sources are finitely many: Shared and the Allocations.
LEMMA SourcesFinite ==
    /\ IsFiniteSet(Sources) /\ Shared \in Sources /\ Allocations \subseteq Sources
    /\ \A s \in Sources : s # Shared => s \in Allocations
  BY NamesAssumption, FS_AddElement DEF Sources

\* Rows that account for the same have the same sum.
LEMMA SamePoolSum ==
    ASSUME NEW G, NEW H, NEW p,
           \A s \in Sources : Current(H[s][p]) = Current(G[s][p])
    PROVE  PoolSum(H, p) = PoolSum(G, p)
  <1> DEFINE f == [s \in Sources |-> Current(G[s][p])]
             g == [s \in Sources |-> Current(H[s][p])]
  <1>1. \A s \in Sources : f[s] = g[s]
    OBVIOUS
  <1>2. SumFunctionOnSet(f, Sources) = SumFunctionOnSet(g, Sources)
    <2> HIDE DEF f, g
    <2> QED BY <1>1, SourcesFinite, SumAgree
  <1> QED BY <1>2 DEF PoolSum

\* What comes back to s: its own places, if it is live, and what is forwarded.
LEMMA Arrivals ==
    ASSUME SeatTypeOK, DestinationsDescend, NEW P \in PlaceCounts,
           NEW s \in Sources, NEW p \in Pools
    PROVE  /\ SumFunctionOnSet([x \in Sources |-> P[x][p]],
                               {x \in Sources : FinalDestination(x) = s})
                = (IF Live(s) THEN P[s][p] ELSE 0) + Forwarded(P, s, p)
           /\ Forwarded(P, s, p) \in Nat
           /\ ~Live(s) => Forwarded(P, s, p) = 0
  <1> DEFINE f == [x \in Sources |-> P[x][p]]
             V == {x \in Sources : FinalDestination(x) = s}
             W == {a \in Allocations : ~Active(a) /\ FinalDestination(a) = s}
  <1>1. \A x \in Sources : f[x] \in Nat
    BY DEF PlaceCounts
  <1>2. IsFiniteSet(V) /\ IsFiniteSet(W) /\ V \subseteq Sources /\ W \subseteq Sources
    BY SourcesFinite, FS_Subset
  <1>3. \A x \in Sources : Live(x) <=> x = Shared \/ Active(x)
    BY SourcesFinite DEF Live
  <1>4. Shared \notin Allocations
    BY NamesAssumption
  <1>5. Forwarded(P, s, p) = SumFunctionOnSet(f, W)
    BY DEF Forwarded
  <1> HIDE DEF f
  <1>6. Forwarded(P, s, p) \in Nat
    <2> HIDE DEF W
    <2> QED BY <1>1, <1>2, <1>5, SumNat
  <1>7. CASE Live(s)
    <2>1. s \in V /\ V \ {s} = W
      BY <1>3, <1>4, <1>7, ChainEnds, SourcesFinite
    <2>2. \A x \in V : f[x] \in Int
      BY <1>1, <1>2
    <2>3. SumFunctionOnSet(f, V) = f[s] + SumFunctionOnSet(f, W)
      <3> HIDE DEF V, W
      <3> QED BY <1>2, <2>1, <2>2, SumRemove
    <2>4. f[s] = P[s][p]
      BY DEF f
    <2> QED BY <1>5, <1>6, <1>7, <2>3, <2>4 DEF f
  <1>8. CASE ~Live(s)
    <2>1. V = {} /\ W = {}
      BY <1>8, ChainEnds, SourcesFinite
    <2>2. SumFunctionOnSet(f, V) = 0 /\ SumFunctionOnSet(f, W) = 0
      BY <2>1, SumEmpty
    <2> QED BY <1>5, <1>8, <2>2 DEF f
  <1> QED BY <1>6, <1>7, <1>8

\* One row of it: x places leave it, b of them come back with e others.
ReturnedRow(row, x, b, e, d) ==
    [row EXCEPT !.reserved  = @ - x, !.available = @ + b + e,
                !.released  = @ + (x - b), !.assigned  = @ + d]

\* Returned places: nothing is lost or made, and every bucket still accounts
\* for what it was assigned.
LEMMA ReturnPlaces ==
    ASSUME SeatTypeOK, DestinationsDescend, RowsOK(ga), BucketsOK(ga), NEW P \in PlaceCounts,
           \A s \in Sources, p \in Pools : P[s][p] <= ga[s][p].reserved,
           NEW G, G = GAAfterReturn(P)
    PROVE  /\ RowsOK(G) /\ BucketsOK(G) /\ SamePool(ga, G)
           /\ \A s \in Sources, p \in Pools :
                G[s][p].reserved = ga[s][p].reserved - P[s][p]
  <1> DEFINE back(s, p) == IF Live(s) THEN P[s][p] ELSE 0
             extra(s, p) == Forwarded(P, s, p)
  <1>1. ASSUME NEW s \in Sources, NEW p \in Pools
        PROVE  /\ ga[s][p] \in GARow /\ P[s][p] \in Nat
               /\ back(s, p) \in Nat /\ back(s, p) <= P[s][p] /\ extra(s, p) \in Nat
               /\ ~Live(s) => back(s, p) = 0 /\ extra(s, p) = 0
    <2>1. ga[s][p] \in GARow /\ P[s][p] \in Nat
      BY DEF RowsOK, PlaceCounts
    <2>2. back(s, p) \in Nat /\ back(s, p) <= P[s][p] /\ (~Live(s) => back(s, p) = 0)
      BY <2>1
    <2>3. extra(s, p) \in Nat /\ (~Live(s) => extra(s, p) = 0)
      BY Arrivals
    <2> QED BY <2>1, <2>2, <2>3
  <1>2. ASSUME NEW s \in Sources, NEW p \in Pools
        PROVE  G[s][p] = ReturnedRow(ga[s][p], P[s][p], back(s, p), extra(s, p),
                                     IF s = Shared THEN 0 ELSE extra(s, p))
    BY DEF GAAfterReturn, ReturnedRow
  <1>3. DOMAIN G = Sources /\ \A s \in Sources : G[s] = [p \in Pools |-> G[s][p]]
    BY DEF GAAfterReturn
  <1> HIDE DEF back, extra
  <1>4. ASSUME NEW s \in Sources, NEW p \in Pools
        PROVE  /\ G[s][p] \in GARow
               /\ G[s][p].reserved = ga[s][p].reserved - P[s][p]
               /\ G[s][p].available = ga[s][p].available + back(s, p) + extra(s, p)
               /\ G[s][p].released = ga[s][p].released + (P[s][p] - back(s, p))
               /\ G[s][p].assigned = ga[s][p].assigned
                                       + (IF s = Shared THEN 0 ELSE extra(s, p))
               /\ Current(G[s][p]) = Current(ga[s][p]) - P[s][p] + (back(s, p) + extra(s, p))
               /\ Current(ga[s][p]) \in Nat
               /\ P[s][p] = 0 /\ extra(s, p) = 0 => G[s][p] = ga[s][p]
    <2> DEFINE d == IF s = Shared THEN 0 ELSE extra(s, p)
               row == ga[s][p]
               x == P[s][p]
               b == back(s, p)
               e == extra(s, p)
               new == G[s][p]
    <2>1. /\ row \in GARow /\ x \in Nat /\ x <= row.reserved /\ b \in Nat /\ b <= x
          /\ e \in Nat /\ d \in Nat /\ (e = 0 => d = 0)
      BY <1>1
    <2>2. new = ReturnedRow(row, x, b, e, d)
      BY <1>2
    <2> HIDE DEF d, row, x, b, e, new
    <2>3. /\ new \in GARow
          /\ new.reserved = row.reserved - x
          /\ new.available = row.available + b + e
          /\ new.released = row.released + (x - b)
          /\ new.assigned = row.assigned + d
          /\ Current(new) = Current(row) - x + (b + e)
          /\ Current(row) \in Nat
          /\ x = 0 /\ e = 0 /\ d = 0 => new = row
      <3>1. /\ new = [assigned |-> row.assigned + d, available |-> row.available + b + e,
                      reserved |-> row.reserved - x, sold |-> row.sold,
                      issued |-> row.issued, released |-> row.released + (x - b)]
        BY <2>1, <2>2 DEF GARow, ReturnedRow
      <3>2. /\ row = [assigned |-> row.assigned, available |-> row.available,
                      reserved |-> row.reserved, sold |-> row.sold,
                      issued |-> row.issued, released |-> row.released]
            /\ row.assigned \in Nat /\ row.available \in Nat /\ row.reserved \in Nat
            /\ row.sold \in Nat /\ row.issued \in Nat /\ row.released \in Nat
        BY <2>1 DEF GARow
      <3>3. new \in GARow
        BY <2>1, <3>1, <3>2 DEF GARow
      <3>4. ASSUME x = 0, e = 0, d = 0 PROVE new = row
        <4>1. /\ row.assigned + d = row.assigned /\ row.available + b + e = row.available
              /\ row.reserved - x = row.reserved /\ row.released + (x - b) = row.released
          BY <2>1, <3>2, <3>4
        <4> QED BY <3>1, <3>2, <4>1
      <3>5. /\ new.reserved = row.reserved - x
            /\ new.available = row.available + b + e
            /\ new.released = row.released + (x - b)
            /\ new.assigned = row.assigned + d
            /\ new.sold = row.sold /\ new.issued = row.issued
        BY <3>1
      <3> QED BY <2>1, <3>2, <3>3, <3>4, <3>5 DEF Current
    <2> QED BY <2>1, <2>3 DEF d, row, x, b, e, new
  <1>5. RowsOK(G)
    BY <1>3, <1>4, Zenon DEF RowsOK, GAAfterReturn
  <1>6. BucketsOK(G)
    <2> SUFFICES ASSUME NEW a \in Allocations, NEW p \in Pools
                 PROVE  /\ G[a][p].assigned = Current(G[a][p]) + G[a][p].released
                        /\ ~Active(a) => G[a][p].available = 0
                        /\ allocation[a].state = "NONE" => G[a][p] = Row(0, 0)
      BY DEF BucketsOK
    <2>1. a \in Sources /\ a # Shared
      BY NamesAssumption, SourcesFinite
    <2>2. /\ ga[a][p].assigned = Current(ga[a][p]) + ga[a][p].released
          /\ ~Active(a) => ga[a][p].available = 0
          /\ allocation[a].state = "NONE" => ga[a][p] = Row(0, 0)
      BY DEF BucketsOK
    <2>3. G[a][p].assigned = Current(G[a][p]) + G[a][p].released
      BY <1>1, <1>4, <2>1, <2>2 DEF GARow
    <2>4. ~Active(a) => back(a, p) = 0 /\ extra(a, p) = 0
      BY <1>1, <2>1 DEF Live
    <2>5. ~Active(a) => G[a][p].available = 0
      BY <1>4, <2>1, <2>2, <2>4
    <2>6. ASSUME allocation[a].state = "NONE" PROVE G[a][p] = Row(0, 0)
      <3>1. ~Active(a) /\ ga[a][p] = Row(0, 0)
        BY <2>2, <2>6 DEF Active
      <3>2. P[a][p] = 0
        BY <1>1, <2>1, <3>1 DEF Row
      <3> QED BY <1>4, <2>1, <2>4, <3>1, <3>2
    <2> QED BY <2>3, <2>5, <2>6
  <1>7. ASSUME NEW p \in Pools PROVE PoolSum(G, p) = PoolSum(ga, p)
    <2> DEFINE f == [s \in Sources |-> P[s][p]]
               cur == [s \in Sources |-> Current(ga[s][p])]
               new == [s \in Sources |-> Current(G[s][p])]
               kept == [s \in Sources |-> Current(ga[s][p]) - P[s][p]]
               come == [s \in Sources |-> back(s, p) + extra(s, p)]
               to == [s \in Sources |-> FinalDestination(s)]
               parts == [s \in Sources |-> SumFunctionOnSet(f, {x \in Sources : to[x] = s})]
    <2>1. \A s \in Sources : /\ f[s] \in Int /\ cur[s] \in Int /\ kept[s] \in Int
                             /\ come[s] \in Int
                             /\ new[s] = kept[s] + come[s] /\ cur[s] = kept[s] + f[s]
      BY <1>1, <1>4
    <2>2. \A s \in Sources : to[s] \in Sources
      BY ChainEnds
    <2>3. ASSUME NEW s \in Sources PROVE parts[s] = come[s]
      <3>1. {x \in Sources : to[x] = s} = {x \in Sources : FinalDestination(x) = s}
        OBVIOUS
      <3>2. SumFunctionOnSet(f, {x \in Sources : FinalDestination(x) = s})
              = back(s, p) + extra(s, p)
        BY Arrivals DEF back, extra
      <3> HIDE DEF f, to
      <3> QED BY <3>1, <3>2
    <2>4. SumFunctionOnSet(parts, Sources) = SumFunctionOnSet(f, Sources)
      <3> HIDE DEF f, to
      <3> QED BY <2>1, <2>2, SourcesFinite, SumPartition
    <2> HIDE DEF f, cur, new, kept, come, parts
    <2>5. SumFunctionOnSet(parts, Sources) = SumFunctionOnSet(come, Sources)
      BY <2>3, SourcesFinite, SumAgree
    <2>6. /\ SumFunctionOnSet(new, Sources)
               = SumFunctionOnSet(kept, Sources) + SumFunctionOnSet(come, Sources)
          /\ SumFunctionOnSet(cur, Sources)
               = SumFunctionOnSet(kept, Sources) + SumFunctionOnSet(f, Sources)
      BY <2>1, SourcesFinite, SumAdd
    <2> QED BY <2>4, <2>5, <2>6 DEF PoolSum, new, cur
  <1>8. SamePool(ga, G)
    BY <1>1, <1>4, <1>7, SourcesFinite DEF SamePool, GARow
  <1> QED BY <1>4, <1>5, <1>6, <1>8

\* Rows that move places between their own columns keep every account.
LEMMA MovePlaces ==
    ASSUME NEW G, RowsOK(G), BucketsOK(G), NEW H, RowsOK(H),
           \A s \in Sources, p \in Pools :
              /\ H[s][p].assigned = G[s][p].assigned
              /\ H[s][p].released = G[s][p].released
              /\ Current(H[s][p]) = Current(G[s][p])
              /\ s # Shared /\ ~Active(s) => H[s][p].available = G[s][p].available
              /\ s # Shared /\ allocation[s].state = "NONE" => H[s][p] = G[s][p]
    PROVE  BucketsOK(H) /\ SamePool(G, H)
  <1>1. BucketsOK(H)
    <2> SUFFICES ASSUME NEW a \in Allocations, NEW p \in Pools
                 PROVE  /\ H[a][p].assigned = Current(H[a][p]) + H[a][p].released
                        /\ ~Active(a) => H[a][p].available = 0
                        /\ allocation[a].state = "NONE" => H[a][p] = Row(0, 0)
      BY DEF BucketsOK
    <2>1. a \in Sources /\ a # Shared
      BY NamesAssumption, SourcesFinite
    <2> QED BY <2>1 DEF BucketsOK
  <1>2. \A p \in Pools : PoolSum(H, p) = PoolSum(G, p)
    BY SamePoolSum
  <1> QED BY <1>1, <1>2, SourcesFinite DEF SamePool

\* Reserving available places.
LEMMA AcquirePlaces ==
    ASSUME NEW G, RowsOK(G), BucketsOK(G), NEW P \in PlaceCounts,
           \A s \in Sources, p \in Pools : P[s][p] <= G[s][p].available,
           NEW H, H = GAAfterAcquire(G, P)
    PROVE  /\ RowsOK(H) /\ BucketsOK(H) /\ SamePool(G, H)
           /\ \A s \in Sources, p \in Pools :
                H[s][p].reserved = G[s][p].reserved + P[s][p]
  <1>1. ASSUME NEW s \in Sources, NEW p \in Pools
        PROVE  /\ H[s][p] \in GARow
               /\ H[s][p].assigned = G[s][p].assigned
               /\ H[s][p].released = G[s][p].released
               /\ H[s][p].reserved = G[s][p].reserved + P[s][p]
               /\ Current(H[s][p]) = Current(G[s][p])
               /\ G[s][p].available = 0 => H[s][p] = G[s][p]
    <2> DEFINE row == G[s][p]
               x == P[s][p]
    <2>1. /\ row = [assigned |-> row.assigned, available |-> row.available,
                    reserved |-> row.reserved, sold |-> row.sold,
                    issued |-> row.issued, released |-> row.released]
          /\ row.assigned \in Nat /\ row.available \in Nat /\ row.reserved \in Nat
          /\ row.sold \in Nat /\ row.issued \in Nat /\ row.released \in Nat
          /\ x \in Nat /\ x <= row.available
      BY DEF RowsOK, GARow, PlaceCounts
    <2>2. H[s][p] = [row EXCEPT !.available = @ - x, !.reserved = @ + x]
      BY DEF GAAfterAcquire
    <2> HIDE DEF row, x
    <2>3. H[s][p] = [assigned |-> row.assigned, available |-> row.available - x,
                     reserved |-> row.reserved + x, sold |-> row.sold,
                     issued |-> row.issued, released |-> row.released]
      BY <2>1, <2>2
    <2>4. ASSUME row.available = 0 PROVE H[s][p] = row
      <3>1. row.available - x = row.available /\ row.reserved + x = row.reserved
        BY <2>1, <2>4
      <3> QED BY <2>1, <2>3, <3>1
    <2>5. H[s][p] \in GARow
      BY <2>1, <2>3 DEF GARow
    <2>6. Current(H[s][p]) = Current(row)
      BY <2>1, <2>3 DEF Current
    <2> QED BY <2>3, <2>4, <2>5, <2>6 DEF row, x
  <1>2. RowsOK(H)
    <2>1. DOMAIN H = Sources /\ \A s \in Sources : H[s] = [p \in Pools |-> H[s][p]]
      BY DEF GAAfterAcquire
    <2> QED BY <1>1, <2>1, Zenon DEF RowsOK, GAAfterAcquire
  <1>3. ASSUME NEW s \in Sources, s # Shared, ~Active(s), NEW p \in Pools
        PROVE  H[s][p] = G[s][p]
    <2>1. G[s][p].available = 0
      BY <1>3, SourcesFinite DEF BucketsOK
    <2> QED BY <1>1, <2>1
  <1>4. ASSUME NEW s \in Sources, allocation[s].state = "NONE" PROVE ~Active(s)
    BY <1>4 DEF Active
  <1>5. BucketsOK(H) /\ SamePool(G, H)
    <2>1. \A s \in Sources, p \in Pools :
              /\ H[s][p].assigned = G[s][p].assigned
              /\ H[s][p].released = G[s][p].released
              /\ Current(H[s][p]) = Current(G[s][p])
              /\ s # Shared /\ ~Active(s) => H[s][p].available = G[s][p].available
              /\ s # Shared /\ allocation[s].state = "NONE" => H[s][p] = G[s][p]
      BY <1>1, <1>3, <1>4
    <2> QED BY <1>2, <2>1, MovePlaces
  <1> QED BY <1>1, <1>2, <1>5

\* Selling reserved places.
LEMMA SalePlaces ==
    ASSUME RowsOK(ga), BucketsOK(ga), NEW P \in PlaceCounts,
           \A s \in Sources, p \in Pools : P[s][p] <= ga[s][p].reserved,
           NEW H, H = GAAfterSale(P)
    PROVE  /\ RowsOK(H) /\ BucketsOK(H) /\ SamePool(ga, H)
           /\ \A s \in Sources, p \in Pools :
                H[s][p].reserved = ga[s][p].reserved - P[s][p]
  <1>1. ASSUME NEW s \in Sources, NEW p \in Pools
        PROVE  /\ H[s][p] \in GARow
               /\ H[s][p].assigned = ga[s][p].assigned
               /\ H[s][p].available = ga[s][p].available
               /\ H[s][p].released = ga[s][p].released
               /\ H[s][p].reserved = ga[s][p].reserved - P[s][p]
               /\ Current(H[s][p]) = Current(ga[s][p])
               /\ ga[s][p].reserved = 0 => H[s][p] = ga[s][p]
    <2> DEFINE row == ga[s][p]
               x == P[s][p]
    <2>1. /\ row = [assigned |-> row.assigned, available |-> row.available,
                    reserved |-> row.reserved, sold |-> row.sold,
                    issued |-> row.issued, released |-> row.released]
          /\ row.assigned \in Nat /\ row.available \in Nat /\ row.reserved \in Nat
          /\ row.sold \in Nat /\ row.issued \in Nat /\ row.released \in Nat
          /\ x \in Nat /\ x <= row.reserved
      BY DEF RowsOK, GARow, PlaceCounts
    <2>2. H[s][p] = [row EXCEPT !.reserved = @ - x, !.sold = @ + x]
      BY DEF GAAfterSale
    <2> HIDE DEF row, x
    <2>3. H[s][p] = [assigned |-> row.assigned, available |-> row.available,
                     reserved |-> row.reserved - x, sold |-> row.sold + x,
                     issued |-> row.issued, released |-> row.released]
      BY <2>1, <2>2
    <2>4. ASSUME row.reserved = 0 PROVE H[s][p] = row
      <3>1. row.reserved - x = row.reserved /\ row.sold + x = row.sold
        BY <2>1, <2>4
      <3> QED BY <2>1, <2>3, <3>1
    <2>5. H[s][p] \in GARow
      BY <2>1, <2>3 DEF GARow
    <2>6. Current(H[s][p]) = Current(row)
      BY <2>1, <2>3 DEF Current
    <2> QED BY <2>3, <2>4, <2>5, <2>6 DEF row, x
  <1>2. RowsOK(H)
    <2>1. DOMAIN H = Sources /\ \A s \in Sources : H[s] = [p \in Pools |-> H[s][p]]
      BY DEF GAAfterSale
    <2> QED BY <1>1, <2>1, Zenon DEF RowsOK, GAAfterSale
  <1>3. ASSUME NEW s \in Sources, s # Shared, allocation[s].state = "NONE", NEW p \in Pools
        PROVE  H[s][p] = ga[s][p]
    <2>1. ga[s][p].reserved = 0
      BY <1>3, SourcesFinite DEF BucketsOK, Row
    <2> QED BY <1>1, <2>1
  <1>4. BucketsOK(H) /\ SamePool(ga, H)
    <2>1. \A s \in Sources, p \in Pools :
              /\ H[s][p].assigned = ga[s][p].assigned
              /\ H[s][p].released = ga[s][p].released
              /\ Current(H[s][p]) = Current(ga[s][p])
              /\ s # Shared /\ ~Active(s) => H[s][p].available = ga[s][p].available
              /\ s # Shared /\ allocation[s].state = "NONE" => H[s][p] = ga[s][p]
      BY <1>1, <1>3
    <2> QED BY <1>2, <2>1, MovePlaces
  <1> QED BY <1>1, <1>2, <1>4

-----------------------------------------------------------------------------
(* What reservations hold.                                                 *)

\* What active reservations hold from source s in pool p.
HeldFrom(s, p) ==
    SumFunctionOnSet([r \in Reservations |-> items[r].places[s][p]],
                     {r \in Reservations : IsActive(r)})

\* The part of r in it.
Share(r, s, p) == IF IsActive(r) THEN items[r].places[s][p] ELSE 0

\* When only r changes, what is held changes by what r's part changes.
LEMMA HeldChange ==
    ASSUME ReservationTypeOK, ReservationTypeOK', NEW r \in Reservations,
           \A o \in Reservations \ {r} : items'[o] = items[o] /\ (IsActive(o)' <=> IsActive(o)),
           NEW s \in Sources, NEW p \in Pools
    PROVE  /\ HeldFrom(s, p) \in Nat /\ Share(r, s, p) \in Nat /\ Share(r, s, p)' \in Nat
           /\ Share(r, s, p) <= HeldFrom(s, p)
           /\ HeldFrom(s, p)' = HeldFrom(s, p) - Share(r, s, p) + Share(r, s, p)'
  <1> DEFINE f == [o \in Reservations |-> items[o].places[s][p]]
             g == [o \in Reservations |-> items'[o].places[s][p]]
             A == {o \in Reservations : IsActive(o)}
             B == {o \in Reservations : IsActive(o)'}
  <1>1. \A o \in Reservations : f[o] \in Nat /\ g[o] \in Nat
    BY DEF ReservationTypeOK
  <1>2. \A o \in Reservations \ {r} : f[o] = g[o]
    OBVIOUS
  <1>3. A \ {r} = B \ {r} /\ IsFiniteSet(A) /\ IsFiniteSet(B) /\ IsFiniteSet(A \ {r})
    BY NamesAssumption, FS_Subset
  <1>4. r \in Reservations /\ (IsActive(r) <=> r \in A) /\ (IsActive(r)' <=> r \in B)
    OBVIOUS
  <1>5. HeldFrom(s, p) = SumFunctionOnSet(f, A) /\ HeldFrom(s, p)' = SumFunctionOnSet(g, B)
    BY DEF HeldFrom
  <1>6. /\ Share(r, s, p) = IF r \in A THEN f[r] ELSE 0
        /\ Share(r, s, p)' = IF r \in B THEN g[r] ELSE 0
    BY <1>4 DEF Share
  <1>7. A \subseteq Reservations /\ B \subseteq Reservations
    OBVIOUS
  <1> HIDE DEF f, g, A, B
  <1>8. SumFunctionOnSet(f, A \ {r}) = SumFunctionOnSet(g, A \ {r})
    BY <1>2, <1>3, <1>7, SumAgree
  <1>9. SumFunctionOnSet(f, A \ {r}) \in Nat
    BY <1>1, <1>3, <1>7, SumNat
  <1>10. SumFunctionOnSet(f, A) = (IF r \in A THEN f[r] ELSE 0) + SumFunctionOnSet(f, A \ {r})
    <2>1. CASE r \in A
      BY <1>1, <1>3, <1>7, <2>1, SumRemove
    <2>2. CASE r \notin A
      <3>1. A \ {r} = A
        BY <2>2
      <3> QED BY <1>9, <2>2, <3>1
    <2> QED BY <2>1, <2>2
  <1>11. SumFunctionOnSet(g, B) = (IF r \in B THEN g[r] ELSE 0) + SumFunctionOnSet(g, B \ {r})
    <2>1. CASE r \in B
      BY <1>1, <1>3, <1>7, <2>1, SumRemove
    <2>2. CASE r \notin B
      <3>1. B \ {r} = B
        BY <2>2
      <3> QED BY <1>3, <1>8, <1>9, <2>2, <3>1
    <2> QED BY <2>1, <2>2
  <1> DEFINE x == IF r \in A THEN f[r] ELSE 0
             y == IF r \in B THEN g[r] ELSE 0
             z == SumFunctionOnSet(f, A \ {r})
  <1>12. x \in Nat /\ y \in Nat /\ z \in Nat
    BY <1>1, <1>4, <1>9
  <1>13. HeldFrom(s, p) = x + z /\ HeldFrom(s, p)' = y + z
    BY <1>3, <1>5, <1>8, <1>10, <1>11
  <1>14. Share(r, s, p) = x /\ Share(r, s, p)' = y
    BY <1>6
  <1> HIDE DEF x, y, z
  <1> QED BY <1>12, <1>13, <1>14

-----------------------------------------------------------------------------
(* The invariant.                                                          *)

\* What the Blocks hold back from pool p.
Blocked(p) == SumFunctionOnSet([b \in Blocks |-> block[b].blocked[p]], Blocks)

\* The two properties, with the sums named.
PoolsBalanced == \A p \in Pools : PoolSum(ga, p) + Blocked(p) = ga[Shared][p].assigned

HeldMatches == \A s \in Sources, p \in Pools : ga[s][p].reserved = HeldFrom(s, p)

\* An Allocation releases to one that was created before it.
DestinationsExist ==
    \A a \in Allocations :
        allocation[a].dest # Shared => allocation[allocation[a].dest].state # "NONE"

\* Only an ACTIVE Block holds places back.
BlocksOK == \A b \in Blocks, p \in Pools : block[b].state # "ACTIVE" => block[b].blocked[p] = 0

\* The inductive invariant.  The balance needs the reserved counters to match
\* what reservations list, which needs release chains without cycles, which
\* needs that a new Allocation is nobody's destination yet.
PlaceInv ==
    /\ RowsOK(ga) /\ BucketsOK(ga) /\ BlocksOK
    /\ PoolsBalanced
    /\ HeldMatches
    /\ DestinationsDescend
    /\ DestinationsExist

\* A step that moves places between columns of the same pool and changes what
\* one reservation holds keeps the invariant, when the reserved counters follow.
LEMMA OneReservationMoves ==
    ASSUME PlaceInv, CoreTypeOK, CoreTypeOK', NEW r \in Reservations,
           \A o \in Reservations \ {r} : items'[o] = items[o] /\ (IsActive(o)' <=> IsActive(o)),
           UNCHANGED <<allocation, block>>,
           RowsOK(ga'), BucketsOK(ga'), SamePool(ga, ga'),
           \A s \in Sources, p \in Pools :
              ga'[s][p].reserved = ga[s][p].reserved - Share(r, s, p) + Share(r, s, p)'
    PROVE  PlaceInv'
  <1>1. RowsOK(ga)' /\ BucketsOK(ga)'
    BY DEF RowsOK, BucketsOK, Active
  <1>2. PoolsBalanced'
    <2> SUFFICES ASSUME NEW p \in Pools
                 PROVE  (PoolSum(ga, p) + Blocked(p))' = ga'[Shared][p].assigned
      BY DEF PoolsBalanced
    <2>1. PoolSum(ga, p)' = PoolSum(ga, p)
      BY DEF SamePool, PoolSum
    <2>2. Blocked(p)' = Blocked(p)
      BY DEF Blocked
    <2> QED BY <2>1, <2>2 DEF PlaceInv, PoolsBalanced, SamePool
  <1>3. HeldMatches'
    <2> SUFFICES ASSUME NEW s \in Sources, NEW p \in Pools
                 PROVE  ga'[s][p].reserved = HeldFrom(s, p)'
      BY DEF HeldMatches
    <2>1. HeldFrom(s, p)' = HeldFrom(s, p) - Share(r, s, p) + Share(r, s, p)'
      BY HeldChange DEF CoreTypeOK
    <2> QED BY <2>1 DEF PlaceInv, HeldMatches
  <1>4. DestinationsDescend' /\ DestinationsExist' /\ BlocksOK'
    BY DEF PlaceInv, DestinationsDescend, DestinationsExist, BlocksOK
  <1> QED BY <1>1, <1>2, <1>3, <1>4 DEF PlaceInv

\* A step that leaves the rows and what is held alone keeps the invariant.
LEMMA PlacesStay ==
    ASSUME PlaceInv, UNCHANGED <<ga, items, block>>,
           \A o \in Reservations : IsActive(o)' <=> IsActive(o),
           \A a \in Allocations : /\ allocation'[a].state = allocation[a].state
                                  /\ allocation'[a].dest = allocation[a].dest,
           SeatTypeOK
    PROVE  PlaceInv'
  <1>1. RowsOK(ga)' /\ BucketsOK(ga)'
    BY DEF PlaceInv, RowsOK, BucketsOK, Active
  <1>2. PoolsBalanced'
    BY DEF PlaceInv, PoolsBalanced, PoolSum, Blocked
  <1>3. HeldMatches'
    <2>1. {o \in Reservations : IsActive(o)}' = {o \in Reservations : IsActive(o)}
      OBVIOUS
    <2>2. ASSUME NEW s, NEW p PROVE HeldFrom(s, p)' = HeldFrom(s, p)
      BY <2>1 DEF HeldFrom
    <2> QED BY <2>2 DEF PlaceInv, HeldMatches
  <1>4. DestinationsDescend' /\ BlocksOK'
    BY DEF PlaceInv, DestinationsDescend, BlocksOK
  <1>5. DestinationsExist'
    <2>1. \A a \in Allocations : allocation[a].dest # Shared => allocation[a].dest \in Allocations
      BY DEF SeatTypeOK, AllocationRow, Sources
    <2> QED BY <2>1 DEF PlaceInv, DestinationsExist
  <1> QED BY <1>1, <1>2, <1>3, <1>4, <1>5 DEF PlaceInv

\* What r lists is a count of places per source and pool.
LEMMA PlacesListed ==
    ASSUME ReservationTypeOK, NEW r \in Reservations
    PROVE  items[r].places \in PlaceCounts
  BY DEF ReservationTypeOK, PlaceCounts

\* A reservation that ends gives its places back.
LEMMA EndPlaces ==
    ASSUME PlaceInv, CoreTypeOK, CoreTypeOK', NEW r \in Reservations, IsActive(r), ~IsActive(r)',
           \A o \in Reservations \ {r} : State(o)' = State(o), UNCHANGED items,
           ReturnAllItems(r)
    PROVE  PlaceInv'
  <1> DEFINE P == items[r].places
  <1>1. P \in PlaceCounts
    BY PlacesListed DEF CoreTypeOK
  <1>2. \A s \in Sources, p \in Pools : P[s][p] <= ga[s][p].reserved
    BY DEF ReturnAllItems, CanReturn
  <1>3. ga' = GAAfterReturn(P) /\ UNCHANGED <<allocation, block>>
    BY DEF ReturnAllItems
  <1>4. \A s \in Sources, p \in Pools :
            Share(r, s, p) = P[s][p] /\ Share(r, s, p)' = 0
    BY DEF Share
  <1>5. \A s \in Sources, p \in Pools : ga[s][p].reserved \in Nat /\ P[s][p] \in Nat
    BY <1>1 DEF PlaceInv, RowsOK, GARow, PlaceCounts
  <1>6. \A o \in Reservations \ {r} : items'[o] = items[o] /\ (IsActive(o)' <=> IsActive(o))
    BY DEF IsActive
  <1> HIDE DEF P
  <1>7. /\ RowsOK(ga') /\ BucketsOK(ga') /\ SamePool(ga, ga')
        /\ \A s \in Sources, p \in Pools : ga'[s][p].reserved = ga[s][p].reserved - P[s][p]
    BY <1>1, <1>2, <1>3, ReturnPlaces DEF PlaceInv, CoreTypeOK
  <1>8. \A s \in Sources, p \in Pools :
            ga'[s][p].reserved = ga[s][p].reserved - Share(r, s, p) + Share(r, s, p)'
    BY <1>4, <1>5, <1>7
  <1> QED BY <1>3, <1>6, <1>7, <1>8, OneReservationMoves

\* A sale takes the places out of the reserved counters.
LEMMA SellPlaces ==
    ASSUME PlaceInv, CoreTypeOK, CoreTypeOK', NEW r \in Reservations, IsActive(r),
           NEW n \in Numbers, Sell(r, n)
    PROVE  PlaceInv'
  <1> DEFINE P == items[r].places
  <1>1. P \in PlaceCounts
    BY PlacesListed DEF CoreTypeOK
  <1>2. \A s \in Sources, p \in Pools : P[s][p] <= ga[s][p].reserved
    BY DEF Sell, CanConsume
  <1>3. ga' = GAAfterSale(P) /\ UNCHANGED <<allocation, block, items>>
    BY DEF Sell
  <1>4. ~IsActive(r)' /\ \A o \in Reservations \ {r} : State(o)' = State(o)
    BY DEF Sell, WithoutDeadlines, IsActive, State, ActiveStates, CoreTypeOK, ReservationTypeOK,
           ReservationRow
  <1>5. \A s \in Sources, p \in Pools :
            Share(r, s, p) = P[s][p] /\ Share(r, s, p)' = 0
    BY <1>4 DEF Share
  <1>6. \A s \in Sources, p \in Pools : ga[s][p].reserved \in Nat /\ P[s][p] \in Nat
    BY <1>1 DEF PlaceInv, RowsOK, GARow, PlaceCounts
  <1>7. \A o \in Reservations \ {r} : items'[o] = items[o] /\ (IsActive(o)' <=> IsActive(o))
    BY <1>3, <1>4 DEF IsActive
  <1> HIDE DEF P
  <1>8. /\ RowsOK(ga') /\ BucketsOK(ga') /\ SamePool(ga, ga')
        /\ \A s \in Sources, p \in Pools : ga'[s][p].reserved = ga[s][p].reserved - P[s][p]
    BY <1>1, <1>2, <1>3, SalePlaces DEF PlaceInv
  <1>9. \A s \in Sources, p \in Pools :
            ga'[s][p].reserved = ga[s][p].reserved - Share(r, s, p) + Share(r, s, p)'
    BY <1>5, <1>6, <1>8
  <1> QED BY <1>3, <1>7, <1>8, <1>9, OneReservationMoves

\* A new reservation takes available places.
LEMMA CreatePlaces ==
    ASSUME PlaceInv, CoreTypeOK, CoreTypeOK', NEW r \in Reservations, NEW q \in Orders, Create(r, q)
    PROVE  PlaceInv'
  <1> DEFINE P == q.places
  <1>1. P \in PlaceCounts
    BY OrdersAssumption DEF PlaceCounts
  <1>2. \A s \in Sources, p \in Pools : P[s][p] <= ga[s][p].available
    BY DEF Create, CanAcquire
  <1>3. ga' = GAAfterAcquire(ga, P) /\ UNCHANGED <<allocation, block>>
    BY DEF Create
  <1>4. /\ ~IsActive(r) /\ IsActive(r)' /\ items'[r] = q
        /\ \A o \in Reservations \ {r} : State(o)' = State(o) /\ items'[o] = items[o]
    BY DEF Create, HeldRow, IsActive, State, ActiveStates, CoreTypeOK, ReservationTypeOK
  <1>5. \A s \in Sources, p \in Pools :
            Share(r, s, p) = 0 /\ Share(r, s, p)' = P[s][p]
    BY <1>4 DEF Share
  <1>6. \A s \in Sources, p \in Pools : ga[s][p].reserved \in Nat /\ P[s][p] \in Nat
    BY <1>1 DEF PlaceInv, RowsOK, GARow, PlaceCounts
  <1>7. \A o \in Reservations \ {r} : items'[o] = items[o] /\ (IsActive(o)' <=> IsActive(o))
    BY <1>4 DEF IsActive
  <1> HIDE DEF P
  <1>8. /\ RowsOK(ga') /\ BucketsOK(ga') /\ SamePool(ga, ga')
        /\ \A s \in Sources, p \in Pools : ga'[s][p].reserved = ga[s][p].reserved + P[s][p]
    BY <1>1, <1>2, <1>3, AcquirePlaces DEF PlaceInv
  <1>9. \A s \in Sources, p \in Pools :
            ga'[s][p].reserved = ga[s][p].reserved - Share(r, s, p) + Share(r, s, p)'
    BY <1>5, <1>6, <1>8
  <1> QED BY <1>3, <1>7, <1>8, <1>9, OneReservationMoves

\* A changed composition returns what it dropped and takes what is new.
LEMMA ChangePlaces ==
    ASSUME PlaceInv, CoreTypeOK, CoreTypeOK', NEW r \in Reservations, NEW q \in Orders,
           IsActive(r), ChangeItems(r, q), UNCHANGED <<reservation, allocation, block>>
    PROVE  PlaceInv'
  <1> DEFINE P == items[r].places
             less == Excess(P, q.places)
             more == Excess(q.places, P)
             G == GAAfterReturn(less)
  <1>1. P \in PlaceCounts /\ q.places \in PlaceCounts
    BY PlacesListed, OrdersAssumption DEF CoreTypeOK, PlaceCounts
  <1>2. ASSUME NEW A \in PlaceCounts, NEW B \in PlaceCounts
        PROVE  Excess(A, B) \in PlaceCounts
    BY <1>2 DEF Excess, PlaceCounts
  <1>3. \A s \in Sources, p \in Pools :
            /\ less[s][p] <= ga[s][p].reserved
            /\ more[s][p] <= G[s][p].available
    BY DEF ChangeItems, CanReturn, CanAcquire
  <1>4. ga' = GAAfterAcquire(G, more)
    BY DEF ChangeItems
  <1>5. /\ IsActive(r)' /\ items'[r] = q
        /\ \A o \in Reservations \ {r} : items'[o] = items[o] /\ (IsActive(o)' <=> IsActive(o))
    BY DEF ChangeItems, IsActive, State, CoreTypeOK, ReservationTypeOK
  <1>6. ASSUME NEW s \in Sources, NEW p \in Pools
        PROVE  /\ less[s][p] \in Nat /\ more[s][p] \in Nat
               /\ Share(r, s, p) \in Nat /\ Share(r, s, p)' \in Nat
               /\ more[s][p] - less[s][p] = Share(r, s, p)' - Share(r, s, p)
               /\ ga[s][p].reserved \in Nat
    <2>1. Share(r, s, p) = P[s][p] /\ Share(r, s, p)' = q.places[s][p]
      BY <1>5 DEF Share
    <2>2. P[s][p] \in Nat /\ q.places[s][p] \in Nat
      BY <1>1 DEF PlaceCounts
    <2>3. ga[s][p].reserved \in Nat
      BY DEF PlaceInv, RowsOK, GARow
    <2> QED BY <2>1, <2>2, <2>3 DEF Excess
  <1>7. less \in PlaceCounts /\ more \in PlaceCounts
    BY <1>1, <1>2
  <1> HIDE DEF P, less, more
  <1>8. /\ RowsOK(G) /\ BucketsOK(G) /\ SamePool(ga, G)
        /\ \A s \in Sources, p \in Pools : G[s][p].reserved = ga[s][p].reserved - less[s][p]
    BY <1>3, <1>7, ReturnPlaces DEF PlaceInv, CoreTypeOK
  <1> HIDE DEF G
  <1>9. /\ RowsOK(ga') /\ BucketsOK(ga') /\ SamePool(G, ga')
        /\ \A s \in Sources, p \in Pools : ga'[s][p].reserved = G[s][p].reserved + more[s][p]
    BY <1>3, <1>4, <1>7, <1>8, AcquirePlaces
  <1>10. SamePool(ga, ga')
    BY <1>8, <1>9 DEF SamePool
  <1>11. \A s \in Sources, p \in Pools :
            ga'[s][p].reserved = ga[s][p].reserved - Share(r, s, p) + Share(r, s, p)'
    BY <1>6, <1>8, <1>9
  <1> QED BY <1>5, <1>9, <1>10, <1>11, OneReservationMoves

\* Every shared step of the handlers keeps the invariant.
LEMMA SharedStepPlaces ==
    ASSUME PlaceInv, CoreTypeOK, CoreTypeOK', NEW r \in Reservations, SharedStep(r)
    PROVE  PlaceInv'
  <1>1. IsActive(r)
    BY DEF SharedStep, InCheckout, InDoubt, ReconciliationOver, IsActive, ActiveStates
  <1>2. ASSUME NEW row, reservation' = [reservation EXCEPT ![r] = row]
        PROVE  State(r)' = row.state /\ \A q \in Reservations \ {r} : State(q)' = State(q)
    BY <1>2 DEF State, CoreTypeOK, ReservationTypeOK
  <1>3. ASSUME NEW state \in {"EXPIRED", "RELEASED"}, SetState(r, state)
        PROVE  State(r)' = state /\ \A q \in Reservations \ {r} : State(q)' = State(q)
    BY <1>3 DEF SetState, State, CoreTypeOK, ReservationTypeOK, ReservationRow
  <1>4. CASE Expire(r) \/ ReleaseItems(r)
    <2>1. /\ ReturnAllItems(r) /\ UNCHANGED items
          /\ \E state \in {"EXPIRED", "RELEASED"} : SetState(r, state)
      BY <1>4 DEF Expire, ReleaseItems
    <2>2. ~IsActive(r)'
      BY <1>3, <2>1 DEF IsActive, ActiveStates
    <2> QED BY <1>1, <1>3, <2>1, <2>2, EndPlaces
  <1>5. ASSUME NEW n \in Numbers, ExpireUnreconciled(r, n) \/ FailAndRelease(r, n)
        PROVE  PlaceInv'
    <2>1. ReturnAllItems(r) /\ UNCHANGED items
      BY <1>5 DEF ExpireUnreconciled, FailAndRelease
    <2>2. \A row \in ReservationRow : \A state : [row EXCEPT !.state = state].state = state
      BY DEF ReservationRow
    <2>3. ReconcilingRow(r) \in ReservationRow /\ RetryRow(r) \in ReservationRow
      BY RowTypes DEF CoreTypeOK
    <2>4. CASE ExpireUnreconciled(r, n)
      <3>1. State(r)' = "EXPIRED" /\ \A q \in Reservations \ {r} : State(q)' = State(q)
        BY <1>2, <2>2, <2>3, <2>4 DEF ExpireUnreconciled
      <3>2. ~IsActive(r)'
        BY <3>1 DEF IsActive, ActiveStates
      <3> QED BY <1>1, <2>1, <3>1, <3>2, EndPlaces
    <2>5. CASE FailAndRelease(r, n)
      <3>1. PICK state \in {"EXPIRED", "RELEASED"} :
              reservation' = [reservation EXCEPT ![r] = [RetryRow(r) EXCEPT !.state = state]]
        BY <2>5 DEF FailAndRelease
      <3>2. State(r)' = state /\ \A q \in Reservations \ {r} : State(q)' = State(q)
        BY <1>2, <2>2, <2>3, <3>1
      <3>3. ~IsActive(r)'
        BY <3>2 DEF IsActive, ActiveStates
      <3> QED BY <1>1, <2>1, <3>2, <3>3, EndPlaces
    <2> QED BY <1>5, <2>4, <2>5
  <1>6. ASSUME NEW n \in Numbers, Sell(r, n)
        PROVE  PlaceInv'
    BY <1>1, <1>6, SellPlaces
  <1>7. ASSUME NEW n \in Numbers, StartAttempt(r, n) \/ Reconcile(r, n) \/ FailToRetry(r, n)
        PROVE  PlaceInv'
    <2>1. UNCHANGED <<ga, allocation, block, items>>
      BY <1>7 DEF StartAttempt, Reconcile, FailToRetry, inventoryVars
    <2>2. /\ WithoutDeadlines(r, "COMMITTING").state = "COMMITTING"
          /\ ReconcilingRow(r).state = "RECONCILING"
          /\ RetryRow(r).state = "PAYMENT_RETRY"
      BY DEF WithoutDeadlines, ReconcilingRow, RetryRow, CoreTypeOK, ReservationTypeOK,
             ReservationRow
    <2>3. State(r)' \in ActiveStates /\ \A q \in Reservations \ {r} : State(q)' = State(q)
      <3>1. CASE StartAttempt(r, n)
        BY <1>2, <2>2, <3>1 DEF StartAttempt, ActiveStates
      <3>2. CASE Reconcile(r, n)
        BY <1>2, <2>2, <3>2 DEF Reconcile, ActiveStates
      <3>3. CASE FailToRetry(r, n)
        BY <1>2, <2>2, <3>3 DEF FailToRetry, ActiveStates
      <3> QED BY <1>7, <3>1, <3>2, <3>3
    <2>4. \A q \in Reservations : IsActive(q)' <=> IsActive(q)
      BY <1>1, <2>3 DEF IsActive
    <2> QED BY <2>1, <2>4, PlacesStay DEF CoreTypeOK
  <1> QED BY <1>4, <1>5, <1>6, <1>7 DEF SharedStep

-----------------------------------------------------------------------------
(* The operator's commands.                                                *)

\* The fields of a row.
LEMMA RowFields ==
    ASSUME NEW row \in GARow
    PROVE  /\ row.assigned \in Nat /\ row.available \in Nat /\ row.reserved \in Nat
           /\ row.sold \in Nat /\ row.issued \in Nat /\ row.released \in Nat
           /\ Current(row) \in Nat
  BY DEF GARow, Current

\* A command keeps the invariant when it keeps the rows sound, the pools
\* balanced and the reserved counters as they are.
LEMMA CommandPlaces ==
    ASSUME PlaceInv, UNCHANGED <<reservation, items>>, RowsOK(ga'), BucketsOK(ga)', BlocksOK',
           PoolsBalanced', DestinationsDescend', DestinationsExist',
           \A s \in Sources, p \in Pools : ga'[s][p].reserved = ga[s][p].reserved
    PROVE  PlaceInv'
  <1>1. HeldMatches'
    <2>1. ASSUME NEW s, NEW p PROVE HeldFrom(s, p)' = HeldFrom(s, p)
      BY DEF HeldFrom, IsActive, State
    <2> QED BY <2>1 DEF PlaceInv, HeldMatches
  <1>2. RowsOK(ga)'
    BY DEF RowsOK
  <1> QED BY <1>1, <1>2 DEF PlaceInv

\* Moving places between two sources keeps the pool's sum.
LEMMA TransferSum ==
    ASSUME NEW G, RowsOK(G), NEW H, RowsOK(H), NEW p \in Pools,
           NEW x \in Sources, NEW y \in Sources, x # y,
           \A s \in Sources \ {x, y} : H[s] = G[s],
           Current(H[x][p]) + Current(H[y][p]) = Current(G[x][p]) + Current(G[y][p])
    PROVE  PoolSum(H, p) = PoolSum(G, p)
  <1> DEFINE f == [s \in Sources |-> Current(G[s][p])]
             g == [s \in Sources |-> Current(H[s][p])]
             m == [f EXCEPT ![x] = g[x]]
  <1>1. \A s \in Sources : G[s][p] \in GARow /\ H[s][p] \in GARow
    BY DEF RowsOK
  <1>2. \A s \in Sources : f[s] \in Nat /\ g[s] \in Nat /\ m[s] \in Nat
    BY <1>1, RowFields
  <1>3. /\ \A s \in Sources \ {x} : m[s] = f[s]
        /\ \A s \in Sources \ {y} : g[s] = m[s]
        /\ m[x] = g[x] /\ m[y] = f[y] /\ g[x] + g[y] = f[x] + f[y]
    OBVIOUS
  <1>4. PoolSum(G, p) = SumFunctionOnSet(f, Sources) /\ PoolSum(H, p) = SumFunctionOnSet(g, Sources)
    BY DEF PoolSum
  <1> HIDE DEF f, g, m
  <1>5. SumFunctionOnSet(m, Sources) = SumFunctionOnSet(f, Sources) - f[x] + m[x]
    BY <1>2, <1>3, SourcesFinite, SumChange
  <1>6. SumFunctionOnSet(g, Sources) = SumFunctionOnSet(m, Sources) - m[y] + g[y]
    BY <1>2, <1>3, SourcesFinite, SumChange
  <1>7. SumFunctionOnSet(f, Sources) \in Nat
    BY <1>2, SourcesFinite, SumNat
  <1> QED BY <1>2, <1>3, <1>4, <1>5, <1>6, <1>7

\* A change of one source changes the sum by what that source gained.
LEMMA OneRowSum ==
    ASSUME NEW G, RowsOK(G), NEW H, RowsOK(H), NEW p \in Pools, NEW x \in Sources,
           \A s \in Sources \ {x} : H[s][p] = G[s][p]
    PROVE  /\ PoolSum(H, p) = PoolSum(G, p) - Current(G[x][p]) + Current(H[x][p])
           /\ PoolSum(G, p) \in Nat
  <1> DEFINE f == [s \in Sources |-> Current(G[s][p])]
             g == [s \in Sources |-> Current(H[s][p])]
  <1>1. \A s \in Sources : G[s][p] \in GARow /\ H[s][p] \in GARow
    BY DEF RowsOK
  <1>2. \A s \in Sources : f[s] \in Nat /\ g[s] \in Nat
    BY <1>1, RowFields
  <1>3. /\ \A s \in Sources \ {x} : g[s] = f[s]
        /\ g[x] = Current(H[x][p]) /\ f[x] = Current(G[x][p])
    OBVIOUS
  <1>4. PoolSum(G, p) = SumFunctionOnSet(f, Sources) /\ PoolSum(H, p) = SumFunctionOnSet(g, Sources)
    BY DEF PoolSum
  <1> HIDE DEF f, g
  <1>5. SumFunctionOnSet(g, Sources) = SumFunctionOnSet(f, Sources) - f[x] + g[x]
    BY <1>2, <1>3, SourcesFinite, SumChange
  <1>6. SumFunctionOnSet(f, Sources) \in Nat
    BY <1>2, SourcesFinite, SumNat
  <1> QED BY <1>3, <1>4, <1>5, <1>6

\* The shared rows after places left them.
LEMMA SharedLessRows ==
    ASSUME RowsOK(ga), NEW t, t.places \in [Pools -> Nat],
           \A p \in Pools : t.places[p] <= ga[Shared][p].available
    PROVE  /\ SharedLess(t) \in [Pools -> GARow]
           /\ \A p \in Pools :
                /\ Current(SharedLess(t)[p]) = Current(ga[Shared][p]) - t.places[p]
                /\ SharedLess(t)[p].assigned = ga[Shared][p].assigned
                /\ SharedLess(t)[p].reserved = ga[Shared][p].reserved
  <1>1. ASSUME NEW p \in Pools
        PROVE  /\ SharedLess(t)[p] \in GARow
               /\ Current(SharedLess(t)[p]) = Current(ga[Shared][p]) - t.places[p]
               /\ SharedLess(t)[p].assigned = ga[Shared][p].assigned
               /\ SharedLess(t)[p].reserved = ga[Shared][p].reserved
    <2> DEFINE row == ga[Shared][p]
               x == t.places[p]
    <2>1. row \in GARow /\ x \in Nat /\ x <= row.available
      BY SourcesFinite DEF RowsOK
    <2>2. SharedLess(t)[p] = [row EXCEPT !.available = @ - x]
      BY DEF SharedLess
    <2> HIDE DEF row, x
    <2>3. SharedLess(t)[p] =
            [assigned |-> row.assigned, available |-> row.available - x,
             reserved |-> row.reserved, sold |-> row.sold,
             issued |-> row.issued, released |-> row.released]
      BY <2>1, <2>2 DEF GARow
    <2>4. SharedLess(t)[p] \in GARow
      BY <2>1, <2>3, RowFields DEF GARow
    <2>5. Current(SharedLess(t)[p]) = Current(row) - x
      BY <2>1, <2>3, RowFields DEF Current
    <2> QED BY <2>3, <2>4, <2>5 DEF row, x
  <1>2. SharedLess(t) = [p \in Pools |-> SharedLess(t)[p]]
    BY DEF SharedLess
  <1>3. SharedLess(t) \in [Pools -> GARow]
    BY <1>1, <1>2, Zenon
  <1> QED BY <1>1, <1>3

\* What was taken out of the sum of a Block is in the sum after it.
LEMMA BlockedChange ==
    ASSUME SeatTypeOK, SeatTypeOK', NEW b \in Blocks, NEW p \in Pools,
           \A c \in Blocks \ {b} : block'[c] = block[c]
    PROVE  /\ Blocked(p)' = Blocked(p) - block[b].blocked[p] + block'[b].blocked[p]
           /\ Blocked(p) \in Nat
  <1> DEFINE f == [c \in Blocks |-> block[c].blocked[p]]
             g == [c \in Blocks |-> block'[c].blocked[p]]
  <1>1. \A c \in Blocks : f[c] \in Nat /\ g[c] \in Nat
    BY DEF SeatTypeOK, BlockRow
  <1>2. \A c \in Blocks \ {b} : g[c] = f[c]
    OBVIOUS
  <1>3. /\ Blocked(p) = SumFunctionOnSet(f, Blocks) /\ Blocked(p)' = SumFunctionOnSet(g, Blocks)
        /\ f[b] = block[b].blocked[p] /\ g[b] = block'[b].blocked[p]
    BY DEF Blocked
  <1> HIDE DEF f, g
  <1>4. SumFunctionOnSet(g, Blocks) = SumFunctionOnSet(f, Blocks) - f[b] + g[b]
    BY <1>1, <1>2, NamesAssumption, SumChange
  <1>5. SumFunctionOnSet(f, Blocks) \in Nat
    BY <1>1, NamesAssumption, SumNat
  <1> QED BY <1>3, <1>4, <1>5

\* A pool that passes places from one source to another stays balanced.
LEMMA TransferBalance ==
    ASSUME PlaceInv, RowsOK(ga'), UNCHANGED block,
           NEW x \in Sources, NEW y \in Sources, x # y,
           \A s \in Sources \ {x, y} : ga'[s] = ga[s],
           \A p \in Pools :
              /\ Current(ga'[x][p]) + Current(ga'[y][p]) = Current(ga[x][p]) + Current(ga[y][p])
              /\ ga'[Shared][p].assigned = ga[Shared][p].assigned
    PROVE  PoolsBalanced'
  <1> SUFFICES ASSUME NEW p \in Pools
               PROVE  (PoolSum(ga, p) + Blocked(p))' = ga'[Shared][p].assigned
    BY DEF PoolsBalanced
  <1>1. PoolSum(ga', p) = PoolSum(ga, p)
    BY TransferSum DEF PlaceInv
  <1>2. PoolSum(ga, p)' = PoolSum(ga', p) /\ Blocked(p)' = Blocked(p)
    BY DEF PoolSum, Blocked
  <1> QED BY <1>1, <1>2 DEF PlaceInv, PoolsBalanced

\* A new Allocation takes its places from the shared rows, and comes last in
\* the order of the release chains.
LEMMA CreateAllocationPlaces ==
    ASSUME PlaceInv, CoreTypeOK, CoreTypeOK', UNCHANGED <<reservation, items>>,
           NEW a \in Allocations, NEW t \in Targets, NEW channel \in Channels,
           NEW dest \in Sources \ {a}, CreateAllocation(a, channel, dest, t)
    PROVE  PlaceInv'
  <1> DEFINE A == [p \in Pools |-> Row(t.places[p], t.places[p])]
             B == SharedLess(t)
  <1>1. t.places \in [Pools -> Nat] /\ \A p \in Pools : t.places[p] <= ga[Shared][p].available
    BY TargetsAssumption DEF CreateAllocation, Unclaimed
  <1>2. A \in [Pools -> GARow]
    BY <1>1 DEF GARow, Row
  <1>3. ga \in [Sources -> [Pools -> GARow]] /\ a \in Sources /\ a # Shared /\ Shared \in Sources
    BY SourcesFinite, NamesAssumption DEF PlaceInv, RowsOK
  <1>4. ga' = [ga EXCEPT ![Shared] = B, ![a] = A]
    BY DEF CreateAllocation
  <1>5. /\ B \in [Pools -> GARow]
        /\ \A p \in Pools :
             /\ Current(B[p]) = Current(ga[Shared][p]) - t.places[p]
             /\ B[p].assigned = ga[Shared][p].assigned
             /\ B[p].reserved = ga[Shared][p].reserved
    BY <1>1, SharedLessRows DEF PlaceInv
  <1>6. allocation[a].state = "NONE" /\ \A p \in Pools : ga[a][p] = Row(0, 0)
    BY DEF CreateAllocation, PlaceInv, BucketsOK
  <1>7. \A p \in Pools : /\ Current(A[p]) = t.places[p] /\ A[p].assigned = t.places[p]
                         /\ A[p].released = 0 /\ A[p].reserved = 0
                         /\ Current(ga[a][p]) = 0 /\ ga[a][p].reserved = 0
    BY <1>1, <1>6 DEF Row, Current
  <1>8. /\ allocation' = [allocation EXCEPT
              ![a] = [state |-> "ACTIVE", channel |-> channel, dest |-> dest]]
        /\ Live(dest) /\ UNCHANGED block
    BY DEF CreateAllocation
  <1> HIDE DEF A, B
  <1>9. /\ ga'[Shared] = B /\ ga'[a] = A
        /\ \A s \in Sources \ {Shared, a} : ga'[s] = ga[s]
        /\ RowsOK(ga')
    BY <1>2, <1>3, <1>4, <1>5 DEF RowsOK
  <1>10. /\ allocation'[a].state = "ACTIVE" /\ allocation'[a].dest = dest
         /\ \A b \in Allocations \ {a} : allocation'[b] = allocation[b]
    BY <1>8 DEF CoreTypeOK, SeatTypeOK
  <1>11. BucketsOK(ga)'
    <2> SUFFICES ASSUME NEW b \in Allocations, NEW p \in Pools
                 PROVE  /\ ga'[b][p].assigned = Current(ga'[b][p]) + ga'[b][p].released
                        /\ ~Active(b)' => ga'[b][p].available = 0
                        /\ allocation'[b].state = "NONE" => ga'[b][p] = Row(0, 0)
      BY DEF BucketsOK
    <2>1. CASE b = a
      BY <1>1, <1>7, <1>9, <1>10, <2>1 DEF Active
    <2>2. CASE b # a
      <3>1. ga'[b] = ga[b] /\ allocation'[b] = allocation[b]
        BY <1>9, <1>10, <2>2, SourcesFinite, NamesAssumption
      <3> QED BY <3>1 DEF PlaceInv, BucketsOK, Active
    <2> QED BY <2>1, <2>2
  <1>12. PoolsBalanced'
    <2>1. ASSUME NEW p \in Pools
          PROVE  /\ Current(ga'[Shared][p]) + Current(ga'[a][p])
                      = Current(ga[Shared][p]) + Current(ga[a][p])
                 /\ ga'[Shared][p].assigned = ga[Shared][p].assigned
      <3>1. Current(ga[Shared][p]) \in Nat /\ t.places[p] \in Nat
        BY <1>1, <1>3, RowFields
      <3> QED BY <1>5, <1>7, <1>9, <3>1
    <2> QED BY <1>3, <1>8, <1>9, <2>1, TransferBalance
  <1>13. DestinationsDescend'
    <2>1. PICK rank \in [Sources -> Nat] :
            \A b \in Allocations : rank[allocation[b].dest] < rank[b]
      BY DEF PlaceInv, DestinationsDescend
    <2> DEFINE rank2 == [rank EXCEPT ![a] = rank[dest] + 1]
    <2>2. rank2 \in [Sources -> Nat]
      <3>1. rank[dest] + 1 \in Nat
        BY <2>1
      <3> QED BY <1>3, <2>1, <3>1, ExceptType
    <2>3. ASSUME NEW b \in Allocations PROVE rank2[allocation'[b].dest] < rank2[b]
      <3>1. CASE b = a
        BY <1>3, <1>10, <2>1, <3>1
      <3>2. CASE b # a
        <4>1. allocation[b].dest # a /\ allocation[b].dest \in Sources
          BY <1>3, <1>6 DEF PlaceInv, DestinationsExist, CoreTypeOK, SeatTypeOK, AllocationRow
        <4>2. b \in Sources
          BY SourcesFinite
        <4> QED BY <1>10, <2>1, <3>2, <4>1, <4>2
      <3> QED BY <3>1, <3>2
    <2> HIDE DEF rank2
    <2> QED BY <2>2, <2>3 DEF DestinationsDescend
  <1>14. DestinationsExist'
    <2> SUFFICES ASSUME NEW b \in Allocations, allocation'[b].dest # Shared
                 PROVE  allocation'[allocation'[b].dest].state # "NONE"
      BY DEF DestinationsExist
    <2>1. allocation'[b].dest \in Allocations
      BY SourcesFinite DEF CoreTypeOK, SeatTypeOK, AllocationRow
    <2>2. CASE b = a
      BY <1>8, <1>10, <2>1, <2>2 DEF Live, Active
    <2>3. CASE b # a
      BY <1>10, <2>1, <2>3 DEF PlaceInv, DestinationsExist
    <2> QED BY <2>2, <2>3
  <1>15. \A s \in Sources, p \in Pools : ga'[s][p].reserved = ga[s][p].reserved
    BY <1>5, <1>7, <1>9
  <1>16. BlocksOK'
    BY <1>8 DEF PlaceInv, BlocksOK
  <1> QED BY <1>9, <1>11, <1>12, <1>13, <1>14, <1>15, <1>16, CommandPlaces

\* A released Allocation passes what it still has to its destination.
LEMMA ReleaseAllocationPlaces ==
    ASSUME PlaceInv, SeatInv, CoreTypeOK, CoreTypeOK', UNCHANGED <<reservation, items>>,
           NEW a \in Allocations, ReleaseAllocation(a)
    PROVE  PlaceInv'
  <1> DEFINE dest == allocation[a].dest
             x(p) == ga[a][p].available
             d(p) == IF dest = Shared THEN 0 ELSE x(p)
             A == [p \in Pools |-> [ga[a][p] EXCEPT !.available = 0, !.released = @ + x(p)]]
             B == [p \in Pools |-> [ga[dest][p] EXCEPT !.available = @ + x(p),
                                                       !.assigned = @ + d(p)]]
  <1>1. /\ Active(a) /\ Live(dest) /\ dest \in Sources /\ dest # a
        /\ a \in Sources /\ a # Shared /\ Shared \in Sources
    BY SourcesFinite, NamesAssumption
       DEF ReleaseAllocation, Active, SeatInv, UnbornAllocations, CoreTypeOK, SeatTypeOK,
           AllocationRow
  <1>2. ga \in [Sources -> [Pools -> GARow]]
    BY DEF PlaceInv, RowsOK
  <1>3. ga' = [ga EXCEPT ![dest] = B, ![a] = A]
    BY <1>1, <1>2 DEF ReleaseAllocation, GAAfterRelease
  <1>4. ASSUME NEW p \in Pools
        PROVE  /\ A[p] \in GARow /\ B[p] \in GARow
               /\ A[p].assigned = ga[a][p].assigned /\ A[p].available = 0
               /\ A[p].released = ga[a][p].released + x(p)
               /\ A[p].reserved = ga[a][p].reserved
               /\ B[p].assigned = ga[dest][p].assigned + d(p)
               /\ B[p].released = ga[dest][p].released
               /\ B[p].reserved = ga[dest][p].reserved
               /\ Current(A[p]) = Current(ga[a][p]) - x(p)
               /\ Current(B[p]) = Current(ga[dest][p]) + x(p)
               /\ x(p) \in Nat /\ d(p) \in Nat
    <2> DEFINE row == ga[a][p]
               to == ga[dest][p]
               v == x(p)
               w == d(p)
    <2>1. row \in GARow /\ to \in GARow
      BY <1>1, <1>2
    <2>2. v = row.available /\ v \in Nat /\ w \in Nat
      BY <2>1, RowFields
    <2>3. /\ A[p] = [row EXCEPT !.available = 0, !.released = @ + v]
          /\ B[p] = [to EXCEPT !.available = @ + v, !.assigned = @ + w]
      OBVIOUS
    <2> HIDE DEF row, to, v, w, A, B
    <2>4. /\ A[p] = [assigned |-> row.assigned, available |-> 0, reserved |-> row.reserved,
                     sold |-> row.sold, issued |-> row.issued, released |-> row.released + v]
          /\ B[p] = [assigned |-> to.assigned + w, available |-> to.available + v,
                     reserved |-> to.reserved, sold |-> to.sold, issued |-> to.issued,
                     released |-> to.released]
      BY <2>1, <2>3 DEF GARow
    <2>5. A[p] \in GARow /\ B[p] \in GARow
      BY <2>1, <2>2, <2>4, RowFields DEF GARow
    <2>6. Current(A[p]) = Current(row) - v
      BY <2>1, <2>2, <2>4, RowFields DEF Current
    <2>7. Current(B[p]) = Current(to) + v
      BY <2>1, <2>2, <2>4, RowFields DEF Current
    <2> QED BY <2>2, <2>4, <2>5, <2>6, <2>7 DEF row, to, v, w
  <1>5. A \in [Pools -> GARow] /\ B \in [Pools -> GARow]
    BY <1>4
  <1>6. /\ allocation'[a].state = "RELEASED"
        /\ \A b \in Allocations : allocation'[b].dest = allocation[b].dest
        /\ \A b \in Allocations \ {a} : allocation'[b] = allocation[b]
        /\ UNCHANGED block
    BY DEF ReleaseAllocation, CoreTypeOK, SeatTypeOK, AllocationRow
  <1> HIDE DEF A, B
  <1>7. /\ ga'[dest] = B /\ ga'[a] = A
        /\ \A s \in Sources \ {dest, a} : ga'[s] = ga[s]
        /\ RowsOK(ga')
    BY <1>1, <1>2, <1>3, <1>5 DEF RowsOK
  <1>8. BucketsOK(ga)'
    <2> SUFFICES ASSUME NEW b \in Allocations, NEW p \in Pools
                 PROVE  /\ ga'[b][p].assigned = Current(ga'[b][p]) + ga'[b][p].released
                        /\ ~Active(b)' => ga'[b][p].available = 0
                        /\ allocation'[b].state = "NONE" => ga'[b][p] = Row(0, 0)
      BY DEF BucketsOK
    <2>1. /\ ga[b][p].assigned = Current(ga[b][p]) + ga[b][p].released
          /\ ~Active(b) => ga[b][p].available = 0
          /\ allocation[b].state = "NONE" => ga[b][p] = Row(0, 0)
      BY DEF PlaceInv, BucketsOK
    <2>2. b \in Sources /\ b # Shared /\ ga[b][p] \in GARow
      BY <1>2, SourcesFinite, NamesAssumption
    <2>3. CASE b = a
      <3>1. Current(ga[a][p]) \in Nat /\ ga[a][p].released \in Nat
        BY <2>2, <2>3, RowFields
      <3> QED BY <1>4, <1>6, <1>7, <2>1, <2>3, <3>1
    <2>4. CASE b = dest
      <3>1. Current(ga[b][p]) \in Nat /\ ga[b][p].released \in Nat
        BY <2>2, RowFields
      <3>2. Active(b)' /\ allocation'[b].state # "NONE" /\ d(p) = x(p)
        BY <1>1, <1>6, <2>2, <2>4 DEF Live, Active
      <3>3. /\ ga'[b][p].assigned = ga[b][p].assigned + x(p)
            /\ Current(ga'[b][p]) = Current(ga[b][p]) + x(p)
            /\ ga'[b][p].released = ga[b][p].released /\ x(p) \in Nat
        BY <1>4, <1>7, <2>4, <3>2
      <3> HIDE DEF x
      <3> QED BY <2>1, <3>1, <3>2, <3>3
    <2>5. CASE b # a /\ b # dest
      BY <1>6, <1>7, <2>1, <2>2, <2>5 DEF Active
    <2> QED BY <2>3, <2>4, <2>5
  <1>9. PoolsBalanced'
    <2>1. ASSUME NEW p \in Pools
          PROVE  /\ Current(ga'[dest][p]) + Current(ga'[a][p])
                      = Current(ga[dest][p]) + Current(ga[a][p])
                 /\ ga'[Shared][p].assigned = ga[Shared][p].assigned
      <3>1. Current(ga[dest][p]) \in Nat /\ Current(ga[a][p]) \in Nat
        BY <1>1, <1>2, RowFields
      <3>2. Current(ga'[dest][p]) + Current(ga'[a][p]) = Current(ga[dest][p]) + Current(ga[a][p])
        <4> HIDE DEF x
        <4> QED BY <1>4, <1>7, <3>1
      <3>3. ga'[Shared][p].assigned = ga[Shared][p].assigned
        <4>1. CASE dest = Shared
          <5>1. B[p].assigned = ga[Shared][p].assigned + 0 /\ ga[Shared][p].assigned \in Nat
            BY <1>1, <1>2, <1>4, <4>1, RowFields
          <5> QED BY <1>7, <4>1, <5>1
        <4>2. CASE dest # Shared
          BY <1>1, <1>7, <4>2
        <4> QED BY <4>1, <4>2
      <3> QED BY <3>2, <3>3
    <2> QED BY <1>1, <1>6, <1>7, <2>1, TransferBalance
  <1>10. DestinationsDescend'
    BY <1>6 DEF PlaceInv, DestinationsDescend
  <1>11. DestinationsExist'
    <2>1. \A b \in Allocations : allocation[b].dest # Shared => allocation[b].dest \in Allocations
      BY SourcesFinite DEF CoreTypeOK, SeatTypeOK, AllocationRow
    <2> QED BY <1>6, <2>1 DEF PlaceInv, DestinationsExist
  <1>12. \A s \in Sources, p \in Pools : ga'[s][p].reserved = ga[s][p].reserved
    BY <1>4, <1>7
  <1>13. BlocksOK'
    BY <1>6 DEF PlaceInv, BlocksOK
  <1> QED BY <1>7, <1>8, <1>9, <1>10, <1>11, <1>12, <1>13, CommandPlaces

\* What a pool's shared row gains or loses, its Blocks lose or gain.
LEMMA BlockedBalance ==
    ASSUME PlaceInv, CoreTypeOK, CoreTypeOK', RowsOK(ga'), NEW b \in Blocks,
           \A c \in Blocks \ {b} : block'[c] = block[c],
           \A s \in Sources \ {Shared} : ga'[s] = ga[s],
           \A p \in Pools :
              /\ Current(ga'[Shared][p]) + block'[b].blocked[p]
                   = Current(ga[Shared][p]) + block[b].blocked[p]
              /\ ga'[Shared][p].assigned = ga[Shared][p].assigned
    PROVE  PoolsBalanced'
  <1> SUFFICES ASSUME NEW p \in Pools
               PROVE  (PoolSum(ga, p) + Blocked(p))' = ga'[Shared][p].assigned
    BY DEF PoolsBalanced
  <1>1. /\ PoolSum(ga', p) = PoolSum(ga, p) - Current(ga[Shared][p]) + Current(ga'[Shared][p])
        /\ PoolSum(ga, p) \in Nat
    BY OneRowSum, SourcesFinite DEF PlaceInv
  <1>2. PoolSum(ga, p)' = PoolSum(ga', p)
    BY DEF PoolSum
  <1>3. /\ Blocked(p)' = Blocked(p) - block[b].blocked[p] + block'[b].blocked[p]
        /\ Blocked(p) \in Nat
    BY BlockedChange DEF CoreTypeOK
  <1>4. Current(ga[Shared][p]) \in Nat /\ Current(ga'[Shared][p]) \in Nat
    BY RowFields, SourcesFinite DEF PlaceInv, RowsOK
  <1>5. block[b].blocked[p] \in Nat /\ block'[b].blocked[p] \in Nat
    BY DEF CoreTypeOK, SeatTypeOK, BlockRow
  <1>6. PoolSum(ga, p) + Blocked(p) = ga[Shared][p].assigned
    BY DEF PlaceInv, PoolsBalanced
  <1> QED BY <1>1, <1>2, <1>3, <1>4, <1>5, <1>6

\* Only the shared rows change: the buckets stay sound.
LEMMA SharedOnly ==
    ASSUME PlaceInv, UNCHANGED allocation, \A s \in Sources \ {Shared} : ga'[s] = ga[s]
    PROVE  BucketsOK(ga)' /\ DestinationsDescend' /\ DestinationsExist'
  <1>1. \A a \in Allocations : ga'[a] = ga[a]
    BY SourcesFinite, NamesAssumption
  <1> QED BY <1>1 DEF PlaceInv, BucketsOK, Active, DestinationsDescend, DestinationsExist

\* A new Block holds back places of the shared rows.
LEMMA CreateBlockPlaces ==
    ASSUME PlaceInv, CoreTypeOK, CoreTypeOK', UNCHANGED <<reservation, items>>,
           NEW b \in Blocks, NEW t \in Targets, CreateBlock(b, t)
    PROVE  PlaceInv'
  <1> DEFINE B == SharedLess(t)
  <1>1. t.places \in [Pools -> Nat] /\ \A p \in Pools : t.places[p] <= ga[Shared][p].available
    BY TargetsAssumption DEF CreateBlock, Unclaimed
  <1>2. ga \in [Sources -> [Pools -> GARow]] /\ Shared \in Sources
    BY SourcesFinite DEF PlaceInv, RowsOK
  <1>3. ga' = [ga EXCEPT ![Shared] = B] /\ UNCHANGED allocation
    BY DEF CreateBlock
  <1>4. /\ B \in [Pools -> GARow]
        /\ \A p \in Pools :
             /\ Current(B[p]) = Current(ga[Shared][p]) - t.places[p]
             /\ B[p].assigned = ga[Shared][p].assigned
             /\ B[p].reserved = ga[Shared][p].reserved
    BY <1>1, SharedLessRows DEF PlaceInv
  <1>5. /\ block'[b].state = "ACTIVE" /\ block'[b].blocked = t.places
        /\ \A c \in Blocks \ {b} : block'[c] = block[c]
        /\ \A p \in Pools : block[b].blocked[p] = 0
    BY DEF CreateBlock, CoreTypeOK, SeatTypeOK, PlaceInv, BlocksOK
  <1> HIDE DEF B
  <1>6. ga'[Shared] = B /\ (\A s \in Sources \ {Shared} : ga'[s] = ga[s]) /\ RowsOK(ga')
    BY <1>2, <1>3, <1>4 DEF RowsOK
  <1>7. BucketsOK(ga)' /\ DestinationsDescend' /\ DestinationsExist'
    BY <1>3, <1>6, SharedOnly
  <1>8. PoolsBalanced'
    <2>1. ASSUME NEW p \in Pools
          PROVE  /\ Current(ga'[Shared][p]) + block'[b].blocked[p]
                      = Current(ga[Shared][p]) + block[b].blocked[p]
                 /\ ga'[Shared][p].assigned = ga[Shared][p].assigned
      <3>1. Current(ga[Shared][p]) \in Nat /\ t.places[p] \in Nat
        BY <1>1, <1>2, RowFields
      <3> QED BY <1>4, <1>5, <1>6, <3>1
    <2> QED BY <1>5, <1>6, <2>1, BlockedBalance
  <1>9. BlocksOK'
    BY <1>5 DEF PlaceInv, BlocksOK
  <1>10. \A s \in Sources, p \in Pools : ga'[s][p].reserved = ga[s][p].reserved
    BY <1>4, <1>6
  <1> QED BY <1>6, <1>7, <1>8, <1>9, <1>10, CommandPlaces

\* A released Block gives its places back to the shared rows.
LEMMA ReleaseBlockPlaces ==
    ASSUME PlaceInv, CoreTypeOK, CoreTypeOK', UNCHANGED <<reservation, items>>,
           NEW b \in Blocks, ReleaseBlock(b)
    PROVE  PlaceInv'
  <1> DEFINE x(p) == block[b].blocked[p]
             B == [p \in Pools |-> [ga[Shared][p] EXCEPT !.available = @ + x(p)]]
  <1>1. ga \in [Sources -> [Pools -> GARow]] /\ Shared \in Sources
    BY SourcesFinite DEF PlaceInv, RowsOK
  <1>2. ga' = [ga EXCEPT ![Shared] = B] /\ UNCHANGED allocation
    BY DEF ReleaseBlock
  <1>3. ASSUME NEW p \in Pools
        PROVE  /\ B[p] \in GARow /\ x(p) \in Nat
               /\ Current(B[p]) = Current(ga[Shared][p]) + x(p)
               /\ B[p].assigned = ga[Shared][p].assigned
               /\ B[p].reserved = ga[Shared][p].reserved
    <2> DEFINE row == ga[Shared][p]
               v == x(p)
    <2>1. row \in GARow /\ v \in Nat
      BY <1>1 DEF CoreTypeOK, SeatTypeOK, BlockRow
    <2>2. B[p] = [row EXCEPT !.available = @ + v]
      OBVIOUS
    <2> HIDE DEF row, v, B
    <2>3. B[p] = [assigned |-> row.assigned, available |-> row.available + v,
                  reserved |-> row.reserved, sold |-> row.sold, issued |-> row.issued,
                  released |-> row.released]
      BY <2>1, <2>2 DEF GARow
    <2>4. B[p] \in GARow
      BY <2>1, <2>3, RowFields DEF GARow
    <2>5. Current(B[p]) = Current(row) + v
      BY <2>1, <2>3, RowFields DEF Current
    <2> QED BY <2>1, <2>3, <2>4, <2>5 DEF row, v
  <1>4. B \in [Pools -> GARow]
    BY <1>3
  <1>5. /\ \A p \in Pools : block'[b].blocked[p] = 0
        /\ \A c \in Blocks \ {b} : block'[c] = block[c]
    BY DEF ReleaseBlock, NoBlock, CoreTypeOK, SeatTypeOK
  <1> HIDE DEF B
  <1>6. ga'[Shared] = B /\ (\A s \in Sources \ {Shared} : ga'[s] = ga[s]) /\ RowsOK(ga')
    BY <1>1, <1>2, <1>4 DEF RowsOK
  <1>7. BucketsOK(ga)' /\ DestinationsDescend' /\ DestinationsExist'
    BY <1>2, <1>6, SharedOnly
  <1>8. PoolsBalanced'
    <2>1. ASSUME NEW p \in Pools
          PROVE  /\ Current(ga'[Shared][p]) + block'[b].blocked[p]
                      = Current(ga[Shared][p]) + block[b].blocked[p]
                 /\ ga'[Shared][p].assigned = ga[Shared][p].assigned
      <3>1. Current(ga[Shared][p]) \in Nat
        BY <1>1, RowFields
      <3> QED BY <1>3, <1>5, <1>6, <3>1
    <2> QED BY <1>5, <1>6, <2>1, BlockedBalance
  <1>9. BlocksOK'
    BY <1>5 DEF PlaceInv, BlocksOK
  <1>10. \A s \in Sources, p \in Pools : ga'[s][p].reserved = ga[s][p].reserved
    BY <1>3, <1>6
  <1> QED BY <1>6, <1>7, <1>8, <1>9, <1>10, CommandPlaces

\* Tickets issued from an Allocation stay accounted for in its bucket.
LEMMA IssuePlaces ==
    ASSUME PlaceInv, CoreTypeOK, CoreTypeOK', UNCHANGED <<reservation, items>>,
           NEW a \in Allocations, NEW t \in Targets, IssueNonPublic(a, t)
    PROVE  PlaceInv'
  <1> DEFINE x(p) == t.places[p]
             A == [p \in Pools |-> [ga[a][p] EXCEPT !.available = @ - x(p), !.issued = @ + x(p)]]
  <1>1. ga \in [Sources -> [Pools -> GARow]] /\ a \in Sources /\ a # Shared
    BY SourcesFinite, NamesAssumption DEF PlaceInv, RowsOK
  <1>2. ga' = [ga EXCEPT ![a] = A] /\ UNCHANGED <<allocation, block>> /\ Active(a)
    BY DEF IssueNonPublic
  <1>3. ASSUME NEW p \in Pools
        PROVE  /\ A[p] \in GARow
               /\ Current(A[p]) = Current(ga[a][p])
               /\ A[p].assigned = ga[a][p].assigned
               /\ A[p].released = ga[a][p].released
               /\ A[p].reserved = ga[a][p].reserved
    <2> DEFINE row == ga[a][p]
               v == x(p)
    <2>1. row \in GARow /\ v \in Nat /\ v <= row.available
      BY <1>1, TargetsAssumption DEF IssueNonPublic, IssuableFrom
    <2>2. A[p] = [row EXCEPT !.available = @ - v, !.issued = @ + v]
      OBVIOUS
    <2> HIDE DEF row, v, A
    <2>3. A[p] = [assigned |-> row.assigned, available |-> row.available - v,
                  reserved |-> row.reserved, sold |-> row.sold, issued |-> row.issued + v,
                  released |-> row.released]
      BY <2>1, <2>2 DEF GARow
    <2>4. A[p] \in GARow
      BY <2>1, <2>3, RowFields DEF GARow
    <2>5. Current(A[p]) = Current(row)
      BY <2>1, <2>3, RowFields DEF Current
    <2> QED BY <2>3, <2>4, <2>5 DEF row
  <1>4. A \in [Pools -> GARow]
    BY <1>3
  <1> HIDE DEF A
  <1>5. ga'[a] = A /\ (\A s \in Sources \ {a} : ga'[s] = ga[s]) /\ RowsOK(ga')
    BY <1>1, <1>2, <1>4 DEF RowsOK
  <1>6. BucketsOK(ga') /\ SamePool(ga, ga')
    <2>1. \A s \in Sources, p \in Pools :
              /\ ga'[s][p].assigned = ga[s][p].assigned
              /\ ga'[s][p].released = ga[s][p].released
              /\ Current(ga'[s][p]) = Current(ga[s][p])
              /\ s # Shared /\ ~Active(s) => ga'[s][p].available = ga[s][p].available
              /\ s # Shared /\ allocation[s].state = "NONE" => ga'[s][p] = ga[s][p]
      BY <1>2, <1>3, <1>5 DEF Active
    <2> QED BY <1>5, <2>1, MovePlaces DEF PlaceInv
  <1>7. BucketsOK(ga)' /\ DestinationsDescend' /\ DestinationsExist' /\ BlocksOK'
    BY <1>2, <1>6 DEF PlaceInv, BucketsOK, Active, DestinationsDescend, DestinationsExist, BlocksOK
  <1>8. PoolsBalanced'
    BY <1>2, <1>6 DEF PlaceInv, PoolsBalanced, SamePool, PoolSum, Blocked
  <1>9. \A s \in Sources, p \in Pools : ga'[s][p].reserved = ga[s][p].reserved
    BY <1>3, <1>5
  <1> QED BY <1>5, <1>7, <1>8, <1>9, CommandPlaces

\* A pool that is resized gains or loses available places of its shared row.
LEMMA CapacityPlaces ==
    ASSUME PlaceInv, CoreTypeOK, CoreTypeOK', UNCHANGED <<reservation, items>>,
           NEW q \in Pools, NEW capacity \in Capacities, SetGACapacity(q, capacity)
    PROVE  PlaceInv'
  <1> DEFINE row == ga[Shared][q]
             new == [row EXCEPT !.available = @ + capacity - row.assigned, !.assigned = capacity]
  <1>1. ga \in [Sources -> [Pools -> GARow]] /\ Shared \in Sources
    BY SourcesFinite DEF PlaceInv, RowsOK
  <1>2. ga' = [ga EXCEPT ![Shared] = [ga[Shared] EXCEPT ![q] = new]]
    BY <1>1 DEF SetGACapacity
  <1>3. UNCHANGED <<allocation, block>> /\ row.assigned - capacity <= row.available
    BY DEF SetGACapacity
  <1>4. row \in GARow /\ capacity \in Nat
    BY <1>1, CapacityAssumption
  <1>5. new = [assigned |-> capacity, available |-> row.available + capacity - row.assigned,
               reserved |-> row.reserved, sold |-> row.sold, issued |-> row.issued,
               released |-> row.released]
    <2>1. new = [row EXCEPT !.available = @ + capacity - row.assigned, !.assigned = capacity]
      OBVIOUS
    <2> HIDE DEF row, new
    <2> QED BY <1>4, <2>1 DEF GARow
  <1> HIDE DEF row, new
  <1>6. new \in GARow
    <2>1. row.available + capacity - row.assigned \in Nat
      BY <1>3, <1>4, RowFields
    <2> QED BY <1>4, <1>5, <2>1, RowFields DEF GARow
  <1>7. Current(new) = Current(row) + capacity - row.assigned /\ new.assigned = capacity
    BY <1>4, <1>5, RowFields DEF Current
  <1>8. /\ ga'[Shared][q] = new /\ \A p \in Pools \ {q} : ga'[Shared][p] = ga[Shared][p]
        /\ \A s \in Sources \ {Shared} : ga'[s] = ga[s]
    BY <1>1, <1>2
  <1>9. RowsOK(ga')
    BY <1>1, <1>2, <1>6 DEF RowsOK
  <1>10. BucketsOK(ga)' /\ DestinationsDescend' /\ DestinationsExist'
    BY <1>3, <1>8, SharedOnly
  <1>11. PoolsBalanced'
    <2> SUFFICES ASSUME NEW p \in Pools
                 PROVE  (PoolSum(ga, p) + Blocked(p))' = ga'[Shared][p].assigned
      BY DEF PoolsBalanced
    <2>1. /\ PoolSum(ga', p) = PoolSum(ga, p) - Current(ga[Shared][p]) + Current(ga'[Shared][p])
          /\ PoolSum(ga, p) \in Nat
      BY <1>8, <1>9, OneRowSum, SourcesFinite DEF PlaceInv
    <2>2. PoolSum(ga, p)' = PoolSum(ga', p) /\ Blocked(p)' = Blocked(p)
      BY <1>3 DEF PoolSum, Blocked
    <2>3. PoolSum(ga, p) + Blocked(p) = ga[Shared][p].assigned
      BY DEF PlaceInv, PoolsBalanced
    <2>4. ga[Shared][p] \in GARow
      BY <1>1
    <2>5. Blocked(p) \in Nat
      <3>1. \A b \in Blocks : [c \in Blocks |-> block[c].blocked[p]][b] \in Nat
        BY DEF CoreTypeOK, SeatTypeOK, BlockRow
      <3> QED BY <3>1, NamesAssumption, SumNat DEF Blocked
    <2>6. CASE p = q
      <3>1. Current(ga[Shared][p]) \in Nat /\ row.assigned \in Nat
        BY <1>4, <2>4, RowFields
      <3>2. ga[Shared][p] = row /\ ga'[Shared][p] = new
        BY <1>8, <2>6 DEF row
      <3> QED BY <1>4, <1>7, <2>1, <2>2, <2>3, <2>5, <3>1, <3>2
    <2>7. CASE p # q
      <3>1. Current(ga[Shared][p]) \in Nat
        BY <2>4, RowFields
      <3>2. ga'[Shared][p] = ga[Shared][p]
        BY <1>8, <2>7
      <3> QED BY <2>1, <2>2, <2>3, <2>5, <3>1, <3>2
    <2> QED BY <2>6, <2>7
  <1>12. BlocksOK'
    BY <1>3 DEF PlaceInv, BlocksOK
  <1>13. \A s \in Sources, p \in Pools : ga'[s][p].reserved = ga[s][p].reserved
    BY <1>5, <1>8 DEF row
  <1> QED BY <1>9, <1>10, <1>11, <1>12, <1>13, CommandPlaces

\* Every command of the operator keeps the invariant.
LEMMA OperatorPlaces ==
    ASSUME PlaceInv, SeatInv, CoreTypeOK, CoreTypeOK', Operator
    PROVE  PlaceInv'
  <1>1. UNCHANGED <<reservation, items>>
    BY DEF Operator
  <1>2. \A r \in Reservations : IsActive(r)' <=> IsActive(r)
    BY <1>1 DEF IsActive, State
  <1>3. CASE SalesNext /\ UNCHANGED inventoryVars
    BY <1>1, <1>2, <1>3, PlacesStay DEF inventoryVars, CoreTypeOK
  <1>4. CASE RestrictionsNext
    BY <1>1, <1>4, CreateAllocationPlaces, IssuePlaces, ReleaseAllocationPlaces,
       CreateBlockPlaces, ReleaseBlockPlaces, CapacityPlaces DEF RestrictionsNext
  <1>5. ASSUME NEW a \in Allocations, NEW channel \in Channels,
               ReclassifyAllocation(a, channel)
        PROVE  PlaceInv'
    <2>1. \A b \in Allocations : /\ allocation'[b].state = allocation[b].state
                                 /\ allocation'[b].dest = allocation[b].dest
      BY <1>5 DEF ReclassifyAllocation, CoreTypeOK, SeatTypeOK, AllocationRow
    <2> QED BY <1>1, <1>2, <1>5, <2>1, PlacesStay DEF ReclassifyAllocation, CoreTypeOK
  <1> QED BY <1>3, <1>4, <1>5 DEF Operator

\* Initially a pool is its shared row.
LEMMA InitPlaces == Init => PlaceInv
  <1> SUFFICES ASSUME Init PROVE PlaceInv
    OBVIOUS
  <1>1. /\ ga = [s \in Sources |-> [p \in Pools |->
                    IF s = Shared THEN Row(Capacity[p], Capacity[p]) ELSE Row(0, 0)]]
        /\ block = [b \in Blocks |-> NoBlock]
        /\ allocation = [a \in Allocations |-> NoAllocation]
        /\ reservation = [r \in Reservations |-> NoReservation]
    BY DEF Init, InventoryInit
  <1>2. \A p \in Pools : /\ Row(Capacity[p], Capacity[p]) \in GARow /\ Row(0, 0) \in GARow
                         /\ Current(Row(Capacity[p], Capacity[p])) = Capacity[p]
                         /\ Current(Row(0, 0)) = 0
    BY CapacityAssumption DEF Row, GARow, Current
  <1>3. RowsOK(ga)
    BY <1>1, <1>2 DEF RowsOK
  <1>4. \A a \in Allocations, p \in Pools : ga[a][p] = Row(0, 0)
    BY <1>1, SourcesFinite, NamesAssumption
  <1>5. BucketsOK(ga)
    <2>1. Row(0, 0).assigned = 0 /\ Row(0, 0).released = 0 /\ Row(0, 0).available = 0
      BY DEF Row
    <2> QED BY <1>2, <1>4, <2>1 DEF BucketsOK
  <1>6. BlocksOK
    BY <1>1 DEF BlocksOK, NoBlock
  <1>7. PoolsBalanced
    <2> SUFFICES ASSUME NEW p \in Pools
                 PROVE  PoolSum(ga, p) + Blocked(p) = ga[Shared][p].assigned
      BY DEF PoolsBalanced
    <2> DEFINE f == [s \in Sources |-> Current(ga[s][p])]
               g == [b \in Blocks |-> block[b].blocked[p]]
    <2>1. /\ f[Shared] = Capacity[p] /\ \A s \in Sources \ {Shared} : f[s] = 0
          /\ Capacity[p] \in Nat /\ \A s \in Sources : f[s] \in Int
      BY <1>1, <1>2, SourcesFinite, CapacityAssumption
    <2>2. \A b \in Blocks : g[b] = 0
      BY <1>1 DEF NoBlock
    <2>3. PoolSum(ga, p) = SumFunctionOnSet(f, Sources) /\ Blocked(p) = SumFunctionOnSet(g, Blocks)
      BY DEF PoolSum, Blocked
    <2>4. ga[Shared][p].assigned = Capacity[p]
      BY <1>1, SourcesFinite DEF Row
    <2>5. IsFiniteSet(Sources \ {Shared})
      BY SourcesFinite, FS_Subset
    <2> HIDE DEF f, g
    <2>6. SumFunctionOnSet(g, Blocks) = 0
      BY <2>2, NamesAssumption, SumZero
    <2>7. SumFunctionOnSet(f, Sources) = f[Shared] + SumFunctionOnSet(f, Sources \ {Shared})
      BY <2>1, SourcesFinite, SumRemove
    <2>8. SumFunctionOnSet(f, Sources \ {Shared}) = 0
      BY <2>1, <2>5, SumZero
    <2> QED BY <2>1, <2>3, <2>4, <2>6, <2>7, <2>8
  <1>8. HeldMatches
    <2>1. {r \in Reservations : IsActive(r)} = {}
      BY <1>1 DEF IsActive, State, ActiveStates, NoReservation
    <2>2. \A s, p : HeldFrom(s, p) = 0
      BY <2>1, SumEmpty DEF HeldFrom
    <2> QED BY <1>1, <2>2 DEF HeldMatches, Row
  <1>9. DestinationsDescend
    <2> DEFINE rank == [s \in Sources |-> IF s = Shared THEN 0 ELSE 1]
    <2>1. rank \in [Sources -> Nat]
      OBVIOUS
    <2>2. \A a \in Allocations : rank[allocation[a].dest] < rank[a]
      BY <1>1, SourcesFinite, NamesAssumption DEF NoAllocation
    <2> HIDE DEF rank
    <2> QED BY <2>1, <2>2 DEF DestinationsDescend
  <1>10. DestinationsExist
    BY <1>1 DEF DestinationsExist, NoAllocation
  <1> QED BY <1>3, <1>5, <1>6, <1>7, <1>8, <1>9, <1>10 DEF PlaceInv

\* Every step keeps the invariant.
LEMMA StepPlaces ==
    PlaceInv /\ SeatInv /\ CoreTypeOK /\ CoreTypeOK' /\ [Next]_vars => PlaceInv'
  <1> SUFFICES ASSUME PlaceInv, SeatInv, CoreTypeOK, CoreTypeOK', [Next]_vars PROVE PlaceInv'
    OBVIOUS
  <1>1. CASE Tick \/ UNCHANGED vars
    <2>1. UNCHANGED <<ga, allocation, block, items, reservation>>
      BY <1>1 DEF Tick, vars, inventoryVars
    <2>2. \A r \in Reservations : IsActive(r)' <=> IsActive(r)
      BY <2>1 DEF IsActive, State
    <2> QED BY <2>1, <2>2, PlacesStay DEF CoreTypeOK
  <1>2. CASE Operator
    BY <1>2, OperatorPlaces
  <1>3. ASSUME NEW r \in Reservations, SharedStep(r)
        PROVE  PlaceInv'
    BY <1>3, SharedStepPlaces
  <1>4. ASSUME NEW r \in Reservations, NEW q \in Orders, Create(r, q)
        PROVE  PlaceInv'
    BY <1>4, CreatePlaces
  <1>5. ASSUME NEW r \in Reservations, NEW q \in Orders, Modify(r, q)
        PROVE  PlaceInv'
    <2>1. CASE Expire(r)
      BY <1>5, <2>1, <1>3 DEF Modify, Modifiable, SharedStep
    <2>2. CASE ~Expire(r)
      <3>1. /\ ChangeItems(r, q) /\ IsActive(r)
            /\ UNCHANGED <<reservation, allocation, block>>
        BY <1>5, <2>2 DEF Modify, Modifiable, IsActive, ActiveStates
      <3> QED BY <3>1, ChangePlaces
    <2> QED BY <2>1, <2>2
  <1> QED BY <1>1, <1>2, <1>3, <1>4, <1>5, HandlerSteps DEF Next, Materialize

-----------------------------------------------------------------------------
(* The theorems.                                                           *)

\* The invariant holds of every reachable state; it needs the types and that
\* no Allocation releases to itself, before and after each step.
THEOREM PlacesInvariant == Spec => []PlaceInv
  BY TypeCorrect, SeatsInvariant, InitPlaces, StepPlaces, PTL DEF Spec

\* What the invariant says of the places.
LEMMA PlaceFacts ==
    ASSUME PlaceInv
    PROVE  PlacesAreBalanced /\ ReservedPlacesMatchItems
  <1>1. PlacesAreBalanced
    <2>1. \A f : SumFunction(f) = SumFunctionOnSet(f, DOMAIN f)
      BY DEF SumFunction
    <2>2. \A p \in Pools :
            /\ SumFunction([s \in Sources |-> Current(ga[s][p])]) = PoolSum(ga, p)
            /\ SumFunction([b \in Blocks |-> block[b].blocked[p]]) = Blocked(p)
      BY <2>1 DEF PoolSum, Blocked
    <2> QED BY <2>2 DEF PlacesAreBalanced, PlaceInv, PoolsBalanced, BucketsOK
  <1>2. ReservedPlacesMatchItems
    BY DEF ReservedPlacesMatchItems, PlaceInv, HeldMatches, HeldFrom
  <1> QED BY <1>1, <1>2

\* Whatever is reserved, returned, sold, issued, blocked, allocated, released
\* or resized, in whatever order: no place of a pool is made, lost or counted
\* twice, and a RELEASED Allocation keeps nothing that could be taken.
THEOREM NoPlaceIsLost == Spec => []PlacesAreBalanced
  BY PlacesInvariant, PlaceFacts, PTL

\* The reserved counters are exactly what the active reservations list.
THEOREM ReservedCountersAreExact == Spec => []ReservedPlacesMatchItems
  BY PlacesInvariant, PlaceFacts, PTL

ReleaseChainsEnd == \A s \in Sources : Live(FinalDestination(s))

\* Every release chain ends in a source that can take inventory back: the
\* "cycle" error of finalAllocationDestination is never returned.
THEOREM NoReleaseCycle == Spec => []ReleaseChainsEnd
  <1>1. PlaceInv /\ CoreTypeOK => ReleaseChainsEnd
    BY ChainEnds DEF PlaceInv, CoreTypeOK, ReleaseChainsEnd
  <1> QED BY <1>1, TypeCorrect, PlacesInvariant, PTL

\* A reservation's items can always come back and can always be sold.
LEMMA SettleableFacts ==
    ASSUME PlaceInv, SeatInv, CoreTypeOK
    PROVE  AlwaysSettleable
  <1> SUFFICES ASSUME NEW r \in Reservations, IsActive(r)
               PROVE  /\ CanReturn(r, items[r].seats, items[r].places)
                      /\ CanConsume(r, items[r].seats, items[r].places)
    BY DEF AlwaysSettleable
  <1>1. \A k \in items[r].seats : Claim(k.unit, "RESERVATION", r) \in claims
    BY DEF SeatInv, SeatsAreOwned
  <1>2. \A s \in Sources : FinalDestination(s) \in Sources /\ Live(FinalDestination(s))
    BY ChainEnds DEF PlaceInv, CoreTypeOK
  <1>3. \A k \in items[r].seats : k.src \in Sources /\ k.unit \in Units
    BY DEF CoreTypeOK, ReservationTypeOK, Seat
  <1>4. ASSUME NEW k \in items[r].seats, Moved(k)
        PROVE  membership[FinalDestination(k.src)][k.unit] # "RELEASED"
    <2>1. FinalDestination(k.src) \in Allocations /\ Active(FinalDestination(k.src))
      BY <1>2, <1>3, <1>4 DEF Moved, Live
    <2> QED BY <1>3, <2>1 DEF SeatInv, MembershipsAreOpen
  <1>5. ASSUME NEW s \in Sources, NEW p \in Pools
        PROVE  items[r].places[s][p] <= ga[s][p].reserved
    <2> DEFINE f == [o \in Reservations |-> items[o].places[s][p]]
               A == {o \in Reservations : IsActive(o)}
    <2>1. ga[s][p].reserved = SumFunctionOnSet(f, A)
      BY DEF PlaceInv, HeldMatches, HeldFrom
    <2>2. \A o \in A : f[o] \in Nat
      BY DEF CoreTypeOK, ReservationTypeOK
    <2>3. IsFiniteSet(A) /\ r \in A /\ f[r] = items[r].places[s][p]
      BY NamesAssumption, FS_Subset
    <2> HIDE DEF f, A
    <2> QED BY <2>1, <2>2, <2>3, SumNat
  <1> QED BY <1>1, <1>2, <1>3, <1>4, <1>5 DEF CanReturn, CanConsume

\* No handler that ends a reservation, by giving its items back or by selling
\* them, can ever meet a row it cannot work with: no reservation is stuck.
THEOREM NothingIsStuck == Spec => []AlwaysSettleable
  BY TypeCorrect, SeatsInvariant, PlacesInvariant, SettleableFacts, PTL
=============================================================================
