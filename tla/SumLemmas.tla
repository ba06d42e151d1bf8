------------------------------ MODULE SumLemmas ------------------------------
(* What SumFunctionOnSet(f, S) computes for every finite set S.  The sum is   *)
(* defined by recursion over the subsets of S; where a proof needs induction  *)
(* it takes a smallest set for which the claim fails.                         *)
EXTENDS Functions, FiniteSetTheorems, TLAPS

LEMMA UpToIsFinite == \A n \in Nat : IsFiniteSet(1 .. n)
<1> TAKE n \in Nat
<1>1. 1 \in Int /\ n \in Int
  OBVIOUS
<1> QED BY <1>1, FS_Interval

\* The element the recursion takes next.
First(T) == CHOOSE x \in T : TRUE

\* g is the table of the sums of f over all subsets of S.
IsTable(f, g, S) ==
    g = [T \in SUBSET S |-> IF T = {} THEN 0 ELSE f[First(T)] + g[T \ {First(T)}]]

-----------------------------------------------------------------------------
(* The recursion is well defined *)

\* The induction: among sets of subsets of a finite set there is a smallest member.
LEMMA SmallestMember ==
    ASSUME NEW S, IsFiniteSet(S), NEW B \in SUBSET SUBSET S, B # {}
    PROVE  \E T \in B : \A U \in B : U \subseteq T => U = T
<1>1. IsWellFoundedOn(StrictSubsetOrdering(S), SUBSET S)
  BY FS_StrictSubsetOrderingWellFounded, FS_FiniteSubsetsOfFinite
<1>2. PICK T \in B : \A U \in B : ~(<<U, T>> \in StrictSubsetOrdering(S))
  BY <1>1, WFMin
<1>3. \A U \in B : U \subseteq T => U = T
  BY <1>2 DEF StrictSubsetOrdering
<1> QED BY <1>3

LEMMA FirstIsMember == ASSUME NEW T, T # {} PROVE First(T) \in T
BY DEF First

LEMMA TablesAgree ==
    ASSUME NEW f, NEW g, NEW h, NEW A, NEW B, IsTable(f, g, A), IsTable(f, h, B),
           NEW S, IsFiniteSet(S), S \subseteq A, S \subseteq B
    PROVE  g[S] = h[S]
<1> DEFINE Bad == {T \in SUBSET S : g[T] # h[T]}
<1> SUFFICES ASSUME S \in Bad PROVE FALSE
  OBVIOUS
<1>1. PICK T \in Bad : \A U \in Bad : U \subseteq T => U = T
  <2>1. Bad \in SUBSET SUBSET S /\ Bad # {}
    OBVIOUS
  <2> HIDE DEF Bad
  <2> QED BY <2>1, SmallestMember
<1>2. T \in SUBSET A /\ T \in SUBSET B /\ T \in SUBSET S /\ g[T] # h[T]
  BY <1>1
<1>3. CASE T = {}
  BY <1>2, <1>3 DEF IsTable
<1>4. CASE T # {}
  <2>1. First(T) \in T
    BY <1>4, FirstIsMember
  <2> DEFINE U == T \ {First(T)}
  <2>2. g[U] = h[U]
    BY <1>1, <1>2, <2>1
  <2>3. g[T] = f[First(T)] + g[U] /\ h[T] = f[First(T)] + h[U]
    BY <1>2, <1>4 DEF IsTable
  <2> QED BY <1>2, <2>2, <2>3
<1> QED BY <1>3, <1>4

LEMMA TableExists ==
    ASSUME NEW f, NEW S, IsFiniteSet(S)
    PROVE  \E g : IsTable(f, g, S)
<1> DEFINE Bad == {T \in SUBSET S : ~\E g : IsTable(f, g, T)}
<1> SUFFICES ASSUME S \in Bad PROVE FALSE
  OBVIOUS
<1>1. PICK T \in Bad : \A U \in Bad : U \subseteq T => U = T
  <2>1. Bad \in SUBSET SUBSET S /\ Bad # {}
    OBVIOUS
  <2> HIDE DEF Bad
  <2> QED BY <2>1, SmallestMember
<1>2. T \in SUBSET S /\ IsFiniteSet(T) /\ ~\E g : IsTable(f, g, T)
  BY <1>1, FS_Subset
<1> DEFINE Table(U) == CHOOSE g : IsTable(f, g, U)
           Rest(U) == U \ {First(U)}
           h == [U \in SUBSET T |-> IF U = {} THEN 0 ELSE f[First(U)] + Table(Rest(U))[Rest(U)]]
<1>3. \A U \in SUBSET T : U # {} => /\ IsTable(f, Table(Rest(U)), Rest(U))
                                   /\ Rest(U) \in SUBSET T /\ Rest(U) # T
  <2> SUFFICES ASSUME NEW U \in SUBSET T, U # {}
               PROVE  IsTable(f, Table(Rest(U)), Rest(U)) /\ Rest(U) \in SUBSET T /\ Rest(U) # T
    OBVIOUS
  <2>1. First(U) \in U
    BY FirstIsMember
  <2>2. Rest(U) \notin Bad /\ Rest(U) \in SUBSET S /\ Rest(U) \in SUBSET T /\ Rest(U) # T
    BY <1>1, <1>2, <2>1
  <2>3. \E g : IsTable(f, g, Rest(U))
    BY <2>2
  <2> QED BY <2>2, <2>3
<1>4. \A U \in SUBSET T : U # {} => h[Rest(U)] = Table(Rest(U))[Rest(U)]
  <2> SUFFICES ASSUME NEW U \in SUBSET T, U # {}
               PROVE  h[Rest(U)] = Table(Rest(U))[Rest(U)]
    OBVIOUS
  <2> DEFINE V == Rest(U)
  <2>1. IsTable(f, Table(V), V) /\ V \in SUBSET T
    BY <1>3
  <2>2. CASE V = {}
    BY <2>1, <2>2 DEF IsTable
  <2>3. CASE V # {}
    <3>1. IsTable(f, Table(Rest(V)), Rest(V)) /\ Rest(V) \in SUBSET T
      BY <1>3, <2>1, <2>3
    <3>2. IsFiniteSet(Rest(V)) /\ Rest(V) \subseteq V
      BY <1>2, <3>1, FS_Subset
    <3> HIDE DEF Rest, Table
    <3>3. Table(Rest(V))[Rest(V)] = Table(V)[Rest(V)]
      BY <2>1, <3>1, <3>2, TablesAgree
    <3>4. Table(V)[V] = f[First(V)] + Table(V)[Rest(V)]
      BY <2>1, <2>3 DEF IsTable, Rest
    <3>5. h[V] = f[First(V)] + Table(Rest(V))[Rest(V)]
      BY <2>1, <2>3
    <3> QED BY <3>3, <3>4, <3>5
  <2> QED BY <2>2, <2>3
<1>5. IsTable(f, h, T)
  <2> DEFINE k == [U \in SUBSET T |-> IF U = {} THEN 0 ELSE f[First(U)] + h[Rest(U)]]
  <2>1. \A U \in SUBSET T : h[U] = k[U]
    <3> SUFFICES ASSUME NEW U \in SUBSET T PROVE h[U] = k[U]
      OBVIOUS
    <3>1. CASE U = {}
      BY <3>1
    <3>2. CASE U # {}
      <4>1. h[U] = f[First(U)] + Table(Rest(U))[Rest(U)] /\ k[U] = f[First(U)] + h[Rest(U)]
        BY <3>2
      <4> QED BY <1>4, <3>2, <4>1
    <3> QED BY <3>1, <3>2
  <2>2. h = [U \in SUBSET T |-> h[U]] /\ k = [U \in SUBSET T |-> k[U]]
    OBVIOUS
  <2>3. h = k
    <3> HIDE DEF h, k
    <3> QED BY <2>1, <2>2
  <2> QED BY <2>3 DEF IsTable
<1> QED BY <1>2, <1>5

-----------------------------------------------------------------------------
(* Sums *)

LEMMA SumUnfolds ==
    \A f, S : SumFunctionOnSet(f, S) = (CHOOSE g : IsTable(f, g, S))[S]
BY DEF SumFunctionOnSet, FoldFunctionOnSet, MapThenFoldSet, IsTable, First

LEMMA SumOfNone == ASSUME NEW f PROVE SumFunctionOnSet(f, {}) = 0
<1>1. IsFiniteSet({})
  BY FS_EmptySet
<1>2. IsTable(f, CHOOSE g : IsTable(f, g, {}), {})
  BY <1>1, TableExists
<1> QED BY <1>2, SumUnfolds DEF IsTable

\* The sum in the order of the recursion.
LEMMA SumByFirst ==
    ASSUME NEW f, NEW S, IsFiniteSet(S), S # {}
    PROVE  SumFunctionOnSet(f, S) = f[First(S)] + SumFunctionOnSet(f, S \ {First(S)})
<1> DEFINE Table(U) == CHOOSE g : IsTable(f, g, U)
           T == S \ {First(S)}
<1>1. IsFiniteSet(T) /\ T \subseteq S
  BY FS_Subset
<1>2. IsTable(f, Table(S), S) /\ IsTable(f, Table(T), T)
  BY <1>1, TableExists
<1>3. Table(S)[T] = Table(T)[T]
  <2> HIDE DEF Table, T
  <2> QED BY <1>1, <1>2, TablesAgree
<1>4. Table(S)[S] = f[First(S)] + Table(S)[T]
  BY <1>2 DEF IsTable
<1> QED BY <1>3, <1>4, SumUnfolds

\* A sum of integers is an integer, and of natural numbers a natural number.
LEMMA SumType ==
    ASSUME NEW f, NEW S, IsFiniteSet(S), NEW N, N = Nat \/ N = Int, \A x \in S : f[x] \in N
    PROVE  SumFunctionOnSet(f, S) \in N
<1> DEFINE Bad == {T \in SUBSET S : SumFunctionOnSet(f, T) \notin N}
<1> SUFFICES ASSUME S \in Bad PROVE FALSE
  OBVIOUS
<1>1. PICK T \in Bad : \A U \in Bad : U \subseteq T => U = T
  <2>1. Bad \in SUBSET SUBSET S /\ Bad # {}
    OBVIOUS
  <2> HIDE DEF Bad
  <2> QED BY <2>1, SmallestMember
<1>2. T \in SUBSET S /\ IsFiniteSet(T)
  BY <1>1, FS_Subset
<1>3. T # {}
  <2>1. SumFunctionOnSet(f, {}) \in N
    BY SumOfNone
  <2> QED BY <1>1, <2>1
<1>4. First(T) \in T /\ T \ {First(T)} \notin Bad
  BY <1>1, <1>3, FirstIsMember
<1>5. SumFunctionOnSet(f, T \ {First(T)}) \in N /\ f[First(T)] \in N
  BY <1>2, <1>4
<1>6. SumFunctionOnSet(f, T) = f[First(T)] + SumFunctionOnSet(f, T \ {First(T)})
  BY <1>2, <1>3, SumByFirst
<1> QED BY <1>1, <1>5, <1>6

\* The order does not matter: any element may be taken out first.
LEMMA SumWithout ==
    ASSUME NEW f, NEW S, IsFiniteSet(S), \A x \in S : f[x] \in Int, NEW e \in S
    PROVE  SumFunctionOnSet(f, S) = f[e] + SumFunctionOnSet(f, S \ {e})
<1> DEFINE Sum(T) == SumFunctionOnSet(f, T)
           Bad == {T \in SUBSET S : \E x \in T : Sum(T) # f[x] + Sum(T \ {x})}
<1> SUFFICES ASSUME S \in Bad PROVE FALSE
  OBVIOUS
<1>1. PICK T \in Bad : \A U \in Bad : U \subseteq T => U = T
  <2>1. Bad \in SUBSET SUBSET S /\ Bad # {}
    OBVIOUS
  <2> HIDE DEF Bad
  <2> QED BY <2>1, SmallestMember
<1>2. T \in SUBSET S /\ IsFiniteSet(T)
  BY <1>1, FS_Subset
<1>3. PICK x \in T : Sum(T) # f[x] + Sum(T \ {x})
  BY <1>1
<1> DEFINE y == First(T)
<1>4. y \in T /\ Sum(T) = f[y] + Sum(T \ {y})
  BY <1>2, <1>3, FirstIsMember, SumByFirst
<1>5. x # y
  BY <1>3, <1>4
<1>6. \A U \in SUBSET T : \A z \in U : U # T => Sum(U) = f[z] + Sum(U \ {z})
  BY <1>1, <1>2
<1>7. Sum(T \ {y}) = f[x] + Sum((T \ {y}) \ {x})
  BY <1>3, <1>4, <1>5, <1>6
<1>8. Sum(T \ {x}) = f[y] + Sum((T \ {x}) \ {y})
  BY <1>3, <1>4, <1>5, <1>6
<1>9. (T \ {y}) \ {x} = (T \ {x}) \ {y}
  OBVIOUS
<1>10. f[x] \in Int /\ f[y] \in Int /\ Sum((T \ {x}) \ {y}) \in Int
  <2>1. IsFiniteSet((T \ {x}) \ {y}) /\ \A z \in (T \ {x}) \ {y} : f[z] \in Int
    BY <1>2, FS_Subset
  <2> QED BY <1>2, <1>3, <1>4, <2>1, SumType
<1>11. \A a, b, c \in Int : a + (b + c) = b + (a + c)
  OBVIOUS
<1> QED
  <2>1. Sum(T) = f[y] + (f[x] + Sum((T \ {x}) \ {y}))
    BY <1>4, <1>7, <1>9
  <2>2. Sum(T) = f[x] + Sum(T \ {x})
    BY <1>8, <1>10, <1>11, <2>1
  <2> QED BY <1>3, <2>2

\* An element is added.
LEMMA SumWith ==
    ASSUME NEW f, NEW S, IsFiniteSet(S), \A x \in S : f[x] \in Int, NEW e, e \notin S, f[e] \in Int
    PROVE  SumFunctionOnSet(f, S \cup {e}) = f[e] + SumFunctionOnSet(f, S)
<1>1. IsFiniteSet(S \cup {e}) /\ (S \cup {e}) \ {e} = S
  BY FS_AddElement
<1>2. \A x \in S \cup {e} : f[x] \in Int
  OBVIOUS
<1> QED BY <1>1, <1>2, SumWithout

\* Only the values on the set matter.
LEMMA SumOfSame ==
    ASSUME NEW f, NEW g, NEW S, IsFiniteSet(S), \A x \in S : f[x] = g[x]
    PROVE  SumFunctionOnSet(f, S) = SumFunctionOnSet(g, S)
<1> DEFINE Bad == {T \in SUBSET S : SumFunctionOnSet(f, T) # SumFunctionOnSet(g, T)}
<1> SUFFICES ASSUME S \in Bad PROVE FALSE
  OBVIOUS
<1>1. PICK T \in Bad : \A U \in Bad : U \subseteq T => U = T
  <2>1. Bad \in SUBSET SUBSET S /\ Bad # {}
    OBVIOUS
  <2> HIDE DEF Bad
  <2> QED BY <2>1, SmallestMember
<1>2. T \in SUBSET S /\ IsFiniteSet(T)
  BY <1>1, FS_Subset
<1>3. T # {}
  BY <1>1, SumOfNone
<1>4. First(T) \in T /\ T \ {First(T)} \notin Bad
  BY <1>1, <1>3, FirstIsMember
<1>5. f[First(T)] = g[First(T)]
  BY <1>2, <1>4
<1>6. /\ SumFunctionOnSet(f, T) = f[First(T)] + SumFunctionOnSet(f, T \ {First(T)})
      /\ SumFunctionOnSet(g, T) = g[First(T)] + SumFunctionOnSet(g, T \ {First(T)})
  BY <1>2, <1>3, SumByFirst
<1> QED BY <1>1, <1>2, <1>4, <1>5, <1>6

\* One value changes.
LEMMA SumChanges ==
    ASSUME NEW f, NEW g, NEW S, IsFiniteSet(S), \A x \in S : f[x] \in Int /\ g[x] \in Int,
           NEW e \in S, \A x \in S \ {e} : f[x] = g[x]
    PROVE  SumFunctionOnSet(g, S) = SumFunctionOnSet(f, S) + (g[e] - f[e])
<1>1. IsFiniteSet(S \ {e}) /\ \A x \in S \ {e} : f[x] \in Int
  BY FS_Subset
<1>2. SumFunctionOnSet(f, S \ {e}) = SumFunctionOnSet(g, S \ {e})
  BY <1>1, SumOfSame
<1>3. SumFunctionOnSet(f, S \ {e}) \in Int
  BY <1>1, SumType
<1>4. /\ SumFunctionOnSet(f, S) = f[e] + SumFunctionOnSet(f, S \ {e})
      /\ SumFunctionOnSet(g, S) = g[e] + SumFunctionOnSet(g, S \ {e})
  BY SumWithout
<1> QED BY <1>2, <1>3, <1>4

LEMMA SumOfZeros ==
    ASSUME NEW f, NEW S, IsFiniteSet(S), \A x \in S : f[x] = 0
    PROVE  SumFunctionOnSet(f, S) = 0
<1> DEFINE Bad == {T \in SUBSET S : SumFunctionOnSet(f, T) # 0}
<1> SUFFICES ASSUME S \in Bad PROVE FALSE
  OBVIOUS
<1>1. PICK T \in Bad : \A U \in Bad : U \subseteq T => U = T
  <2>1. Bad \in SUBSET SUBSET S /\ Bad # {}
    OBVIOUS
  <2> HIDE DEF Bad
  <2> QED BY <2>1, SmallestMember
<1>2. T \in SUBSET S /\ IsFiniteSet(T)
  BY <1>1, FS_Subset
<1>3. T # {}
  BY <1>1, SumOfNone
<1>4. First(T) \in T /\ T \ {First(T)} \notin Bad
  BY <1>1, <1>3, FirstIsMember
<1>5. SumFunctionOnSet(f, T) = f[First(T)] + SumFunctionOnSet(f, T \ {First(T)})
  BY <1>2, <1>3, SumByFirst
<1> QED BY <1>1, <1>2, <1>4, <1>5
=============================================================================
