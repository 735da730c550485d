------------------------------ MODULE SumTheorems ------------------------------
(* Sums of integers over a finite set, as SumFunctionOnSet of the community    *)
(* modules defines them: what the money of the ledgers and the tokens of the   *)
(* mind are counted with.  Induction is by a least counterexample.             *)
EXTENDS FiniteSetsExt, FiniteSetTheorems, TLAPS

-----------------------------------------------------------------------------
(* Least elements.                                                            *)

Less == {ss \in Nat \X Nat : ss[1] < ss[2]}

LEMMA LessWellFounded == IsWellFoundedOn(Less, Nat)
  BY NatLessThanWellFounded DEF OpToRel, Less

\* A set of naturals has a least element.
LEMMA LeastNatural ==
  ASSUME NEW T \in SUBSET Nat, T # {}
  PROVE  \E x \in T : \A y \in T : x <= y
<1>1. PICK x \in T : \A y \in T : ~(<<y, x>> \in Less)
  BY LessWellFounded, WFMin
<1>2. \A y \in T : ~(y < x)
  BY <1>1 DEF Less
<1> QED BY <1>2

\* A set of finite sets has one that includes no other.
LEMMA LeastSubset ==
  ASSUME NEW S, IsFiniteSet(S), NEW Bad \in SUBSET SUBSET S, Bad # {}
  PROVE  \E T \in Bad : \A U \in SUBSET T : U # T => U \notin Bad
<1>1. IsWellFoundedOn(StrictSubsetOrdering(S), SUBSET S)
  BY FS_StrictSubsetOrderingWellFounded, FS_FiniteSubsetsOfFinite
<1>2. PICK T \in Bad : \A U \in Bad : ~(<<U, T>> \in StrictSubsetOrdering(S))
  BY <1>1, WFMin
<1>3. ASSUME NEW U \in SUBSET T, U # T, U \in Bad PROVE FALSE
  BY <1>2, <1>3 DEF StrictSubsetOrdering
<1> QED BY <1>3

\* Induction over a finite set, with the sets it holds of as a set.
LEMMA RemovalInduction ==
  ASSUME NEW S, IsFiniteSet(S), NEW Good, {} \in Good,
         \A T \in SUBSET S : T # {} /\ (\A x \in T : T \ {x} \in Good) => T \in Good
  PROVE  S \in Good
<1> DEFINE Bad == (SUBSET S) \ Good
<1> SUFFICES ASSUME S \notin Good PROVE FALSE
  OBVIOUS
<1>1. Bad \in SUBSET SUBSET S /\ Bad # {}
  OBVIOUS
<1>2. PICK T \in Bad : \A U \in SUBSET T : U # T => U \notin Bad
  <2> HIDE DEF Bad
  <2> QED BY <1>1, LeastSubset
<1>3. \A x \in T : T \ {x} \in Good
  BY <1>2
<1> QED BY <1>2, <1>3

-----------------------------------------------------------------------------
(* The recursion of the fold is well defined.                                 *)

IsSum(g, f, S) ==
  g = [s \in SUBSET S |->
         IF s = {} THEN 0
         ELSE f[CHOOSE x \in s : TRUE] + g[s \ {CHOOSE x \in s : TRUE}]]

LEMMA SumIsUnique ==
  ASSUME NEW S, IsFiniteSet(S), NEW f, NEW T \in SUBSET S, NEW g, NEW h,
         IsSum(g, f, S), IsSum(h, f, T)
  PROVE  g[T] = h[T]
<1> DEFINE Bad == {U \in SUBSET T : g[U] # h[U]}
<1> SUFFICES ASSUME Bad # {} PROVE FALSE
  BY DEF Bad
<1>1. IsFiniteSet(T)
  BY FS_Subset
<1>0. Bad \in SUBSET SUBSET T
  OBVIOUS
<1>2. PICK U \in Bad : \A V \in SUBSET U : V # U => V \notin Bad
  <2> HIDE DEF Bad
  <2> QED BY <1>0, <1>1, LeastSubset
<1> DEFINE x == CHOOSE x \in U : TRUE
<1>3. U \in SUBSET T /\ U \in SUBSET S
  OBVIOUS
<1>4. g[U] = IF U = {} THEN 0 ELSE f[x] + g[U \ {x}]
  BY <1>3 DEF IsSum
<1>5. h[U] = IF U = {} THEN 0 ELSE f[x] + h[U \ {x}]
  BY <1>3 DEF IsSum
<1>6. U # {} => g[U \ {x}] = h[U \ {x}]
  BY <1>2, <1>3
<1> QED BY <1>4, <1>5, <1>6

LEMMA SumExists ==
  ASSUME NEW S, IsFiniteSet(S), NEW f
  PROVE  \E g : IsSum(g, f, S)
<1> DEFINE Bad == {T \in SUBSET S : ~\E g : IsSum(g, f, T)}
<1> SUFFICES ASSUME Bad # {} PROVE FALSE
  OBVIOUS
<1>0. Bad \in SUBSET SUBSET S
  OBVIOUS
<1>1. PICK T \in Bad : \A U \in SUBSET T : U # T => U \notin Bad
  <2> HIDE DEF Bad
  <2> QED BY <1>0, LeastSubset
<1>2. T # {}
  <2>1. IsSum([s \in SUBSET {} |-> 0], f, {})
    BY DEF IsSum
  <2> QED BY <2>1
<1>3. \A U \in SUBSET T : U # T => \E g : IsSum(g, f, U)
  BY <1>1
<1> DEFINE G(U) == CHOOSE g : IsSum(g, f, U)
<1>4. \A U \in SUBSET T : U # T => IsSum(G(U), f, U)
  BY <1>3
<1> DEFINE x == CHOOSE x \in T : TRUE
           h == [s \in SUBSET T |-> IF s = T THEN f[x] + G(T \ {x})[T \ {x}] ELSE G(s)[s]]
<1>5. \A s \in SUBSET T : s # T => IsFiniteSet(s)
  BY FS_Subset
<1>6. ASSUME NEW s \in SUBSET T, s # {}
      PROVE  h[s] = f[CHOOSE y \in s : TRUE] + h[s \ {CHOOSE y \in s : TRUE}]
  <2> DEFINE y == CHOOSE y \in s : TRUE
  <2>1. y \in s
    BY <1>6
  <2>2. CASE s = T
    BY <2>1, <2>2
  <2>3. CASE s # T
    <3>1. IsSum(G(s), f, s) /\ IsSum(G(s \ {y}), f, s \ {y})
      BY <1>4, <2>3
    <3>2. G(s)[s] = f[y] + G(s)[s \ {y}]
      BY <3>1, <1>6 DEF IsSum
    <3>3. G(s)[s \ {y}] = G(s \ {y})[s \ {y}]
      BY <3>1, <1>5, <2>3, SumIsUnique
    <3>4. h[s] = G(s)[s] /\ h[s \ {y}] = G(s \ {y})[s \ {y}]
      BY <2>1, <2>3
    <3> QED BY <3>2, <3>3, <3>4
  <2> QED BY <2>2, <2>3
<1>7. h[{}] = 0
  <2>1. IsSum(G({}), f, {})
    BY <1>2, <1>4
  <2> QED BY <2>1, <1>2 DEF IsSum
<1>8. IsSum(h, f, T)
  <2>1. h = [s \in SUBSET T |-> h[s]]
    OBVIOUS
  <2> HIDE DEF h
  <2>2. ASSUME NEW s \in SUBSET T
        PROVE  h[s] = IF s = {} THEN 0
                      ELSE f[CHOOSE y \in s : TRUE] + h[s \ {CHOOSE y \in s : TRUE}]
    BY <1>6, <1>7
  <2> QED BY <2>1, <2>2, Zenon DEF IsSum
<1> QED BY <1>1, <1>8

LEMMA SumRecursion ==
  ASSUME NEW S, IsFiniteSet(S), NEW f
  PROVE  \E g : IsSum(g, f, S) /\ SumFunctionOnSet(f, S) = g[S]
<1> DEFINE iter == CHOOSE g : IsSum(g, f, S)
<1>1. IsSum(iter, f, S)
  BY SumExists
<1>2. SumFunctionOnSet(f, S) = iter[S]
  BY DEF SumFunctionOnSet, FoldFunctionOnSet, MapThenFoldSet, IsSum
<1> QED BY <1>1, <1>2

-----------------------------------------------------------------------------
(* What the proofs cite.                                                      *)

\* The sum over no index is 0.
LEMMA SumEmpty == ASSUME NEW f PROVE SumFunctionOnSet(f, {}) = 0
<1>1. PICK g : IsSum(g, f, {}) /\ SumFunctionOnSet(f, {}) = g[{}]
  BY FS_EmptySet, SumRecursion
<1> QED BY <1>1 DEF IsSum

\* The sum takes the element that was chosen out of the set.
LEMMA SumChosen ==
  ASSUME NEW S, IsFiniteSet(S), S # {}, NEW f
  PROVE  LET x == CHOOSE x \in S : TRUE
         IN  SumFunctionOnSet(f, S) = f[x] + SumFunctionOnSet(f, S \ {x})
<1> DEFINE x == CHOOSE x \in S : TRUE
           T == S \ {x}
<1>1. PICK g : IsSum(g, f, S) /\ SumFunctionOnSet(f, S) = g[S]
  BY SumRecursion
<1>2. IsFiniteSet(T)
  BY FS_Subset
<1>3. PICK h : IsSum(h, f, T) /\ SumFunctionOnSet(f, T) = h[T]
  <2> HIDE DEF T
  <2> QED BY <1>2, SumRecursion
<1>4. g[T] = h[T]
  <2>1. T \in SUBSET S
    OBVIOUS
  <2> HIDE DEF T
  <2> QED BY <1>1, <1>3, <2>1, SumIsUnique
<1>5. g[S] = f[x] + g[T]
  BY <1>1 DEF IsSum
<1> QED BY <1>1, <1>3, <1>4, <1>5

\* A sum of integers is one.
LEMMA SumType ==
  ASSUME NEW S, IsFiniteSet(S), NEW f, \A x \in S : f[x] \in Int
  PROVE  SumFunctionOnSet(f, S) \in Int
<1> DEFINE Good == {T \in SUBSET S : SumFunctionOnSet(f, T) \in Int}
<1>1. {} \in Good
  BY SumEmpty
<1>2. ASSUME NEW T \in SUBSET S, T # {}, \A x \in T : T \ {x} \in Good PROVE T \in Good
  <2> DEFINE x == CHOOSE x \in T : TRUE
  <2>1. IsFiniteSet(T)
    BY FS_Subset
  <2>2. SumFunctionOnSet(f, T) = f[x] + SumFunctionOnSet(f, T \ {x})
    BY <1>2, <2>1, SumChosen
  <2>3. x \in T
    BY <1>2
  <2> HIDE DEF x
  <2> QED BY <1>2, <2>2, <2>3
<1>3. S \in Good
  <2> HIDE DEF Good
  <2> QED BY <1>1, <1>2, RemovalInduction
<1> QED BY <1>3

\* A sum depends on the values at its indices only.
LEMMA SumEqual ==
  ASSUME NEW S, IsFiniteSet(S), NEW f, NEW g, \A x \in S : f[x] = g[x]
  PROVE  SumFunctionOnSet(f, S) = SumFunctionOnSet(g, S)
<1> DEFINE Good == {T \in SUBSET S : SumFunctionOnSet(f, T) = SumFunctionOnSet(g, T)}
<1>1. {} \in Good
  BY SumEmpty
<1>2. ASSUME NEW T \in SUBSET S, T # {}, \A x \in T : T \ {x} \in Good PROVE T \in Good
  <2>1. IsFiniteSet(T)
    BY FS_Subset
  <2> DEFINE x == CHOOSE x \in T : TRUE
  <2>2. SumFunctionOnSet(f, T) = f[x] + SumFunctionOnSet(f, T \ {x})
    BY <1>2, <2>1, SumChosen
  <2>3. SumFunctionOnSet(g, T) = g[x] + SumFunctionOnSet(g, T \ {x})
    BY <1>2, <2>1, SumChosen
  <2>4. x \in T
    BY <1>2
  <2> HIDE DEF x
  <2> QED BY <1>2, <2>2, <2>3, <2>4
<1>3. S \in Good
  <2> HIDE DEF Good
  <2> QED BY <1>1, <1>2, RemovalInduction
<1> QED BY <1>3

\* Any element may be taken out first.
LEMMA SumRemove ==
  ASSUME NEW S, IsFiniteSet(S), NEW f, \A x \in S : f[x] \in Int, NEW a \in S
  PROVE  SumFunctionOnSet(f, S) = f[a] + SumFunctionOnSet(f, S \ {a})
<1> DEFINE Sum(T) == SumFunctionOnSet(f, T)
           Good == {T \in SUBSET S : \A y \in T : Sum(T) = f[y] + Sum(T \ {y})}
<1>0. \A T \in SUBSET S : Sum(T) \in Int
  BY FS_Subset, SumType
<1>1. {} \in Good
  OBVIOUS
<1>2. ASSUME NEW T \in SUBSET S, T # {}, \A x \in T : T \ {x} \in Good PROVE T \in Good
  <2> DEFINE x == CHOOSE x \in T : TRUE
  <2> SUFFICES ASSUME NEW y \in T, y # x PROVE Sum(T) = f[y] + Sum(T \ {y})
    <3>1. IsFiniteSet(T)
      BY FS_Subset
    <3> QED BY <1>2, <3>1, SumChosen
  <2>1. Sum(T) = f[x] + Sum(T \ {x})
    BY <1>2, FS_Subset, SumChosen
  <2>2. x \in T /\ T \ {x} \in Good /\ T \ {y} \in Good
    BY <1>2
  <2> HIDE DEF x
  <2> DEFINE U == (T \ {x}) \ {y}
  <2>3. U = (T \ {y}) \ {x} /\ U \in SUBSET S
    OBVIOUS
  <2>4. Sum(T \ {x}) = f[y] + Sum(U)
    BY <2>2
  <2>5. Sum(T \ {y}) = f[x] + Sum(U)
    BY <2>2, <2>3
  <2>6. Sum(U) \in Int /\ f[x] \in Int /\ f[y] \in Int
    BY <1>0, <2>2, <2>3
  <2> HIDE DEF Sum, U
  <2> QED BY <2>1, <2>4, <2>5, <2>6
<1>3. S \in Good
  <2> HIDE DEF Good
  <2> QED BY <1>1, <1>2, RemovalInduction
<1> QED BY <1>3

\* An index more.
LEMMA SumAdd ==
  ASSUME NEW S, IsFiniteSet(S), NEW a, a \notin S, NEW f,
         \A x \in S \cup {a} : f[x] \in Int
  PROVE  SumFunctionOnSet(f, S \cup {a}) = f[a] + SumFunctionOnSet(f, S)
<1> DEFINE T == S \cup {a}
<1>1. IsFiniteSet(T)
  BY FS_AddElement
<1>2. T \ {a} = S
  OBVIOUS
<1>3. a \in T /\ \A x \in T : f[x] \in Int
  OBVIOUS
<1> SUFFICES SumFunctionOnSet(f, T) = f[a] + SumFunctionOnSet(f, S)
  OBVIOUS
<1> HIDE DEF T
<1>4. SumFunctionOnSet(f, T) = f[a] + SumFunctionOnSet(f, T \ {a})
  BY <1>1, <1>3, SumRemove
<1> QED BY <1>2, <1>4

\* One value changes.
LEMMA SumChange ==
  ASSUME NEW S, IsFiniteSet(S), NEW a \in S, NEW f, NEW g,
         \A x \in S : f[x] \in Int, g[a] \in Int,
         \A x \in S \ {a} : g[x] = f[x]
  PROVE  SumFunctionOnSet(g, S) = SumFunctionOnSet(f, S) - f[a] + g[a]
<1>1. IsFiniteSet(S \ {a})
  BY FS_RemoveElement
<1>2. SumFunctionOnSet(f, S) = f[a] + SumFunctionOnSet(f, S \ {a})
  BY SumRemove
<1>3. SumFunctionOnSet(g, S) = g[a] + SumFunctionOnSet(g, S \ {a})
  BY SumRemove
<1>4. SumFunctionOnSet(g, S \ {a}) = SumFunctionOnSet(f, S \ {a})
  <2> DEFINE T == S \ {a}
  <2>1. IsFiniteSet(T) /\ \A x \in T : g[x] = f[x]
    BY <1>1
  <2> HIDE DEF T
  <2>2. SumFunctionOnSet(g, T) = SumFunctionOnSet(f, T)
    BY <2>1, SumEqual
  <2> QED BY <2>2 DEF T
<1>5. SumFunctionOnSet(f, S \ {a}) \in Int
  <2> DEFINE T == S \ {a}
  <2>1. IsFiniteSet(T) /\ \A x \in T : f[x] \in Int
    BY <1>1
  <2> HIDE DEF T
  <2>2. SumFunctionOnSet(f, T) \in Int
    BY <2>1, SumType
  <2> QED BY <2>2 DEF T
<1> QED BY <1>2, <1>3, <1>4, <1>5

\* The sum of two sums.
LEMMA SumPlus ==
  ASSUME NEW S, IsFiniteSet(S), NEW f, NEW g, NEW h,
         \A x \in S : f[x] \in Int /\ g[x] \in Int /\ h[x] = f[x] + g[x]
  PROVE  SumFunctionOnSet(h, S) = SumFunctionOnSet(f, S) + SumFunctionOnSet(g, S)
<1> DEFINE F(T) == SumFunctionOnSet(f, T)
           G(T) == SumFunctionOnSet(g, T)
           H(T) == SumFunctionOnSet(h, T)
           Good == {T \in SUBSET S : H(T) = F(T) + G(T)}
<1>0. \A T \in SUBSET S : IsFiniteSet(T) /\ F(T) \in Int /\ G(T) \in Int
  BY FS_Subset, SumType
<1>1. {} \in Good
  BY SumEmpty
<1>2. ASSUME NEW T \in SUBSET S, T # {}, \A x \in T : T \ {x} \in Good PROVE T \in Good
  <2>1. PICK x \in T : TRUE
    BY <1>2
  <2>2. IsFiniteSet(T) /\ \A y \in T : f[y] \in Int /\ g[y] \in Int /\ h[y] \in Int
    BY <1>0
  <2>3. F(T) = f[x] + F(T \ {x}) /\ G(T) = g[x] + G(T \ {x}) /\ H(T) = h[x] + H(T \ {x})
    BY <2>2, SumRemove
  <2>4. H(T \ {x}) = F(T \ {x}) + G(T \ {x}) /\ T \ {x} \in SUBSET S
    BY <1>2
  <2>5. F(T \ {x}) \in Int /\ G(T \ {x}) \in Int /\ h[x] = f[x] + g[x]
    BY <1>0, <2>4
  <2> HIDE DEF F, G, H
  <2>6. H(T) = F(T) + G(T)
    BY <2>2, <2>3, <2>4, <2>5
  <2> QED BY <2>6
<1>3. S \in Good
  <2> HIDE DEF Good
  <2> QED BY <1>1, <1>2, RemovalInduction
<1> QED BY <1>3

\* A sum grows with its values.
LEMMA SumMonotone ==
  ASSUME NEW S, IsFiniteSet(S), NEW f, NEW g,
         \A x \in S : f[x] \in Int /\ g[x] \in Int /\ f[x] <= g[x]
  PROVE  SumFunctionOnSet(f, S) <= SumFunctionOnSet(g, S)
<1> DEFINE F(T) == SumFunctionOnSet(f, T)
           G(T) == SumFunctionOnSet(g, T)
           Good == {T \in SUBSET S : F(T) <= G(T)}
<1>0. \A T \in SUBSET S : IsFiniteSet(T) /\ F(T) \in Int /\ G(T) \in Int
  BY FS_Subset, SumType
<1>1. {} \in Good
  BY SumEmpty
<1>2. ASSUME NEW T \in SUBSET S, T # {}, \A x \in T : T \ {x} \in Good PROVE T \in Good
  <2>1. PICK x \in T : TRUE
    BY <1>2
  <2>2. IsFiniteSet(T) /\ \A y \in T : f[y] \in Int /\ g[y] \in Int
    BY <1>0
  <2>3. F(T) = f[x] + F(T \ {x}) /\ G(T) = g[x] + G(T \ {x})
    BY <2>2, SumRemove
  <2>4. F(T \ {x}) <= G(T \ {x}) /\ T \ {x} \in SUBSET S
    BY <1>2
  <2>5. F(T \ {x}) \in Int /\ G(T \ {x}) \in Int /\ f[x] <= g[x]
    BY <1>0, <2>4
  <2> HIDE DEF F, G
  <2>6. F(T) <= G(T)
    BY <2>2, <2>3, <2>4, <2>5
  <2> QED BY <2>6
<1>3. S \in Good
  <2> HIDE DEF Good
  <2> QED BY <1>1, <1>2, RemovalInduction
<1> QED BY <1>3

\* A sum of zeros.
LEMMA SumZero ==
  ASSUME NEW S, IsFiniteSet(S), NEW f, \A x \in S : f[x] = 0
  PROVE  SumFunctionOnSet(f, S) = 0
<1> DEFINE F(T) == SumFunctionOnSet(f, T)
           Good == {T \in SUBSET S : F(T) = 0}
<1>1. {} \in Good
  BY SumEmpty
<1>2. ASSUME NEW T \in SUBSET S, T # {}, \A x \in T : T \ {x} \in Good PROVE T \in Good
  <2>1. PICK x \in T : TRUE
    BY <1>2
  <2>2. IsFiniteSet(T) /\ \A y \in T : f[y] \in Int
    BY FS_Subset
  <2>3. F(T) = f[x] + F(T \ {x})
    BY <2>2, SumRemove
  <2>4. F(T \ {x}) = 0 /\ f[x] = 0
    BY <1>2
  <2> HIDE DEF F
  <2>5. F(T) = 0
    BY <2>3, <2>4
  <2> QED BY <2>5
<1>3. S \in Good
  <2> HIDE DEF Good
  <2> QED BY <1>1, <1>2, RemovalInduction
<1> QED BY <1>3

\* A sum of naturals is one, and no value exceeds it.
LEMMA SumNat ==
  ASSUME NEW S, IsFiniteSet(S), NEW f, \A x \in S : f[x] \in Nat
  PROVE  /\ SumFunctionOnSet(f, S) \in Nat
         /\ \A x \in S : f[x] <= SumFunctionOnSet(f, S)
<1>1. ASSUME NEW T \in SUBSET S PROVE SumFunctionOnSet(f, T) \in Nat
  <2> DEFINE z == [x \in T |-> 0]
  <2>1. IsFiniteSet(T) /\ \A x \in T : z[x] \in Int /\ f[x] \in Int /\ z[x] <= f[x]
    BY FS_Subset
  <2>2. \A x \in T : z[x] = 0
    OBVIOUS
  <2> HIDE DEF z
  <2>3. SumFunctionOnSet(z, T) <= SumFunctionOnSet(f, T)
    BY <2>1, SumMonotone
  <2>4. SumFunctionOnSet(z, T) = 0
    BY <2>1, <2>2, SumZero
  <2>5. SumFunctionOnSet(f, T) \in Int
    BY <2>1, SumType
  <2> QED BY <2>3, <2>4, <2>5
<1>2. ASSUME NEW x \in S PROVE f[x] <= SumFunctionOnSet(f, S)
  <2>1. SumFunctionOnSet(f, S) = f[x] + SumFunctionOnSet(f, S \ {x})
    BY SumRemove
  <2>2. SumFunctionOnSet(f, S \ {x}) \in Nat
    BY <1>1
  <2> QED BY <2>1, <2>2
<1> QED BY <1>1, <1>2

\* Elements that add nothing may be left out.
LEMMA SumRestrict ==
  ASSUME NEW S, IsFiniteSet(S), NEW f, \A x \in S : f[x] \in Int,
         NEW T \in SUBSET S, \A x \in S \ T : f[x] = 0
  PROVE  SumFunctionOnSet(f, T) = SumFunctionOnSet(f, S)
<1> DEFINE F(U) == SumFunctionOnSet(f, U)
           Good == {U \in SUBSET S : F(U) = F(U \cap T)}
<1>0. \A U \in SUBSET S : IsFiniteSet(U) /\ F(U) \in Int
  BY FS_Subset, SumType
<1>1. {} \in Good
  OBVIOUS
<1>2. ASSUME NEW U \in SUBSET S, U # {}, \A x \in U : U \ {x} \in Good PROVE U \in Good
  <2>1. PICK x \in U : TRUE
    BY <1>2
  <2>2. IsFiniteSet(U) /\ \A y \in U : f[y] \in Int
    BY <1>0
  <2>3. F(U) = f[x] + F(U \ {x})
    BY <2>2, SumRemove
  <2>4. F(U \ {x}) = F((U \ {x}) \cap T)
    BY <1>2
  <2>5. CASE x \in T
    <3>1. (U \ {x}) \cap T = (U \cap T) \ {x}
      OBVIOUS
    <3> DEFINE V == U \cap T
    <3>2. IsFiniteSet(V) /\ x \in V /\ \A y \in V : f[y] \in Int
      BY <1>0, <2>5
    <3> HIDE DEF V
    <3>3. F(V) = f[x] + F(V \ {x})
      BY <3>2, SumRemove
    <3>4. F(U) = F(U \cap T)
      BY <2>3, <2>4, <3>1, <3>3 DEF V
    <3> QED BY <3>4
  <2>6. CASE x \notin T
    <3>1. (U \ {x}) \cap T = U \cap T
      BY <2>6
    <3>0. x \in S \ T /\ U \ {x} \in SUBSET S
      BY <2>6
    <3>2. f[x] = 0
      BY <3>0
    <3>4. F(U \ {x}) \in Int
      <4> HIDE DEF F
      <4> QED BY <1>0, <3>0
    <3>5. F(U) = F(U \ {x})
      <4> HIDE DEF F
      <4> QED BY <2>3, <3>2, <3>4
    <3> QED BY <2>4, <3>1, <3>5
  <2> QED BY <2>5, <2>6
<1>3. S \in Good
  <2> HIDE DEF Good
  <2> QED BY <1>1, <1>2, RemovalInduction
<1>4. S \cap T = T
  OBVIOUS
<1> QED BY <1>3, <1>4

\* A part of a sum of naturals is at most the whole.
LEMMA SumPart ==
  ASSUME NEW S, IsFiniteSet(S), NEW f, \A x \in S : f[x] \in Nat, NEW T \in SUBSET S
  PROVE  SumFunctionOnSet(f, T) <= SumFunctionOnSet(f, S)
<1> DEFINE g == [x \in S |-> IF x \in T THEN f[x] ELSE 0]
<1>1. /\ \A x \in S : f[x] \in Int /\ g[x] \in Int /\ g[x] <= f[x]
      /\ \A x \in S \ T : g[x] = 0
      /\ \A x \in T : g[x] = f[x]
      /\ IsFiniteSet(T)
  BY FS_Subset
<1> HIDE DEF g
<1>2. SumFunctionOnSet(g, T) = SumFunctionOnSet(g, S)
  BY <1>1, SumRestrict
<1>3. SumFunctionOnSet(g, T) = SumFunctionOnSet(f, T)
  BY <1>1, SumEqual
<1>4. SumFunctionOnSet(g, S) <= SumFunctionOnSet(f, S)
  BY <1>1, SumMonotone
<1> QED BY <1>2, <1>3, <1>4

\* A sum is that of a part and that of the rest.
LEMMA SumSplit ==
  ASSUME NEW S, IsFiniteSet(S), NEW f, \A x \in S : f[x] \in Int, NEW T \in SUBSET S
  PROVE  SumFunctionOnSet(f, S) = SumFunctionOnSet(f, T) + SumFunctionOnSet(f, S \ T)
<1> DEFINE g == [x \in S |-> IF x \in T THEN f[x] ELSE 0]
           h == [x \in S |-> IF x \in T THEN 0 ELSE f[x]]
           U == S \ T
<1>1. /\ \A x \in S : g[x] \in Int /\ h[x] \in Int /\ f[x] = g[x] + h[x]
      /\ \A x \in S \ T : g[x] = 0
      /\ \A x \in S \ U : h[x] = 0
      /\ \A x \in T : g[x] = f[x]
      /\ \A x \in U : h[x] = f[x]
      /\ U \in SUBSET S /\ IsFiniteSet(T) /\ IsFiniteSet(U)
  BY FS_Subset
<1> SUFFICES SumFunctionOnSet(f, S) = SumFunctionOnSet(f, T) + SumFunctionOnSet(f, U)
  OBVIOUS
<1> HIDE DEF g, h, U
<1>2. SumFunctionOnSet(f, S) = SumFunctionOnSet(g, S) + SumFunctionOnSet(h, S)
  BY <1>1, SumPlus
<1>3. SumFunctionOnSet(g, T) = SumFunctionOnSet(g, S)
  BY <1>1, SumRestrict
<1>4. SumFunctionOnSet(h, U) = SumFunctionOnSet(h, S)
  BY <1>1, SumRestrict
<1>5. /\ SumFunctionOnSet(g, T) = SumFunctionOnSet(f, T)
      /\ SumFunctionOnSet(h, U) = SumFunctionOnSet(f, U)
  BY <1>1, SumEqual
<1> QED BY <1>2, <1>3, <1>4, <1>5

\* A sum of numbers that are not positive is not either.
LEMMA SumNotPositive ==
  ASSUME NEW S, IsFiniteSet(S), NEW f, \A x \in S : f[x] \in Int /\ f[x] <= 0
  PROVE  SumFunctionOnSet(f, S) \in Int /\ SumFunctionOnSet(f, S) <= 0
<1> DEFINE z == [x \in S |-> 0]
<1>1. \A x \in S : f[x] \in Int /\ z[x] \in Int /\ f[x] <= z[x] /\ z[x] = 0
  OBVIOUS
<1> HIDE DEF z
<1>2. SumFunctionOnSet(f, S) <= SumFunctionOnSet(z, S)
  BY <1>1, SumMonotone
<1>3. SumFunctionOnSet(z, S) = 0
  BY <1>1, SumZero
<1> QED BY <1>2, <1>3, SumType

-----------------------------------------------------------------------------
\* The image of a finite set is finite.
LEMMA ImageFinite ==
  ASSUME NEW S, IsFiniteSet(S), NEW h
  PROVE  IsFiniteSet({h[x] : x \in S})
<1> DEFINE T == {h[x] : x \in S}
           k == [x \in S |-> h[x]]
<1>1. k \in Surjection(S, T)
  BY DEF Surjection
<1> HIDE DEF k
<1>2. IsFiniteSet(T)
  <2> HIDE DEF T
  <2> QED BY <1>1, FS_Surjection
<1> QED BY <1>2

\* Sums of two sets, one of which is the other under new names, are equal.
LEMMA SumImage ==
  ASSUME NEW S, IsFiniteSet(S), NEW f, NEW g, NEW h,
         \A x, y \in S : h[x] = h[y] => x = y,
         \A x \in S : f[x] \in Int /\ g[h[x]] = f[x]
  PROVE  SumFunctionOnSet(g, {h[x] : x \in S}) = SumFunctionOnSet(f, S)
<1> DEFINE Im(U) == {h[x] : x \in U}
           F(U) == SumFunctionOnSet(f, U)
           G(U) == SumFunctionOnSet(g, U)
           Good == {U \in SUBSET S : G(Im(U)) = F(U)}
<1>0. \A U \in SUBSET S : IsFiniteSet(U) /\ IsFiniteSet(Im(U))
  <2> SUFFICES ASSUME NEW U \in SUBSET S PROVE IsFiniteSet(U) /\ IsFiniteSet(Im(U))
    OBVIOUS
  <2>1. Im(U) \in SUBSET Im(S)
    OBVIOUS
  <2>2. IsFiniteSet(Im(S))
    BY ImageFinite
  <2> HIDE DEF Im
  <2> QED BY <2>1, <2>2, FS_Subset
<1>1. {} \in Good
  <2>1. Im({}) = {}
    OBVIOUS
  <2> QED BY <2>1, SumEmpty
<1>2. ASSUME NEW U \in SUBSET S, U # {}, \A x \in U : U \ {x} \in Good PROVE U \in Good
  <2>1. PICK x \in U : TRUE
    BY <1>2
  <2>2. Im(U) \ {h[x]} = Im(U \ {x}) /\ h[x] \in Im(U)
    OBVIOUS
  <2>3. /\ \A y \in U : f[y] \in Int
        /\ \A z \in Im(U) : g[z] \in Int
        /\ g[h[x]] = f[x]
    OBVIOUS
  <2>4. IsFiniteSet(U) /\ IsFiniteSet(Im(U))
    BY <1>0
  <2>5. G(Im(U \ {x})) = F(U \ {x})
    BY <1>2
  <2> HIDE DEF Im, Good
  <2>6. F(U) = f[x] + F(U \ {x})
    BY <2>3, <2>4, SumRemove
  <2>7. G(Im(U)) = g[h[x]] + G(Im(U) \ {h[x]})
    BY <2>2, <2>3, <2>4, SumRemove
  <2>8. G(Im(U)) = F(U)
    BY <2>2, <2>3, <2>5, <2>6, <2>7
  <2> QED BY <2>8 DEF Good
<1> HIDE DEF Good
<1>3. S \in Good
  BY <1>1, <1>2, RemovalInduction
<1> QED BY <1>3 DEF Good
=============================================================================
