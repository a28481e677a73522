---------------------------- MODULE Sums_proofs ----------------------------
(***************************************************************************)
(* What the proofs about the bookkeeping need to know of finite sets, of   *)
(* sums over them, and of functions that are defined along a graph without *)
(* a cycle.  An induction is over a set of naturals or of subsets: the     *)
(* least of those that fail is one that cannot fail.                       *)
(***************************************************************************)
EXTENDS Integers, FiniteSets, FiniteSetsExt, FiniteSetTheorems, TLAPS

\* A set of naturals, as the ports of processes and the places of tables are, has
\* a least member.
LEMMA LeastNat ==
    ASSUME NEW T, T \subseteq Nat, T # {}
    PROVE  \E m \in T : \A n \in T : m <= n
<1> DEFINE R == {ss \in Nat \X Nat : ss[1] < ss[2]}
<1>1. IsWellFoundedOn(R, Nat)
  BY NatLessThanWellFounded DEF OpToRel
<1>2. \A m, n \in Nat : ~(<<n, m>> \in R) => m <= n
  OBVIOUS
<1> HIDE DEF R
<1>3. PICK m \in T : \A n \in T : ~(<<n, m>> \in R)
  BY <1>1, WFMin
<1> QED
  BY <1>2, <1>3

\* What holds of a set when it holds of its strict subsets holds of the subsets of
\* a finite set, as the subsystems and processes of a boot file are.
LEMMA SubsetInduction ==
    ASSUME NEW S, IsFiniteSet(S), NEW G,
           \A T \in SUBSET S : (\A U \in SUBSET T : U # T => U \in G) => T \in G
    PROVE  \A T \in SUBSET S : T \in G
<1>1. IsWellFoundedOn(StrictSubsetOrdering(S), SUBSET S)
  BY FS_StrictSubsetOrderingWellFounded, FS_FiniteSubsetsOfFinite
<1> DEFINE Bad == {T \in SUBSET S : T \notin G}
<1> SUFFICES ASSUME Bad # {} PROVE FALSE
  OBVIOUS
<1>2. Bad \subseteq SUBSET S
  OBVIOUS
<1>3. PICK T \in Bad : \A U \in Bad : ~(<<U, T>> \in StrictSubsetOrdering(S))
  <2> HIDE DEF Bad
  <2> QED
    BY <1>1, <1>2, WFMin
<1>4. \A U \in SUBSET T : U # T => U \in G
  BY <1>3 DEF StrictSubsetOrdering
<1> QED
  BY <1>3, <1>4

\* A function takes no more values than it has arguments.
LEMMA ImageFinite ==
    ASSUME NEW f, NEW S, IsFiniteSet(S)
    PROVE  /\ IsFiniteSet({f[x] : x \in S})
           /\ Cardinality({f[x] : x \in S}) <= Cardinality(S)
<1> DEFINE T == {f[x] : x \in S}
           g == [x \in S |-> f[x]]
<1>1. g \in Surjection(S, T)
  BY DEF Surjection
<1> HIDE DEF T, g
<1>2. IsFiniteSet(T) /\ Cardinality(T) <= Cardinality(S)
  BY <1>1, FS_Surjection
<1> QED
  BY <1>2 DEF T

\* It takes as many as it has arguments just when no two have the same value: two
\* routers have one target just when there are fewer targets than routers.
LEMMA ImageApart ==
    ASSUME NEW f, NEW S, IsFiniteSet(S)
    PROVE  Cardinality({f[x] : x \in S}) = Cardinality(S) <=> \A x, y \in S : f[x] = f[y] => x = y
<1> DEFINE T == {f[x] : x \in S}
           g == [x \in S |-> f[x]]
<1>1. g \in Surjection(S, T)
  BY DEF Surjection
<1>2. g \in Injection(S, T) <=> \A x, y \in S : f[x] = f[y] => x = y
  BY <1>1 DEF Injection, IsInjective, Surjection
<1> HIDE DEF T, g
<1>3. Cardinality(T) = Cardinality(S) <=> g \in Injection(S, T)
  BY <1>1, FS_Surjection
<1> QED
  BY <1>2, <1>3 DEF T

-----------------------------------------------------------------------------
(* Sums of the values of a function over a finite set *)

Chosen(s) == CHOOSE x \in s : TRUE

\* g holds the sum of f over each subset of S, worked out as SumFunctionOnSet does.
Sums(f, S, g) ==
    g = [s \in SUBSET S |-> IF s = {} THEN 0 ELSE f[Chosen(s)] + g[s \ {Chosen(s)}]]

\* A choice from a set is one of its members.
LEMMA ChosenIn == \A s : s # {} => Chosen(s) \in s
BY DEF Chosen

\* SumFunctionOnSet is such a function's value.
LEMMA SumUnfolded ==
    ASSUME NEW f, NEW S
    PROVE  SumFunctionOnSet(f, S) = (CHOOSE g : Sums(f, S, g))[S]
BY DEF SumFunctionOnSet, FoldFunctionOnSet, MapThenFoldSet, Sums, Chosen

\* There is one, though the recursion is over sets.
LEMMA SumsExist ==
    ASSUME NEW f, NEW S, IsFiniteSet(S)
    PROVE  \E g : Sums(f, S, g)
<1> DEFINE Tables == {T \in SUBSET S : \E g : Sums(f, T, g)}
<1>1. ASSUME NEW T \in SUBSET S, \A U \in SUBSET T : U # T => U \in Tables
      PROVE  \E g : Sums(f, T, g)
  <2>1. CASE T = {}
    <3>1. Sums(f, T, [s \in SUBSET T |-> 0])
      BY <2>1 DEF Sums
    <3> QED
      BY <3>1
  <2>2. CASE T # {}
    <3> DEFINE U(s) == s \ {Chosen(s)}
               G(u) == CHOOSE g : Sums(f, u, g)
               h == [s \in SUBSET T |-> IF s = {} THEN 0 ELSE f[Chosen(s)] + G(U(s))[U(s)]]
    <3>1. ASSUME NEW s \in SUBSET T, s # {} PROVE U(s) \in SUBSET T /\ U(s) # T
      BY <3>1, ChosenIn
    <3>2. ASSUME NEW u \in SUBSET T, u # T PROVE Sums(f, u, G(u))
      <4>1. \E g : Sums(f, u, g)
        BY <1>1, <3>2
      <4> QED
        BY <4>1
    \* Two of them have the same value at a set that both know.
    <3>3. ASSUME NEW u \in SUBSET T, NEW v \in SUBSET u, NEW g, NEW k,
                 Sums(f, u, g), Sums(f, v, k)
          PROVE  g[v] = k[v]
      <4> DEFINE Same == {s \in SUBSET v : g[s] = k[s]}
      <4>1. ASSUME NEW s \in SUBSET v, \A r \in SUBSET s : r # s => r \in Same
            PROVE  s \in Same
        <5>1. CASE s = {}
          BY <3>3, <5>1 DEF Sums
        <5>2. CASE s # {}
          <6>1. s \ {Chosen(s)} \in Same
            BY <4>1, <5>2, ChosenIn
          <6>2. g[s] = f[Chosen(s)] + g[s \ {Chosen(s)}]
            BY <3>3, <5>2 DEF Sums
          <6>3. k[s] = f[Chosen(s)] + k[s \ {Chosen(s)}]
            BY <3>3, <5>2 DEF Sums
          <6> QED
            BY <6>1, <6>2, <6>3
        <5> QED
          BY <5>1, <5>2
      <4>2. IsFiniteSet(v)
        BY FS_Subset
      <4> HIDE DEF Same
      <4>3. v \in Same
        BY <4>1, <4>2, SubsetInduction
      <4> QED
        BY <4>3 DEF Same
    <3>4. ASSUME NEW s \in SUBSET T, s # {}
          PROVE  h[U(s)] = G(U(s))[U(s)]
      <4> DEFINE u == U(s)
      <4>1. u \in SUBSET T /\ u # T /\ Sums(f, u, G(u))
        BY <3>1, <3>2, <3>4
      <4>2. CASE u = {}
        <5>1. G(u)[u] = 0
          BY <4>1, <4>2 DEF Sums
        <5> QED
          BY <4>1, <4>2, <5>1
      <4>3. CASE u # {}
        <5>1. U(u) \in SUBSET u /\ U(u) \in SUBSET T /\ U(u) # T
          BY <4>1, <4>3, <3>1
        <5>2. Sums(f, U(u), G(U(u)))
          BY <5>1, <3>2
        <5>3. G(u)[U(u)] = G(U(u))[U(u)]
          BY <4>1, <5>1, <5>2, <3>3
        <5> QED
          BY <4>1, <4>3, <5>3 DEF Sums
      <4> QED
        BY <4>2, <4>3
    <3>5. ASSUME NEW s \in SUBSET T
          PROVE  h[s] = IF s = {} THEN 0 ELSE f[Chosen(s)] + h[s \ {Chosen(s)}]
      <4>1. CASE s = {}
        BY <4>1
      <4>2. CASE s # {}
        <5>1. h[s \ {Chosen(s)}] = G(U(s))[U(s)]
          BY <3>4, <4>2
        <5>2. h[s] = f[Chosen(s)] + G(U(s))[U(s)]
          BY <4>2
        <5> QED
          BY <4>2, <5>1, <5>2
      <4> QED
        BY <4>1, <4>2
    <3>6. h = [s \in SUBSET T |-> h[s]]
      OBVIOUS
    <3> HIDE DEF h
    <3>7. Sums(f, T, h)
      BY <3>5, <3>6 DEF Sums
    <3> QED
      BY <3>7
  <2> QED
    BY <2>1, <2>2
<1>2. \A T \in SUBSET S : (\A U \in SUBSET T : U # T => U \in Tables) => T \in Tables
  BY <1>1
<1> HIDE DEF Tables
<1>3. S \in Tables
  BY <1>2, SubsetInduction
<1> QED
  BY <1>3 DEF Tables

\* So a sum is worked out one element at a time, in the order of the choices.
LEMMA SumEquation ==
    ASSUME NEW f, NEW S, IsFiniteSet(S)
    PROVE  SumFunctionOnSet(f, S) =
               IF S = {} THEN 0 ELSE f[Chosen(S)] + SumFunctionOnSet(f, S \ {Chosen(S)})
<1>1. PICK g : Sums(f, S, g)
  BY SumsExist
<1>2. ASSUME NEW T \in SUBSET S PROVE SumFunctionOnSet(f, T) = g[T]
  <2> DEFINE k == CHOOSE k : Sums(f, T, k)
             Same == {s \in SUBSET T : k[s] = g[s]}
  <2>1. IsFiniteSet(T)
    BY FS_Subset
  <2>2. Sums(f, T, k)
    <3>1. \E h : Sums(f, T, h)
      BY <2>1, SumsExist
    <3> QED
      BY <3>1
  <2>3. SumFunctionOnSet(f, T) = k[T]
    BY SumUnfolded
  <2> HIDE DEF k
  <2>4. ASSUME NEW s \in SUBSET T, \A r \in SUBSET s : r # s => r \in Same
        PROVE  s \in Same
    <3>1. CASE s = {}
      BY <1>1, <2>2, <3>1 DEF Sums
    <3>2. CASE s # {}
      <4>1. s \ {Chosen(s)} \in Same
        BY <2>4, <3>2, ChosenIn
      <4>2. g[s] = f[Chosen(s)] + g[s \ {Chosen(s)}]
        BY <1>1, <3>2 DEF Sums
      <4>3. k[s] = f[Chosen(s)] + k[s \ {Chosen(s)}]
        BY <2>2, <3>2 DEF Sums
      <4> QED
        BY <4>1, <4>2, <4>3
    <3> QED
      BY <3>1, <3>2
  <2> HIDE DEF Same
  <2>5. T \in Same
    BY <2>1, <2>4, SubsetInduction
  <2> QED
    BY <2>3, <2>5 DEF Same
<1>3. SumFunctionOnSet(f, S) = g[S] /\ SumFunctionOnSet(f, S \ {Chosen(S)}) = g[S \ {Chosen(S)}]
  BY <1>2
<1> QED
  BY <1>1, <1>3 DEF Sums

\* The counts and sizes that the bookkeeping adds up are naturals, as is their sum.
LEMMA SumNat ==
    ASSUME NEW f, NEW S, IsFiniteSet(S), \A x \in S : f[x] \in Nat
    PROVE  SumFunctionOnSet(f, S) \in Nat
<1> DEFINE Good == {T \in SUBSET S : SumFunctionOnSet(f, T) \in Nat}
<1>1. ASSUME NEW T \in SUBSET S, \A U \in SUBSET T : U # T => U \in Good
      PROVE  SumFunctionOnSet(f, T) \in Nat
  <2>1. IsFiniteSet(T)
    BY FS_Subset
  <2>2. CASE T = {}
    <3>1. SumFunctionOnSet(f, T) = 0
      BY <2>1, <2>2, SumEquation
    <3> QED
      BY <3>1
  <2>3. CASE T # {}
    <3>1. Chosen(T) \in T /\ f[Chosen(T)] \in Nat
      BY <2>3, ChosenIn
    <3>2. SumFunctionOnSet(f, T \ {Chosen(T)}) \in Nat
      BY <1>1, <3>1
    <3>3. SumFunctionOnSet(f, T) = f[Chosen(T)] + SumFunctionOnSet(f, T \ {Chosen(T)})
      BY <2>1, <2>3, SumEquation
    <3> QED
      BY <3>1, <3>2, <3>3
  <2> QED
    BY <2>2, <2>3
<1>2. \A T \in SUBSET S : (\A U \in SUBSET T : U # T => U \in Good) => T \in Good
  BY <1>1
<1> HIDE DEF Good
<1>3. S \in Good
  BY <1>2, SubsetInduction
<1> QED
  BY <1>3 DEF Good

\* A sum depends on the values over its set, and on nothing else of the function.
LEMMA SumSame ==
    ASSUME NEW f, NEW g, NEW S, IsFiniteSet(S), \A x \in S : f[x] = g[x]
    PROVE  SumFunctionOnSet(f, S) = SumFunctionOnSet(g, S)
<1> DEFINE Good == {T \in SUBSET S : SumFunctionOnSet(f, T) = SumFunctionOnSet(g, T)}
<1>1. ASSUME NEW T \in SUBSET S, \A U \in SUBSET T : U # T => U \in Good
      PROVE  SumFunctionOnSet(f, T) = SumFunctionOnSet(g, T)
  <2>1. IsFiniteSet(T)
    BY FS_Subset
  <2>2. CASE T = {}
    BY <2>1, <2>2, SumEquation
  <2>3. CASE T # {}
    <3>1. Chosen(T) \in T /\ f[Chosen(T)] = g[Chosen(T)]
      BY <2>3, ChosenIn
    <3>2. SumFunctionOnSet(f, T \ {Chosen(T)}) = SumFunctionOnSet(g, T \ {Chosen(T)})
      BY <1>1, <3>1
    <3>3. /\ SumFunctionOnSet(f, T) = f[Chosen(T)] + SumFunctionOnSet(f, T \ {Chosen(T)})
          /\ SumFunctionOnSet(g, T) = g[Chosen(T)] + SumFunctionOnSet(g, T \ {Chosen(T)})
      BY <2>1, <2>3, SumEquation
    <3> QED
      BY <3>1, <3>2, <3>3
  <2> QED
    BY <2>2, <2>3
<1>2. \A T \in SUBSET S : (\A U \in SUBSET T : U # T => U \in Good) => T \in Good
  BY <1>1
<1> HIDE DEF Good
<1>3. S \in Good
  BY <1>2, SubsetInduction
<1> QED
  BY <1>3 DEF Good

\* A sum is worked out in any order.
LEMMA SumRemove ==
    ASSUME NEW f, NEW S, IsFiniteSet(S), \A x \in S : f[x] \in Nat, NEW x \in S
    PROVE  SumFunctionOnSet(f, S) = f[x] + SumFunctionOnSet(f, S \ {x})
<1> DEFINE Good == {T \in SUBSET S : \A y \in T :
                       SumFunctionOnSet(f, T) = f[y] + SumFunctionOnSet(f, T \ {y})}
<1>1. ASSUME NEW T \in SUBSET S, \A U \in SUBSET T : U # T => U \in Good, NEW y \in T
      PROVE  SumFunctionOnSet(f, T) = f[y] + SumFunctionOnSet(f, T \ {y})
  <2> DEFINE c == Chosen(T)
  <2>1. IsFiniteSet(T) /\ c \in T
    BY FS_Subset, ChosenIn
  <2>2. SumFunctionOnSet(f, T) = f[c] + SumFunctionOnSet(f, T \ {c})
    BY <2>1, SumEquation
  <2> HIDE DEF c
  <2>3. CASE y = c
    BY <2>2, <2>3
  <2>4. CASE y # c
    <3>1. T \ {c} \in Good /\ T \ {y} \in Good
      BY <1>1, <2>1
    <3>2. SumFunctionOnSet(f, T \ {c}) = f[y] + SumFunctionOnSet(f, (T \ {c}) \ {y})
      BY <2>4, <3>1
    <3>3. SumFunctionOnSet(f, T \ {y}) = f[c] + SumFunctionOnSet(f, (T \ {y}) \ {c})
      BY <2>1, <2>4, <3>1
    <3>4. (T \ {c}) \ {y} = (T \ {y}) \ {c}
      OBVIOUS
    <3>5. f[c] \in Nat /\ f[y] \in Nat
      BY <2>1
    <3>6. SumFunctionOnSet(f, (T \ {c}) \ {y}) \in Nat
      <4>1. IsFiniteSet((T \ {c}) \ {y})
        BY <2>1, FS_Subset
      <4> QED
        BY <4>1, SumNat
    <3> DEFINE rest == SumFunctionOnSet(f, (T \ {c}) \ {y})
    <3>7. SumFunctionOnSet(f, T) = f[c] + (f[y] + rest)
      BY <2>2, <3>2
    <3>8. SumFunctionOnSet(f, T \ {y}) = f[c] + rest
      BY <3>3, <3>4
    <3>9. rest \in Nat
      BY <3>6
    <3> HIDE DEF rest
    <3>10. f[c] + (f[y] + rest) = f[y] + (f[c] + rest)
      BY <3>5, <3>9
    <3> QED
      BY <3>7, <3>8, <3>10
  <2> QED
    BY <2>3, <2>4
<1>2. \A T \in SUBSET S : (\A U \in SUBSET T : U # T => U \in Good) => T \in Good
  BY <1>1
<1> HIDE DEF Good
<1>3. S \in Good
  BY <1>2, SubsetInduction
<1> QED
  BY <1>3 DEF Good

\* A sum over no element is 0: what waits for nobody expects nothing.
LEMMA SumEmpty == \A f : SumFunctionOnSet(f, {}) = 0
BY SumEquation, FS_EmptySet

\* One more element adds its value.
LEMMA SumInsert ==
    ASSUME NEW f, NEW S, IsFiniteSet(S), NEW x, x \notin S, \A y \in S \union {x} : f[y] \in Nat
    PROVE  SumFunctionOnSet(f, S \union {x}) = f[x] + SumFunctionOnSet(f, S)
<1>1. IsFiniteSet(S \union {x})
  BY FS_AddElement
<1>2. (S \union {x}) \ {x} = S
  OBVIOUS
<1> QED
  BY <1>1, <1>2, SumRemove

\* A sum of larger values is as large.
LEMMA SumMonotone ==
    ASSUME NEW f, NEW g, NEW S, IsFiniteSet(S),
           \A x \in S : f[x] \in Nat /\ g[x] \in Nat /\ f[x] <= g[x]
    PROVE  SumFunctionOnSet(f, S) <= SumFunctionOnSet(g, S)
<1> DEFINE Good == {T \in SUBSET S : SumFunctionOnSet(f, T) <= SumFunctionOnSet(g, T)}
<1>1. ASSUME NEW T \in SUBSET S, \A U \in SUBSET T : U # T => U \in Good
      PROVE  SumFunctionOnSet(f, T) <= SumFunctionOnSet(g, T)
  <2>1. IsFiniteSet(T)
    BY FS_Subset
  <2>2. CASE T = {}
    <3>1. SumFunctionOnSet(f, T) = 0 /\ SumFunctionOnSet(g, T) = 0
      BY <2>1, <2>2, SumEquation
    <3> QED
      BY <3>1
  <2>3. CASE T # {}
    <3> DEFINE x == Chosen(T)
               U == T \ {x}
    <3>1. x \in T /\ U \in SUBSET T /\ U # T
      BY <2>3, ChosenIn
    <3>2. SumFunctionOnSet(f, U) <= SumFunctionOnSet(g, U)
      BY <1>1, <3>1
    <3>3. /\ SumFunctionOnSet(f, T) = f[x] + SumFunctionOnSet(f, U)
          /\ SumFunctionOnSet(g, T) = g[x] + SumFunctionOnSet(g, U)
      BY <2>1, <2>3, SumEquation
    <3>4. SumFunctionOnSet(f, U) \in Nat /\ SumFunctionOnSet(g, U) \in Nat
      <4>1. IsFiniteSet(U)
        BY <2>1, FS_Subset
      <4> QED
        BY <3>1, <4>1, SumNat
    <3>5. f[x] \in Nat /\ g[x] \in Nat /\ f[x] <= g[x]
      BY <3>1
    <3> HIDE DEF x, U
    <3> QED
      BY <3>2, <3>3, <3>4, <3>5
  <2> QED
    BY <2>2, <2>3
<1>2. \A T \in SUBSET S : (\A U \in SUBSET T : U # T => U \in Good) => T \in Good
  BY <1>1
<1> HIDE DEF Good
<1>3. S \in Good
  BY <1>2, SubsetInduction
<1> QED
  BY <1>3 DEF Good

\* Two sets without a common element are summed up apart.
LEMMA SumUnion ==
    ASSUME NEW f, NEW A, NEW B, IsFiniteSet(A), IsFiniteSet(B), A \cap B = {},
           \A x \in A \union B : f[x] \in Nat
    PROVE  SumFunctionOnSet(f, A \union B) = SumFunctionOnSet(f, A) + SumFunctionOnSet(f, B)
<1> DEFINE Good == {T \in SUBSET A : SumFunctionOnSet(f, T \union B)
                                     = SumFunctionOnSet(f, T) + SumFunctionOnSet(f, B)}
<1>1. ASSUME NEW T \in SUBSET A, \A U \in SUBSET T : U # T => U \in Good
      PROVE  SumFunctionOnSet(f, T \union B) = SumFunctionOnSet(f, T) + SumFunctionOnSet(f, B)
  <2>1. IsFiniteSet(T) /\ SumFunctionOnSet(f, B) \in Nat
    BY FS_Subset, SumNat
  <2>2. CASE T = {}
    <3>1. SumFunctionOnSet(f, T) = 0 /\ T \union B = B
      BY <2>2, SumEmpty
    <3> QED
      BY <2>1, <3>1
  <2>3. CASE T # {}
    <3> DEFINE x == Chosen(T)
               U == T \ {x}
    <3>1. x \in T /\ U \in SUBSET T /\ U # T
      BY <2>3, ChosenIn
    <3>2. SumFunctionOnSet(f, U \union B) = SumFunctionOnSet(f, U) + SumFunctionOnSet(f, B)
      BY <1>1, <3>1
    <3>3. SumFunctionOnSet(f, T) = f[x] + SumFunctionOnSet(f, U)
      BY <2>1, <2>3, SumEquation
    <3>4. SumFunctionOnSet(f, T \union B) = f[x] + SumFunctionOnSet(f, U \union B)
      <4>1. IsFiniteSet(T \union B)
        BY <2>1, FS_Union
      <4>2. \A y \in T \union B : f[y] \in Nat
        OBVIOUS
      <4>3. (T \union B) \ {x} = U \union B
        BY <3>1
      <4> QED
        BY <3>1, <4>1, <4>2, <4>3, SumRemove
    <3>5. SumFunctionOnSet(f, U) \in Nat
      <4>1. IsFiniteSet(U)
        BY <2>1, FS_Subset
      <4> QED
        BY <3>1, <4>1, SumNat
    <3>6. f[x] \in Nat
      BY <3>1
    <3> HIDE DEF x, U
    <3> QED
      BY <2>1, <3>2, <3>3, <3>4, <3>5, <3>6
  <2> QED
    BY <2>2, <2>3
<1>2. \A T \in SUBSET A : (\A U \in SUBSET T : U # T => U \in Good) => T \in Good
  BY <1>1
<1> HIDE DEF Good
<1>3. A \in Good
  BY <1>2, SubsetInduction
<1> QED
  BY <1>3 DEF Good

\* The sum of one value, over and over, is a product: the fragments of a reader all
\* have its size.
LEMMA SumConstant ==
    ASSUME NEW f, NEW S, IsFiniteSet(S), NEW k \in Nat, \A x \in S : f[x] = k
    PROVE  SumFunctionOnSet(f, S) = k * Cardinality(S)
<1> DEFINE Good == {T \in SUBSET S : SumFunctionOnSet(f, T) = k * Cardinality(T)}
<1>1. ASSUME NEW T \in SUBSET S, \A U \in SUBSET T : U # T => U \in Good
      PROVE  SumFunctionOnSet(f, T) = k * Cardinality(T)
  <2>1. IsFiniteSet(T)
    BY FS_Subset
  <2>2. CASE T = {}
    <3>1. SumFunctionOnSet(f, T) = 0 /\ Cardinality(T) = 0
      BY <2>1, <2>2, SumEquation, FS_EmptySet
    <3> QED
      BY <3>1
  <2>3. CASE T # {}
    <3> DEFINE x == Chosen(T)
               U == T \ {x}
    <3>1. x \in T /\ U \in SUBSET T /\ U # T
      BY <2>3, ChosenIn
    <3>2. SumFunctionOnSet(f, U) = k * Cardinality(U)
      BY <1>1, <3>1
    <3>3. SumFunctionOnSet(f, T) = k + SumFunctionOnSet(f, U)
      <4>1. f[x] = k
        BY <3>1
      <4> QED
        BY <2>1, <2>3, <4>1, SumEquation
    <3>4. Cardinality(U) \in Nat /\ Cardinality(T) = Cardinality(U) + 1
      <4>1. Cardinality(T) \in Nat /\ IsFiniteSet(U) /\ Cardinality(U) = Cardinality(T) - 1
        BY <2>1, <3>1, FS_RemoveElement, FS_CardinalityType
      <4>2. Cardinality(U) \in Nat
        BY <4>1, FS_CardinalityType
      <4> QED
        BY <4>1, <4>2
    <3> HIDE DEF x, U
    <3> QED
      BY <3>2, <3>3, <3>4
  <2> QED
    BY <2>2, <2>3
<1>2. \A T \in SUBSET S : (\A U \in SUBSET T : U # T => U \in Good) => T \in Good
  BY <1>1
<1> HIDE DEF Good
<1>3. S \in Good
  BY <1>2, SubsetInduction
<1> QED
  BY <1>3 DEF Good

\* Each p of A with each of its items.
Pairs(A, items) == UNION {{p} \X items[p] : p \in A}

\* A sum over pairs, of what the first of the pair has, is one over the first: the
\* space of a subsystem, added up fragment by fragment, is that of its readers.
LEMMA SumPairs ==
    ASSUME NEW A, IsFiniteSet(A), NEW items, \A p \in A : IsFiniteSet(items[p]),
           NEW f, \A p \in A : f[p] \in Nat,
           NEW g, \A x \in Pairs(A, items) : g[x] = f[x[1]],
           NEW h, \A p \in A : h[p] = f[p] * Cardinality(items[p])
    PROVE  /\ IsFiniteSet(Pairs(A, items))
           /\ SumFunctionOnSet(g, Pairs(A, items)) = SumFunctionOnSet(h, A)
<1> DEFINE Good == {T \in SUBSET A : /\ IsFiniteSet(Pairs(T, items))
                                     /\ SumFunctionOnSet(g, Pairs(T, items))
                                            = SumFunctionOnSet(h, T)}
<1>1. ASSUME NEW T \in SUBSET A, \A U \in SUBSET T : U # T => U \in Good
      PROVE  /\ IsFiniteSet(Pairs(T, items))
             /\ SumFunctionOnSet(g, Pairs(T, items)) = SumFunctionOnSet(h, T)
  <2>1. IsFiniteSet(T)
    BY FS_Subset
  <2>2. CASE T = {}
    <3>1. Pairs(T, items) = {}
      BY <2>2 DEF Pairs
    <3> QED
      BY <2>2, <3>1, SumEmpty, FS_EmptySet
  <2>3. CASE T # {}
    <3> DEFINE p == Chosen(T)
               U == T \ {p}
               own == {p} \X items[p]
    <3>1. p \in T /\ p \in A /\ U \in SUBSET T /\ U # T
      BY <2>3, ChosenIn
    <3>2. /\ IsFiniteSet(Pairs(U, items))
          /\ SumFunctionOnSet(g, Pairs(U, items)) = SumFunctionOnSet(h, U)
      BY <1>1, <3>1
    <3>3. SumFunctionOnSet(h, T) = h[p] + SumFunctionOnSet(h, U)
      BY <2>1, <2>3, SumEquation
    <3>4. /\ Pairs(T, items) = own \union Pairs(U, items)
          /\ own \cap Pairs(U, items) = {}
      BY <3>1 DEF Pairs
    <3>5. IsFiniteSet(own) /\ Cardinality(own) = Cardinality(items[p])
      <4>1. IsFiniteSet(items[p]) /\ Cardinality(items[p]) \in Nat
        BY <3>1, FS_CardinalityType
      <4>2. IsFiniteSet({p}) /\ Cardinality({p}) = 1
        BY FS_Singleton
      <4>3. IsFiniteSet({p} \X items[p])
            /\ Cardinality({p} \X items[p]) = Cardinality({p}) * Cardinality(items[p])
        BY <4>1, <4>2, FS_Product
      <4> QED
        BY <4>1, <4>2, <4>3
    <3>6. f[p] \in Nat /\ h[p] = f[p] * Cardinality(items[p])
      BY <3>1
    <3>7. \A x \in own : x \in Pairs(A, items) /\ x[1] = p
      BY <3>1 DEF Pairs
    <3>8. \A x \in own : g[x] = f[p]
      BY <3>7
    <3> HIDE DEF own
    <3>9. SumFunctionOnSet(g, own) = h[p]
      BY <3>5, <3>6, <3>8, SumConstant
    <3>10. \A x \in own \union Pairs(U, items) : g[x] \in Nat
      <4>1. \A x \in Pairs(U, items) : x \in Pairs(A, items) /\ x[1] \in A
        BY <3>1 DEF Pairs
      <4> QED
        BY <3>6, <3>8, <4>1
    <3> HIDE DEF p, U
    <3>11. /\ IsFiniteSet(own \union Pairs(U, items))
           /\ SumFunctionOnSet(g, own \union Pairs(U, items))
                  = SumFunctionOnSet(g, own) + SumFunctionOnSet(g, Pairs(U, items))
      <4>1. IsFiniteSet(own) /\ IsFiniteSet(Pairs(U, items))
        BY <3>2, <3>5
      <4>2. IsFiniteSet(own \union Pairs(U, items))
        BY <4>1, FS_Union
      <4>3. own \cap Pairs(U, items) = {}
        BY <3>4
      <4> QED
        BY <3>10, <4>1, <4>2, <4>3, SumUnion
    <3> QED
      BY <3>2, <3>3, <3>4, <3>9, <3>11
  <2> QED
    BY <2>2, <2>3
<1>2. \A T \in SUBSET A : (\A U \in SUBSET T : U # T => U \in Good) => T \in Good
  BY <1>1
<1> HIDE DEF Good
<1>3. A \in Good
  BY <1>2, SubsetInduction
<1> QED
  BY <1>3 DEF Good

-----------------------------------------------------------------------------
(* Recursion along a graph without a cycle *)

\* Every part of S has a member without a successor in that part.
Acyclic(S, K) == \A c \in SUBSET S : c # {} => \E s \in c : K[s] \cap c = {}

\* What holds of a node when it holds of its successors holds of every node.
LEMMA GraphInduction ==
    ASSUME NEW S, NEW K, Acyclic(S, K), NEW G,
           \A s \in S : (\A r \in K[s] \cap S : r \in G) => s \in G
    PROVE  \A s \in S : s \in G
<1> DEFINE c == {s \in S : s \notin G}
<1> SUFFICES ASSUME c # {} PROVE FALSE
  OBVIOUS
<1>1. PICK s \in c : K[s] \cap c = {}
  BY DEF Acyclic
<1> QED
  BY <1>1

\* What comes to s from its successors: what e has for each, or 1 of those that
\* pass their data on as a whole.
Inflow(K, split, e, s) == SumFunction([r \in K[s] |-> IF split[r] THEN e[r] ELSE 1])

\* The inflow depends on e at the successors only, and is a natural.
LEMMA InflowSame ==
    ASSUME NEW K, NEW split, NEW s, NEW d, NEW e, IsFiniteSet(K[s]),
           \A r \in K[s] : d[r] = e[r] /\ e[r] \in Nat
    PROVE  Inflow(K, split, d, s) = Inflow(K, split, e, s) /\ Inflow(K, split, e, s) \in Nat
<1> DEFINE f == [r \in K[s] |-> IF split[r] THEN d[r] ELSE 1]
           g == [r \in K[s] |-> IF split[r] THEN e[r] ELSE 1]
<1>1. f = g
  OBVIOUS
<1>2. \A r \in K[s] : g[r] \in Nat
  OBVIOUS
<1>3. DOMAIN g = K[s]
  OBVIOUS
<1>4. SumFunctionOnSet(g, K[s]) \in Nat
  <2> HIDE DEF g
  <2> QED
    BY <1>2, SumNat
<1>5. Inflow(K, split, d, s) = SumFunction(f) /\ Inflow(K, split, e, s) = SumFunction(g)
  BY DEF Inflow
<1> HIDE DEF f, g
<1>6. SumFunction(g) = SumFunctionOnSet(g, K[s])
  BY <1>3 DEF SumFunction
<1> QED
  BY <1>1, <1>4, <1>5, <1>6

\* e has at each node what h makes of the inflow.
Solves(S, K, split, h, e) ==
    e \in [S -> Nat] /\ \A s \in S : e[s] = h[<<s, Inflow(K, split, e, s)>>]

\* d is worked out so, wherever its successors have naturals.
Follows(S, K, split, h, d) ==
    \A s \in S : (\A r \in K[s] : d[r] \in Nat) => d[s] = h[<<s, Inflow(K, split, d, s)>>]

Solution(S, K, split, h) == CHOOSE e : Solves(S, K, split, h, e)

\* A function that is defined by what its node's successors have exists, when the
\* graph has no cycle: expected_fragments_per_event and max_event_sizes are such
\* functions, worked out by recursions that otherwise do not end.
LEMMA GraphRecursion ==
    ASSUME NEW S, IsFiniteSet(S), NEW K \in [S -> SUBSET S], Acyclic(S, K), NEW split,
           NEW h \in [S \X Nat -> Nat]
    PROVE  Solves(S, K, split, h, Solution(S, K, split, h))
<1> DEFINE Done(e, T) == \A s \in T : e[s] = h[<<s, Inflow(K, split, e, s)>>]
           \* C is what is left, of which nothing that is done depends
           Left == {C \in SUBSET S : /\ \A s \in S \ C : K[s] \cap C = {}
                                     /\ \E e \in [S \ C -> Nat] : Done(e, S \ C)}
           Good == {C \in SUBSET S : C \in Left => {} \in Left}
<1>1. ASSUME NEW C \in SUBSET S, \A U \in SUBSET C : U # C => U \in Good, C \in Left, C # {}
      PROVE  {} \in Left
  <2>1. PICK s \in C : K[s] \cap C = {}
    BY <1>1 DEF Acyclic
  <2>2. PICK e \in [S \ C -> Nat] : Done(e, S \ C)
    BY <1>1
  <2> DEFINE D == C \ {s}
             n == Inflow(K, split, e, s)
             d == [x \in S \ D |-> IF x = s THEN h[<<s, n>>] ELSE e[x]]
  <2>3. /\ \A x \in (S \ C) \union {s} : K[x] \subseteq S \ C /\ IsFiniteSet(K[x])
        /\ S \ D = (S \ C) \union {s} /\ s \in S
    <3>1. \A x \in S : K[x] \in SUBSET S
      OBVIOUS
    <3>2. \A x \in S \ C : K[x] \cap C = {}
      BY <1>1
    <3>3. \A x \in S : IsFiniteSet(K[x])
      BY <3>1, FS_Subset
    <3> QED
      BY <2>1, <3>1, <3>2, <3>3
  <2>4. n \in Nat
    <3>1. \A r \in K[s] : e[r] = e[r] /\ e[r] \in Nat
      BY <2>2, <2>3
    <3> QED
      BY <2>3, <3>1, InflowSame
  <2> HIDE DEF n
  <2>5. h[<<s, n>>] \in Nat
    BY <2>3, <2>4
  <2>6. d \in [S \ D -> Nat] /\ d[s] = h[<<s, n>>] /\ \A x \in S \ C : d[x] = e[x] /\ e[x] \in Nat
    BY <2>2, <2>3, <2>5
  <2> HIDE DEF d
  <2>7. ASSUME NEW x \in (S \ C) \union {s}
        PROVE  Inflow(K, split, d, x) = Inflow(K, split, e, x)
    <3>1. \A r \in K[x] : d[r] = e[r] /\ e[r] \in Nat
      BY <2>3, <2>6
    <3> QED
      BY <2>3, <3>1, InflowSame
  <2>8. Done(d, S \ D)
    <3> SUFFICES ASSUME NEW x \in S \ D PROVE d[x] = h[<<x, Inflow(K, split, d, x)>>]
      OBVIOUS
    <3>1. CASE x = s
      BY <2>6, <2>7, <3>1 DEF n
    <3>2. CASE x \in S \ C
      BY <2>2, <2>6, <2>7, <3>2
    <3> QED
      BY <2>3, <3>1, <3>2
  <2>9. \A x \in S \ D : K[x] \cap D = {}
    BY <2>3
  <2>10. D \in Left
    BY <2>6, <2>8, <2>9
  <2>11. D \in SUBSET C /\ D # C
    BY <2>1
  <2> HIDE DEF D, Left
  <2>12. D \in Good
    BY <1>1, <2>11
  <2> QED
    BY <2>10, <2>12
<1>2. \A C \in SUBSET S : (\A U \in SUBSET C : U # C => U \in Good) => C \in Good
  BY <1>1
<1>3. S \in Left
  <2> DEFINE e == [s \in S \ S |-> 0]
  <2>1. e \in [S \ S -> Nat] /\ Done(e, S \ S)
    OBVIOUS
  <2> QED
    BY <2>1
<1>4. S \in Good
  <2> HIDE DEF Good
  <2> QED
    BY <1>2, SubsetInduction
<1>5. {} \in Left
  BY <1>3, <1>4
<1>6. S \ {} = S
  OBVIOUS
<1>7. \E e : Solves(S, K, split, h, e)
  BY <1>5, <1>6 DEF Solves
<1> QED
  BY <1>7 DEF Solution

\* And there is one only: whatever is worked out along the graph has these values.
LEMMA GraphUnique ==
    ASSUME NEW S, IsFiniteSet(S), NEW K \in [S -> SUBSET S], Acyclic(S, K), NEW split,
           NEW h, NEW e, Solves(S, K, split, h, e), NEW d, Follows(S, K, split, h, d)
    PROVE  \A s \in S : d[s] = e[s]
<1> DEFINE G == {s \in S : d[s] = e[s]}
<1>1. ASSUME NEW s \in S, \A r \in K[s] \cap S : r \in G
      PROVE  d[s] = e[s]
  <2>1. K[s] \in SUBSET S
    OBVIOUS
  <2>2. \A r \in K[s] : d[r] = e[r] /\ e[r] \in Nat
    BY <1>1, <2>1 DEF Solves
  <2>3. IsFiniteSet(K[s])
    BY <2>1, FS_Subset
  <2>4. Inflow(K, split, d, s) = Inflow(K, split, e, s)
    BY <2>2, <2>3, InflowSame
  <2> QED
    BY <2>2, <2>4 DEF Solves, Follows
<1>2. \A s \in S : (\A r \in K[s] \cap S : r \in G) => s \in G
  BY <1>1
<1> HIDE DEF G
<1>3. \A s \in S : s \in G
  BY <1>2, GraphInduction
<1> QED
  BY <1>3 DEF G

=============================================================================
