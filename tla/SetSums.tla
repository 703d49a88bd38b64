------------------------------- MODULE SetSums -------------------------------
(***************************************************************************)
(* What the sum of a finite set computes, for the sums of FiniteSetsExt:   *)
(* MapThenSumSet folds a set by taking elements in an order CHOOSE fixes,  *)
(* so that the sum of a union or of a set without one element takes proof. *)
(* The proofs are by induction on the set.  The induction rule is stated   *)
(* for a set of sets instead of a predicate; FoldRules needs it too.  The  *)
(* last part is about sums and differences of numbers that wrap.           *)
(***************************************************************************)
EXTENDS Integers, FiniteSetsExt, FiniteSetTheorems, WellFoundedInduction, TLAPS

\* The sum of f over S.
SumOver(f, S) == MapThenSumSet(LAMBDA x : f[x], S)

\* g computes the sums of the sets in D, as MapThenFoldSet does.
Sums(f, g, D) ==
    g = [s \in D |-> IF s = {} THEN 0
                     ELSE LET x == CHOOSE y \in s : TRUE IN f[x] + g[s \ {x}]]

-----------------------------------------------------------------------------
(* Induction on finite sets                                                *)

\* A set of subsets of a finite set S holds all of them if it holds every T
\* whose proper subsets it holds.
LEMMA SubsetInduction ==
    ASSUME NEW S, IsFiniteSet(S), NEW P \in SUBSET (SUBSET S),
           \A T \in SUBSET S : (\A U \in SUBSET T : U # T => U \in P) => T \in P
    PROVE  P = SUBSET S
<1> SUFFICES ASSUME (SUBSET S) \ P # {} PROVE FALSE
  OBVIOUS
<1>1. IsWellFoundedOn(StrictSubsetOrdering(S), SUBSET S)
  <2>1. IsWellFoundedOn(StrictSubsetOrdering(S), FiniteSubsetsOf(S))
    BY ONLY FS_StrictSubsetOrderingWellFounded
  <2>2. FiniteSubsetsOf(S) = SUBSET S
    BY FS_FiniteSubsetsOfFinite
  <2> QED BY <2>1, <2>2
<1>2. PICK T \in (SUBSET S) \ P :
         \A U \in (SUBSET S) \ P : <<U, T>> \notin StrictSubsetOrdering(S)
  <2>1. PICK R, D, Bad : /\ R = StrictSubsetOrdering(S) /\ D = SUBSET S
                         /\ Bad = (SUBSET S) \ P
    OBVIOUS
  <2>2. Bad \subseteq D /\ Bad # {} /\ IsWellFoundedOn(R, D)
    BY <1>1, <2>1
  <2>3. \E x \in Bad : \A y \in Bad : ~(<<y, x>> \in R)
    BY ONLY <2>2, WFMin
  <2> QED BY <2>1, <2>3
<1>3. ASSUME NEW U \in SUBSET T, U # T PROVE U \in P
  BY <1>2, <1>3 DEF StrictSubsetOrdering
<1> QED BY <1>2, <1>3

\* Every set of natural numbers has a least element.
LEMMA LeastNumber ==
    ASSUME NEW S \in SUBSET Nat, S # {}
    PROVE  \E m \in S : \A k \in S : m <= k
<1> DEFINE R == {ss \in Nat \X Nat : ss[1] < ss[2]}
<1>1. IsWellFoundedOn(R, Nat)
  BY NatLessThanWellFounded DEF OpToRel
<1>2. \A k, m \in Nat : k < m => <<k, m>> \in R
  OBVIOUS
<1> HIDE DEF R
<1>3. PICK x \in S : \A y \in S : ~(<<y, x>> \in R)
  BY <1>1, WFMin
<1>4. \A k \in S : ~(k < x)
  BY <1>2, <1>3
<1> QED BY <1>4

\* The indices of a sequence are finitely many.
LEMMA IndicesFinite ==
    ASSUME NEW n \in Nat
    PROVE  IsFiniteSet(1..n)
<1>1. 1..n \in SUBSET Nat /\ \A i \in 1..n : i <= n
  OBVIOUS
<1> QED BY <1>1, FS_BoundedSetOfNaturals

-----------------------------------------------------------------------------
(* The fold                                                                *)

\* MapThenSumSet picks a function that computes the sums.
LEMMA SumIsFold ==
    ASSUME NEW f, NEW S
    PROVE  SumOver(f, S) = (CHOOSE g : Sums(f, g, SUBSET S))[S]
BY DEF SumOver, MapThenSumSet, MapThenFoldSet, Sums

\* Two such functions agree.
LEMMA SumsAgree ==
    ASSUME NEW f, NEW S, IsFiniteSet(S), NEW T, S \subseteq T, NEW g, NEW h,
           Sums(f, g, SUBSET S), Sums(f, h, SUBSET T)
    PROVE  g[S] = h[S]
<1> DEFINE P == {U \in SUBSET S : g[U] = h[U]}
<1>1. ASSUME NEW V \in SUBSET S, \A U \in SUBSET V : U # V => U \in P
      PROVE  V \in P
  <2>1. CASE V = {}
    BY <2>1 DEF Sums
  <2>2. CASE V # {}
    <3>1. PICK x : x = CHOOSE y \in V : TRUE
      OBVIOUS
    <3>2. x \in V
      BY <3>1, <2>2
    <3>3. g[V] = f[x] + g[V \ {x}] /\ h[V] = f[x] + h[V \ {x}]
      BY <3>1, <2>2 DEF Sums
    <3>4. V \ {x} \in P
      BY <1>1, <3>2
    <3> QED BY <3>3, <3>4
  <2> QED BY <2>1, <2>2
<1>2. P = SUBSET S
  <2> HIDE DEF P
  <2>1. P \in SUBSET (SUBSET S)
    BY DEF P
  <2> QED BY <1>1, <2>1, SubsetInduction
<1> QED BY <1>2

\* For finite sets there is such a function.
LEMMA SumsExist ==
    ASSUME NEW f, NEW S, IsFiniteSet(S)
    PROVE  \E g : Sums(f, g, SUBSET S)
<1> DEFINE P == {T \in SUBSET S : \E g : Sums(f, g, SUBSET T)}
<1>1. ASSUME NEW T \in SUBSET S, \A U \in SUBSET T : U # T => U \in P
      PROVE  T \in P
  <2> DEFINE g == [s \in SUBSET T |-> IF s = {} THEN 0
                     ELSE LET x == CHOOSE y \in s : TRUE IN f[x] + SumOver(f, s \ {x})]
  <2>1. ASSUME NEW u \in SUBSET T, u # T
        PROVE  g[u] = SumOver(f, u)
    <3>1. PICK k : k = CHOOSE j : Sums(f, j, SUBSET u)
      OBVIOUS
    <3>2. Sums(f, k, SUBSET u) /\ SumOver(f, u) = k[u]
      BY <1>1, <2>1, <3>1, SumIsFold
    <3>3. CASE u = {}
      BY <3>2, <3>3 DEF Sums
    <3>4. CASE u # {}
      <4>1. PICK x : x = CHOOSE y \in u : TRUE
        OBVIOUS
      <4>2. x \in u
        BY <4>1, <3>4
      <4>3. k[u] = f[x] + k[u \ {x}]
        BY <3>2, <3>4, <4>1 DEF Sums
      <4>4. PICK m : m = CHOOSE j : Sums(f, j, SUBSET (u \ {x}))
        OBVIOUS
      <4>5. u \ {x} \in P
        BY <1>1, <2>1, <4>2
      <4>6. Sums(f, m, SUBSET (u \ {x})) /\ SumOver(f, u \ {x}) = m[u \ {x}]
        BY <4>4, <4>5, SumIsFold
      <4>7. IsFiniteSet(u \ {x})
        BY FS_Subset
      <4>8. m[u \ {x}] = k[u \ {x}]
        BY <4>6, <4>7, <3>2, SumsAgree
      <4>9. g[u] = f[x] + SumOver(f, u \ {x})
        BY <4>1, <3>4
      <4> QED BY <4>3, <4>6, <4>8, <4>9, <3>2
    <3> QED BY <3>3, <3>4
  <2>2. ASSUME NEW s \in SUBSET T, s # {}
        PROVE  LET x == CHOOSE y \in s : TRUE IN g[s] = f[x] + g[s \ {x}]
    <3>1. PICK x : x = CHOOSE y \in s : TRUE
      OBVIOUS
    <3>2. x \in s
      BY <3>1, <2>2
    <3>3. g[s \ {x}] = SumOver(f, s \ {x})
      BY <2>1, <3>2
    <3>4. g[s] = f[x] + SumOver(f, s \ {x})
      BY <3>1, <2>2
    <3> HIDE DEF g
    <3> QED BY <3>1, <3>3, <3>4
  <2>3. g[{}] = 0
    OBVIOUS
  <2>4. g = [s \in SUBSET T |-> g[s]]
    OBVIOUS
  <2> HIDE DEF g
  <2>5. Sums(f, g, SUBSET T)
    BY <2>2, <2>3, <2>4 DEF Sums
  <2> QED BY <2>5
<1>2. P = SUBSET S
  <2> HIDE DEF P
  <2>1. P \in SUBSET (SUBSET S)
    BY DEF P
  <2> QED BY <1>1, <2>1, SubsetInduction
<1> QED BY <1>2

-----------------------------------------------------------------------------
(* The sum                                                                 *)

\* The sum over no elements is 0.
LEMMA SumEmpty ==
    ASSUME NEW f
    PROVE  SumOver(f, {}) = 0
<1>1. IsFiniteSet({})
  BY FS_EmptySet
<1>2. PICK g : g = CHOOSE j : Sums(f, j, SUBSET {})
  OBVIOUS
<1>3. Sums(f, g, SUBSET {}) /\ SumOver(f, {}) = g[{}]
  BY <1>1, <1>2, SumsExist, SumIsFold
<1> QED BY <1>3 DEF Sums

\* Some element comes first.
LEMMA SumUnfolds ==
    ASSUME NEW f, NEW S, IsFiniteSet(S), S # {}
    PROVE  \E x \in S : SumOver(f, S) = f[x] + SumOver(f, S \ {x})
<1>1. PICK x : x = CHOOSE y \in S : TRUE
  OBVIOUS
<1>2. x \in S
  BY <1>1
<1>3. IsFiniteSet(S \ {x})
  BY FS_Subset
<1>4. PICK g : g = CHOOSE j : Sums(f, j, SUBSET S)
  OBVIOUS
<1>5. Sums(f, g, SUBSET S) /\ SumOver(f, S) = g[S]
  BY <1>4, SumsExist, SumIsFold
<1>6. PICK h : h = CHOOSE j : Sums(f, j, SUBSET (S \ {x}))
  OBVIOUS
<1>7. Sums(f, h, SUBSET (S \ {x})) /\ SumOver(f, S \ {x}) = h[S \ {x}]
  BY <1>3, <1>6, SumsExist, SumIsFold
<1>8. h[S \ {x}] = g[S \ {x}]
  <2>1. PICK R : R = S \ {x}
    OBVIOUS
  <2>2. IsFiniteSet(R) /\ R \subseteq S /\ Sums(f, h, SUBSET R)
    BY <1>3, <1>7, <2>1
  <2>3. h[R] = g[R]
    BY ONLY <1>5, <2>2, SumsAgree
  <2> QED BY <2>1, <2>3
<1>9. g[S] = f[x] + g[S \ {x}]
  BY <1>1, <1>5 DEF Sums
<1> QED BY <1>2, <1>5, <1>7, <1>8, <1>9

\* A sum of integers is an integer.
LEMMA SumType ==
    ASSUME NEW f, NEW S, IsFiniteSet(S), \A x \in S : f[x] \in Int
    PROVE  SumOver(f, S) \in Int
<1> DEFINE P == {T \in SUBSET S : SumOver(f, T) \in Int}
<1>1. ASSUME NEW T \in SUBSET S, \A U \in SUBSET T : U # T => U \in P
      PROVE  T \in P
  <2>1. CASE T = {}
    BY <2>1, SumEmpty
  <2>2. CASE T # {}
    <3>1. IsFiniteSet(T)
      BY FS_Subset
    <3>2. PICK x \in T : SumOver(f, T) = f[x] + SumOver(f, T \ {x})
      BY <2>2, <3>1, SumUnfolds
    <3>3. T \ {x} \in P
      BY <1>1
    <3> QED BY <3>2, <3>3
  <2> QED BY <2>1, <2>2
<1>2. P = SUBSET S
  <2> HIDE DEF P
  <2>1. P \in SUBSET (SUBSET S)
    BY DEF P
  <2> QED BY <1>1, <2>1, SubsetInduction
<1> QED BY <1>2

\* Any element can come first.
LEMMA SumRemove ==
    ASSUME NEW f, NEW S, IsFiniteSet(S), \A x \in S : f[x] \in Int, NEW x \in S
    PROVE  SumOver(f, S) = f[x] + SumOver(f, S \ {x})
<1> DEFINE P == {T \in SUBSET S : \A y \in T : SumOver(f, T) = f[y] + SumOver(f, T \ {y})}
<1>1. ASSUME NEW T \in SUBSET S, \A U \in SUBSET T : U # T => U \in P
      PROVE  T \in P
  <2> SUFFICES ASSUME NEW y \in T
               PROVE  SumOver(f, T) = f[y] + SumOver(f, T \ {y})
    OBVIOUS
  <2>1. IsFiniteSet(T)
    BY FS_Subset
  <2>2. PICK z \in T : SumOver(f, T) = f[z] + SumOver(f, T \ {z})
    BY <2>1, SumUnfolds
  <2>3. CASE y # z
    <3>1. T \ {z} \in P /\ T \ {y} \in P
      BY <1>1
    <3>2. (T \ {z}) \ {y} = (T \ {y}) \ {z}
      OBVIOUS
    <3>3. PICK r : r = SumOver(f, (T \ {y}) \ {z})
      OBVIOUS
    <3>4. /\ SumOver(f, T \ {z}) = f[y] + r
          /\ SumOver(f, T \ {y}) = f[z] + r
      BY <3>1, <3>2, <3>3, <2>3
    <3>5. IsFiniteSet((T \ {y}) \ {z}) /\ \A w \in (T \ {y}) \ {z} : f[w] \in Int
      BY FS_Subset
    <3>6. r \in Int
      BY <3>3, <3>5, SumType
    <3> QED BY <2>2, <3>4, <3>6
  <2> QED BY <2>2, <2>3
<1>2. P = SUBSET S
  <2> HIDE DEF P
  <2>1. P \in SUBSET (SUBSET S)
    BY DEF P
  <2> QED BY <1>1, <2>1, SubsetInduction
<1> QED BY <1>2

\* The sum over two disjoint sets is the sum of their sums.
LEMMA SumUnion ==
    ASSUME NEW f, NEW A, NEW B, IsFiniteSet(A), IsFiniteSet(B), A \cap B = {},
           \A x \in A \cup B : f[x] \in Int
    PROVE  SumOver(f, A \cup B) = SumOver(f, A) + SumOver(f, B)
<1> DEFINE P == {T \in SUBSET B : SumOver(f, A \cup T) = SumOver(f, A) + SumOver(f, T)}
<1>a. SumOver(f, A) \in Int
  BY SumType
<1>1. ASSUME NEW T \in SUBSET B, \A U \in SUBSET T : U # T => U \in P
      PROVE  T \in P
  <2>1. CASE T = {}
    <3>1. A \cup T = A
      BY <2>1
    <3> QED BY <2>1, <3>1, <1>a, SumEmpty
  <2>2. CASE T # {}
    <3>1. IsFiniteSet(T) /\ IsFiniteSet(A \cup T)
      BY FS_Subset, FS_Union
    <3>2. PICK x \in T : TRUE
      BY <2>2
    <3>3. T \ {x} \in P /\ (A \cup T) \ {x} = A \cup (T \ {x})
      BY <1>1
    <3>4. SumOver(f, T) = f[x] + SumOver(f, T \ {x})
      BY <3>1, SumRemove
    <3>5. SumOver(f, A \cup T) = f[x] + SumOver(f, (A \cup T) \ {x})
      BY <3>1, SumRemove
    <3>6. IsFiniteSet(T \ {x}) /\ \A w \in T \ {x} : f[w] \in Int
      BY <3>1, FS_Subset
    <3>7. SumOver(f, T \ {x}) \in Int
      BY <3>6, SumType
    <3>8. f[x] \in Int
      OBVIOUS
    <3>9. PICK a, r, fx : a = SumOver(f, A) /\ r = SumOver(f, T \ {x}) /\ fx = f[x]
      OBVIOUS
    <3>10. SumOver(f, (A \cup T) \ {x}) = a + r
      BY <3>3, <3>9
    <3>11. SumOver(f, A \cup T) = SumOver(f, A) + SumOver(f, T)
      BY ONLY <1>a, <3>4, <3>5, <3>7, <3>8, <3>9, <3>10
    <3> QED BY <3>11
  <2> QED BY <2>1, <2>2
<1>2. P = SUBSET B
  <2> HIDE DEF P
  <2>1. P \in SUBSET (SUBSET B)
    BY DEF P
  <2> QED BY <1>1, <2>1, SubsetInduction
<1> QED BY <1>2

\* A sum grows with its terms.
LEMMA SumLess ==
    ASSUME NEW f, NEW g, NEW S, IsFiniteSet(S),
           \A x \in S : f[x] \in Int /\ g[x] \in Int /\ f[x] <= g[x]
    PROVE  SumOver(f, S) <= SumOver(g, S)
<1> DEFINE P == {T \in SUBSET S : SumOver(f, T) <= SumOver(g, T)}
<1>1. ASSUME NEW T \in SUBSET S, \A U \in SUBSET T : U # T => U \in P
      PROVE  T \in P
  <2>1. CASE T = {}
    BY <2>1, SumEmpty
  <2>2. CASE T # {}
    <3>1. PICK x \in T : TRUE
      BY <2>2
    <3>2. IsFiniteSet(T) /\ IsFiniteSet(T \ {x})
      BY FS_Subset
    <3>3. SumOver(f, T) = f[x] + SumOver(f, T \ {x}) /\ SumOver(g, T) = g[x] + SumOver(g, T \ {x})
      BY <3>2, SumRemove
    <3>4. SumOver(f, T \ {x}) \in Int /\ SumOver(g, T \ {x}) \in Int
      <4>1. \A y \in T \ {x} : f[y] \in Int /\ g[y] \in Int
        OBVIOUS
      <4> QED BY <3>2, <4>1, SumType
    <3>5. SumOver(f, T \ {x}) <= SumOver(g, T \ {x})
      BY <1>1
    <3> QED BY <3>3, <3>4, <3>5
  <2> QED BY <2>1, <2>2
<1>2. P = SUBSET S
  <2> HIDE DEF P
  <2>1. P \in SUBSET (SUBSET S)
    BY DEF P
  <2> QED BY <1>1, <2>1, SubsetInduction
<1> QED BY <1>2

\* Functions that agree on a set have the same sum over it.
LEMMA SumEqual ==
    ASSUME NEW f, NEW g, NEW S, IsFiniteSet(S), \A x \in S : f[x] \in Int /\ g[x] = f[x]
    PROVE  SumOver(g, S) = SumOver(f, S)
<1>1. SumOver(f, S) <= SumOver(g, S) /\ SumOver(g, S) <= SumOver(f, S)
  BY SumLess
<1>2. SumOver(f, S) \in Int /\ SumOver(g, S) \in Int
  BY SumType
<1> QED BY <1>1, <1>2

\* A sum of zeros is zero.
LEMMA SumZero ==
    ASSUME NEW f, NEW S, IsFiniteSet(S), \A x \in S : f[x] = 0
    PROVE  SumOver(f, S) = 0
<1> DEFINE P == {T \in SUBSET S : SumOver(f, T) = 0}
<1>1. ASSUME NEW T \in SUBSET S, \A U \in SUBSET T : U # T => U \in P
      PROVE  T \in P
  <2>1. CASE T = {}
    BY <2>1, SumEmpty
  <2>2. CASE T # {}
    <3>1. PICK x \in T : SumOver(f, T) = f[x] + SumOver(f, T \ {x})
      BY <2>2, FS_Subset, SumUnfolds
    <3> QED BY <1>1, <3>1
  <2> QED BY <2>1, <2>2
<1>2. P = SUBSET S
  <2> HIDE DEF P
  <2>1. P \in SUBSET (SUBSET S)
    BY DEF P
  <2> QED BY <1>1, <2>1, SubsetInduction
<1> QED BY <1>2

\* One term changes.
LEMMA SumChange ==
    ASSUME NEW f, NEW g, NEW S, IsFiniteSet(S), NEW x \in S,
           \A y \in S : f[y] \in Int /\ g[y] \in Int,
           \A y \in S \ {x} : g[y] = f[y]
    PROVE  SumOver(g, S) = SumOver(f, S) - f[x] + g[x]
<1>1. IsFiniteSet(S \ {x})
  BY FS_Subset
<1>2. SumOver(f, S) = f[x] + SumOver(f, S \ {x}) /\ SumOver(g, S) = g[x] + SumOver(g, S \ {x})
  BY SumRemove
<1>3. SumOver(g, S \ {x}) = SumOver(f, S \ {x})
  BY <1>1, SumEqual
<1>4. SumOver(f, S \ {x}) \in Int
  <2>1. \A y \in S \ {x} : f[y] \in Int
    OBVIOUS
  <2> QED BY <1>1, <2>1, SumType
<1> QED BY <1>2, <1>3, <1>4

\* The image of a finite set is finite.
LEMMA FiniteImage ==
    ASSUME NEW S, IsFiniteSet(S), NEW f
    PROVE  IsFiniteSet({f[x] : x \in S})
<1> DEFINE P == {T \in SUBSET S : IsFiniteSet({f[x] : x \in T})}
<1>1. ASSUME NEW T \in SUBSET S, \A U \in SUBSET T : U # T => U \in P
      PROVE  T \in P
  <2>1. CASE T = {}
    <3>1. {f[x] : x \in T} = {}
      BY <2>1
    <3> QED BY <3>1, FS_EmptySet
  <2>2. CASE T # {}
    <3>1. PICK x \in T : TRUE
      BY <2>2
    <3>2. PICK U : U = T \ {x}
      OBVIOUS
    <3>3. IsFiniteSet({f[y] : y \in U})
      BY <1>1, <3>1, <3>2
    <3>4. {f[y] : y \in T} = {f[y] : y \in U} \cup {f[x]}
      BY <3>1, <3>2
    <3>5. PICK A : A = {f[y] : y \in U}
      OBVIOUS
    <3>6. IsFiniteSet(A \cup {f[x]})
      BY <3>3, <3>5, FS_AddElement
    <3> QED BY <3>4, <3>5, <3>6
  <2> QED BY <2>1, <2>2
<1>2. P = SUBSET S
  <2>1. P \in SUBSET (SUBSET S)
    OBVIOUS
  <2> HIDE DEF P
  <2> QED BY <1>1, <2>1, SubsetInduction
<1> QED BY <1>2

\* A sum of numbers that are not negative is none.
LEMMA SumNatural ==
    ASSUME NEW f, NEW S, IsFiniteSet(S), \A x \in S : f[x] \in Int /\ f[x] >= 0
    PROVE  SumOver(f, S) \in Int /\ SumOver(f, S) >= 0
<1>1. PICK z : z = [x \in S |-> 0]
  OBVIOUS
<1>2. \A x \in S : z[x] = 0 /\ z[x] \in Int /\ z[x] <= f[x]
  BY <1>1
<1>3. SumOver(z, S) = 0 /\ SumOver(z, S) <= SumOver(f, S)
  BY <1>2, SumZero, SumLess
<1> QED BY <1>3, SumType

\* The sum over the images of a set that r does not merge.
LEMMA SumImage ==
    ASSUME NEW f, NEW g, NEW r, NEW S, IsFiniteSet(S),
           \A x \in S : f[x] \in Int /\ g[r[x]] = f[x],
           \A x, y \in S : r[x] = r[y] => x = y
    PROVE  SumOver(g, {r[x] : x \in S}) = SumOver(f, S)
<1> DEFINE P == {T \in SUBSET S : SumOver(g, {r[x] : x \in T}) = SumOver(f, T)}
<1>1. ASSUME NEW T \in SUBSET S, \A U \in SUBSET T : U # T => U \in P
      PROVE  T \in P
  <2>1. CASE T = {}
    <3>1. {r[x] : x \in T} = {}
      BY <2>1
    <3> QED BY <2>1, <3>1, SumEmpty
  <2>2. CASE T # {}
    <3>1. PICK x \in T : TRUE
      BY <2>2
    <3>2. PICK U, A, B : U = T \ {x} /\ A = {r[y] : y \in T} /\ B = {r[y] : y \in U}
      OBVIOUS
    <3>3. IsFiniteSet(T) /\ IsFiniteSet(A)
      BY <3>2, FS_Subset, FiniteImage
    <3>4. r[x] \in A /\ A \ {r[x]} = B
      BY <3>1, <3>2
    <3>5. \A a \in A : g[a] \in Int
      BY <3>2
    <3>6. SumOver(g, A) = g[r[x]] + SumOver(g, B)
      BY <3>3, <3>4, <3>5, SumRemove
    <3>7. SumOver(f, T) = f[x] + SumOver(f, U)
      BY <3>1, <3>2, <3>3, SumRemove
    <3>8. SumOver(g, B) = SumOver(f, U)
      BY <1>1, <3>1, <3>2
    <3>9. g[r[x]] = f[x]
      BY <3>1
    <3>10. SumOver(g, A) = SumOver(f, T)
      BY <3>6, <3>7, <3>8, <3>9
    <3> QED BY <3>2, <3>10
  <2> QED BY <2>1, <2>2
<1>2. P = SUBSET S
  <2>1. P \in SUBSET (SUBSET S)
    OBVIOUS
  <2> HIDE DEF P
  <2> QED BY <1>1, <2>1, SubsetInduction
<1> QED BY <1>2

-----------------------------------------------------------------------------
(* Words: numbers that wrap                                                *)

\* Words that differ by multiples of w are equal.
LEMMA WordsEqual ==
    ASSUME NEW w \in Nat \ {0}, NEW x \in Int, NEW y \in Int, NEW k \in Int,
           x - y = k * w, 0 <= x, x < w, 0 <= y, y < w
    PROVE  x = y
<1>1. CASE k >= 1
  <2>1. k * w >= w
    BY <1>1
  <2> QED BY <2>1
<1>2. CASE k <= -1
  <2>1. k * w <= -w
    BY <1>2
  <2> QED BY <2>1
<1>3. CASE k = 0
  BY <1>3
<1> QED BY <1>1, <1>2, <1>3

\* A number less the word it wraps to is a multiple of w.
LEMMA WordOf ==
    ASSUME NEW w \in Nat \ {0}, NEW a \in Int
    PROVE  /\ a % w \in Int /\ 0 <= a % w /\ a % w < w
           /\ \E k \in Int : a - (a % w) = k * w
<1>1. a % w \in 0..(w - 1)
  OBVIOUS
<1>2. a \div w \in Int /\ w \in Int /\ w > 0
  OBVIOUS
<1>3. a - (a % w) = (a \div w) * w
  BY ONLY <1>2, a \in Int, Z3
<1>4. \E k \in Int : a - (a % w) = k * w
  <2>1. PICK k : k = a \div w
    OBVIOUS
  <2>2. k \in Int /\ a - (a % w) = k * w
    BY <1>2, <1>3, <2>1
  <2> QED BY <2>2
<1>5. a % w \in Int /\ 0 <= a % w /\ a % w < w
  BY <1>1
<1> QED BY <1>4, <1>5

\* Wrapping never makes a number larger, and leaves a word as it is.
LEMMA WordLess ==
    ASSUME NEW w \in Nat \ {0}, NEW a \in Int, a >= 0
    PROVE  a % w <= a /\ (a < w => a % w = a)
<1>1. PICK m, k \in Int : m = a % w /\ m \in Int /\ 0 <= m /\ m < w /\ a - m = k * w
  BY WordOf
<1>2. m <= a
  <2>1. CASE k <= -1
    <3>1. k * w <= -w
      BY <2>1
    <3> QED BY <1>1, <3>1
  <2>2. CASE k >= 0
    <3>1. k * w >= 0
      BY <2>2
    <3> QED BY <1>1, <3>1
  <2> QED BY <2>1, <2>2
<1>3. a < w => m = a
  BY <1>1, WordsEqual
<1> QED BY <1>1, <1>2, <1>3

\* Additions may wrap first or last.
LEMMA WordAdd ==
    ASSUME NEW w \in Nat \ {0}, NEW a \in Int, NEW b \in Int
    PROVE  ((a % w) + b) % w = (a + b) % w
<1>1. PICK k1 \in Int : a - (a % w) = k1 * w
  BY WordOf
<1>2. PICK x, y, r : x = ((a % w) + b) % w /\ y = (a + b) % w /\ r = a % w
  OBVIOUS
<1>3. r \in Int /\ r + b \in Int /\ a + b \in Int
  BY <1>2, WordOf
<1>4. PICK k2 \in Int : (r + b) - x = k2 * w
  BY <1>2, <1>3, WordOf
<1>5. PICK k3 \in Int : (a + b) - y = k3 * w
  BY <1>2, <1>3, WordOf
<1>6. x \in Int /\ y \in Int /\ 0 <= x /\ x < w /\ 0 <= y /\ y < w
  BY <1>2, <1>3, WordOf
<1>7. x - y = k3 * w - k1 * w - k2 * w
  <2>1. PICK p1, p2, p3 : p1 = k1 * w /\ p2 = k2 * w /\ p3 = k3 * w
    OBVIOUS
  <2>2. p1 \in Int /\ p2 \in Int /\ p3 \in Int
    BY <2>1
  <2>3. a - r = p1 /\ (r + b) - x = p2 /\ (a + b) - y = p3
    BY <1>1, <1>2, <1>4, <1>5, <2>1
  <2>4. x - y = p3 - p1 - p2
    BY ONLY <1>3, <1>6, <2>2, <2>3, a \in Int, b \in Int
  <2> QED BY <2>1, <2>4
<1>8. k3 * w - k1 * w - k2 * w = (k3 - k1 - k2) * w
  OBVIOUS
<1>9. x = y
  BY <1>6, <1>7, <1>8, WordsEqual
<1> QED BY <1>2, <1>9

\* So may subtractions.
LEMMA WordSubtract ==
    ASSUME NEW w \in Nat \ {0}, NEW a \in Int, NEW b \in Int
    PROVE  (b - (a % w)) % w = (b - a) % w
<1>1. PICK k1 \in Int : a - (a % w) = k1 * w
  BY WordOf
<1>2. PICK x, y, r : x = (b - (a % w)) % w /\ y = (b - a) % w /\ r = a % w
  OBVIOUS
<1>3. r \in Int /\ b - r \in Int /\ b - a \in Int
  BY <1>2, WordOf
<1>4. PICK k2 \in Int : (b - r) - x = k2 * w
  BY <1>2, <1>3, WordOf
<1>5. PICK k3 \in Int : (b - a) - y = k3 * w
  BY <1>2, <1>3, WordOf
<1>6. x \in Int /\ y \in Int /\ 0 <= x /\ x < w /\ 0 <= y /\ y < w
  BY <1>2, <1>3, WordOf
<1>7. x - y = k3 * w + k1 * w - k2 * w
  <2>1. PICK p1, p2, p3 : p1 = k1 * w /\ p2 = k2 * w /\ p3 = k3 * w
    OBVIOUS
  <2>2. p1 \in Int /\ p2 \in Int /\ p3 \in Int
    BY <2>1
  <2>3. a - r = p1 /\ (b - r) - x = p2 /\ (b - a) - y = p3
    BY <1>1, <1>2, <1>4, <1>5, <2>1
  <2>4. x - y = p3 + p1 - p2
    BY ONLY <1>3, <1>6, <2>2, <2>3, a \in Int, b \in Int
  <2> QED BY <2>1, <2>4
<1>8. k3 * w + k1 * w - k2 * w = (k3 + k1 - k2) * w
  OBVIOUS
<1>9. x = y
  BY <1>6, <1>7, <1>8, WordsEqual
<1> QED BY <1>2, <1>9
=============================================================================
